----------------------------- MODULE MCAccounts -----------------------------
(* Small instances of the user accounts for TLC. *)
EXTENDS AccountProperties, TLC

Symmetric == Permutations(Requests) \cup Permutations(Nicks)

\* The clock is only compared with the time of a code: it starts at the first.
ClockFromFirstCode == made = 0 => now = 0

\* Requests fail for the accounts with a phone, which a failure can leave without
\* a uid and without the last code.
FailuresOfPhones == failed \subseteq WithPhone

\* Names and codes have no column in common: races for both are not combined.
RacesOfOneKind == racedNicks = {} \/ raced = {}
=============================================================================
