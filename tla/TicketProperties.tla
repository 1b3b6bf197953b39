-------------------------- MODULE TicketProperties --------------------------
(***************************************************************************)
(* What the ticket core of NCAS promises (checked, and proved in           *)
(* TicketProofs), and what its documentation promises of it.               *)
(***************************************************************************)
EXTENDS TicketRegistryCleaner

(***************************************************************************)
(* Safety                                                                  *)
(***************************************************************************)

\* However many validations of one service ticket overlap, no more of them
\* produce an Assertion than the policy allows uses: validateServiceTicket
\* asks isExpired and counts the use under one lock.
AtMostNumberOfUses == \A s \in STs : accepted[s] <= NumberOfUses

\* Once a caller holds a service ticket of a TGT, that TGT counts as used,
\* whatever updates countOfUses++ lost to races.
ReturnedTicketCounted == \A s \in returned : tgt[st[s].tgt].count > 0

\* After destroyTicketGrantingTicket has returned, no grant that starts can
\* find the TGT, whatever the requests that were under way do: none of them
\* puts it back.
DestroyedNotRegistered == destroyed \cap registry = {}

(***************************************************************************)
(* Action properties                                                       *)
(***************************************************************************)

\* A grant for a service outside SSO passes its check only while no service
\* ticket of that TGT is in a caller's hands.
SsoCheckSeesReturnedTickets ==
  [][\A r \in Requests :
       (At(r, "grant_authorize") /\ At(r, "grant_construct")'
          /\ call[r].service \notin SsoEnabled)
       => \A s \in returned : st[s].tgt # call[r].tgt]_vars

\* A service ticket made after another ticket of its TGT was returned never
\* claims to come from a new login.
NewLoginOnlyBeforeFirstReturn ==
  [][\A s \in STs :
       (s \notin issued /\ s \in issued' /\ st'[s].fromNewLogin)
       => \A o \in returned : st[o].tgt # st'[s].tgt]_vars

\* A service ticket its own policy has expired stays expired, although time
\* passes between the check under the lock and isValidFor's refresh of
\* lastTimeUsed.  (With more than one use allowed, that refresh can revive it.)
ExpiryIsFinal ==
  [][\A s \in STs \cap issued : STExpiredByPolicy(s) => STExpiredByPolicy(s)']_vars

\* expire() goes on to delete the ticket only when every service its
\* dictionary holds has been sent its logout message, although grants may be
\* adding to the dictionary while it is enumerated.
LogoutReachesEveryRecordedService ==
  [][\A r \in Requests :
       (At(r, "destroy_logout") /\ At(r, "destroy_delete")')
       => tgt[call[r].tgt].services \subseteq notified]_vars

(***************************************************************************)
(* Refinement                                                              *)
(***************************************************************************)

Ledger ==
  INSTANCE ServiceTicketLedger WITH
    Vouchers <- STs,
    Limit <- NumberOfUses,
    held <- returned,
    left <- [s \in STs |-> NumberOfUses - st[s].count],
    redeemed <- accepted

\* Under every interleaving of the requests the server treats service tickets
\* as the ledger's vouchers: none is accepted before it was returned to its
\* caller, and each presentation, right or wrong, uses one of its uses.
ImplementsLedger == Ledger!Spec

(***************************************************************************)
(* Liveness                                                                *)
(***************************************************************************)

\* No call hangs: in particular the monitor of a service ticket is released
\* on every path.
CallsReturn == \A r \in Requests : []<>At(r, "idle")

\* The cleaner lets no ticket stay registered and expired for ever, although
\* an enumerator that throws makes it abandon its list.
ExpiredTicketsLeave == \A x \in Tickets : []<>(x \notin registry \/ ~isExpired(x))

(***************************************************************************)
(* What the documentation says and the code does not do                    *)
(***************************************************************************)

\* CentralAuthenticationService.cs: destroying a TGT has the effect of
\* invalidating any Ticket that was derived from it.
DestroyInvalidatesDerivedTickets ==
  \A s \in returned : st[s].tgt \in destroyed => STExpired(s)

(***************************************************************************)
(* The inductive invariant of the proofs                                   *)
(***************************************************************************)

\* What a request relies on while it executes a call: the locals the next
\* statement reads are set and name tickets that exist, the monitor is held
\* from the check to the count, the use about to be counted is still allowed,
\* and a ticket that has reached its TGT's dictionary has been counted there.
RequestOK(r) ==
  LET c == call[r] IN
  /\ c.pc \in GrantPCs \cup DestroyPCs \cup {"delegate_register"} => c.tgt \in TGTs
  /\ c.pc \in GrantedPCs \cup ValidatePCs \cup DelegatePCs => c.st \in STs
  /\ {c.tgt, c.st} \subseteq issued \cup {None}
  /\ c.pc \in ValidatePCs \cup DelegatePCs => c.st \in returned
  /\ c.pc \in {"validate_expiry", "validate_match"} => monitor[c.st] = r
  /\ c.pc = "validate_match" => st[c.st].count < NumberOfUses
  /\ c.pc \in GrantedPCs => st[c.st].tgt = c.tgt
  /\ c.pc \in {"grant_record", "grant_register"} => tgt[c.tgt].count > 0

\* Only tickets that have been made are registered or held by a caller, and
\* what a ticket's counters say covers what callers were told.
TicketsOK ==
  /\ registry \cup returned \subseteq issued
  /\ STs \cap registry \subseteq returned
  /\ \A s \in STs \cap issued : st[s].tgt \in TGTs \cap issued
  /\ \A s \in STs \ issued : st[s].count = 0
  /\ \A s \in STs : accepted[s] <= st[s].count /\ st[s].count <= NumberOfUses
  /\ \A s \in returned : tgt[st[s].tgt].count > 0

CleanerOK == cleaner.pc \in {"logout", "delete"} => cleaner.tgt \in TGTs

IInv ==
  /\ TypeOK
  /\ \A r \in Requests : RequestOK(r)
  /\ TicketsOK
  /\ CleanerOK

(***************************************************************************)
(* What the end of a TGT rests on, beside IInv                             *)
(***************************************************************************)

\* The call that delegates is the only one that knows the new TGT until it is
\* registered, so no other can have destroyed it.
FreshTicket(r) ==
  At(r, "delegate_register") =>
    /\ call[r].tgt \notin registry \cup destroyed
    /\ \A o \in Requests \ {r} : call[o].tgt # call[r].tgt

\* As long as the dictionary's version is the enumerator's, each of its entries
\* is still to come or has been sent its message.
EnumeratorOK(r) ==
  LET t == tgt[call[r].tgt] IN
  At(r, "destroy_logout") =>
    /\ call[r].num <= t.version
    /\ call[r].num = t.version => t.services \subseteq call[r].keys \cup notified

DestroyIInv ==
  /\ destroyed \subseteq TGTs \cap issued
  /\ DestroyedNotRegistered
  /\ \A r \in Requests : FreshTicket(r) /\ EnumeratorOK(r)
=============================================================================
