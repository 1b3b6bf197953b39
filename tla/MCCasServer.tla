----------------------------- MODULE MCCasServer -----------------------------
(* Small instances of Dev.CasServer for TLC. *)
EXTENDS CasServerProperties, TLC

Symmetric == Permutations(Requests) \cup Permutations(Users)

\* Nothing that is done depends on what is left out, nor does a property.
View == <<now, nCounter, cache, call, handed, reported, spent, lost>>
=============================================================================
