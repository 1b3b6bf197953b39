------------------------------- MODULE MCUnits -------------------------------
(* Small instances of the units of work for TLC. *)
EXTENDS UnitProperties, TLC

Symmetric == Permutations(Scopes) \cup Permutations(Transactions) \cup Permutations(Sessions)
=============================================================================
