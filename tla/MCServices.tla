----------------------------- MODULE MCServices -----------------------------
(* Small instances of the services manager for TLC. *)
EXTENDS ServicesProperties, TLC

Symmetric == Permutations(Threads) \cup Permutations(Names)

\* Nothing that is done depends on what is left out.
View == <<list, services, call, collided, kept>>

\* Once two calls of save have overlapped, only a short list is followed any further.
ShortOnceCollided == collided => size <= 1
=============================================================================
