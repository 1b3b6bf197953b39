----------------------------- MODULE AtomicWork -----------------------------
(***************************************************************************)
(* What nested units of work promise of a transaction they share: all that *)
(* was changed in it becomes durable at once, when every unit that takes   *)
(* part has asked for it, or nothing ever does.                            *)
(***************************************************************************)
CONSTANTS Transactions, Scopes, Changes, TransactionOf(_), None

VARIABLES
  partOf,   \* the transaction a scope takes part in
  voted,    \* scopes that have asked for the commit
  pending,  \* changes that are not decided on
  durable,
  over      \* transactions that are decided

vars == <<partOf, voted, pending, durable, over>>

Of(t, changes) == {w \in changes : TransactionOf(w) = t}

Init ==
  /\ partOf = [s \in Scopes |-> None]
  /\ voted = {}
  /\ pending = {}
  /\ durable = {}
  /\ over = {}

Join(s, t) ==
  /\ partOf[s] = None
  /\ partOf' = [partOf EXCEPT ![s] = t]
  /\ UNCHANGED <<voted, pending, durable, over>>

Change(w) ==
  /\ TransactionOf(w) \notin over
  /\ pending' = pending \cup {w}
  /\ UNCHANGED <<partOf, voted, durable, over>>

Vote(s) ==
  /\ voted' = voted \cup {s}
  /\ UNCHANGED <<partOf, pending, durable, over>>

\* The last vote decides.
Commit(s) ==
  LET t == partOf[s] IN
  /\ t \notin over
  /\ voted' = voted \cup {s}
  /\ \A o \in Scopes : partOf[o] = t => o \in voted'
  /\ durable' = durable \cup Of(t, pending)
  /\ pending' = pending \ Of(t, pending)
  /\ over' = over \cup {t}
  /\ UNCHANGED partOf

Abort(t) ==
  /\ voted' \in {voted} \cup {voted \cup {s} : s \in Scopes}
  /\ pending' = pending \ Of(t, pending)
  /\ over' = over \cup {t}
  /\ UNCHANGED <<partOf, durable>>

Next ==
  \/ \E s \in Scopes : Vote(s) \/ Commit(s) \/ \E t \in Transactions : Join(s, t)
  \/ \E w \in Changes : Change(w)
  \/ \E t \in Transactions : Abort(t)

Spec == Init /\ [][Next]_vars
=============================================================================
