--------------------------- MODULE UnitProperties ---------------------------
(***************************************************************************)
(* What the units of work of DevLibs promise, and what the documentation   *)
(* of their modes promises beyond that.                                    *)
(***************************************************************************)
EXTENDS UnitOfWork

Deferring == {t \in Transactions : kind[t] = "required"}
InTransaction(changes) == {w \in changes : w.tx \in Deferring}
Live == {t \in Listed : t \notin spoiled}

Atomic == INSTANCE AtomicWork
            WITH TransactionOf <- LAMBDA w : w.tx,
                 partOf <- [s \in Scopes |-> scope[s].tx],
                 pending <- InTransaction(unsaved \cup saved),
                 durable <- InTransaction(durable),
                 over <- Deferring \ Live

\* However scopes of the three modes are nested and whichever save or commit
\* fails, what was changed in one transaction becomes durable all at once, after
\* every scope enlisted in it has committed, or not at all.
ImplementsAtomicWork == Atomic!Spec

\* A transaction ends only while all that were begun later have ended: .NET
\* requires its TransactionScopes to be disposed innermost first.
TransactionScopesNest ==
  [][\A i \in DOMAIN list : list[i] \in Live /\ list[i] \notin Live'
       => \A j \in 1..(i - 1) : list[j] \notin Live]_vars

\* No transaction is left open, holding its connection and locks, once the
\* blocks of its scopes have ended; and no scope of it is left behind that
\* ends later than it and is not told.
NothingLeftOpen ==
  /\ \A t \in Live : attached[t] # {} /\ attached[t] \subseteq Opened
  /\ \A s \in Opened \ completed : scope[s].tx \in Listed /\ s \in attached[scope[s].tx]

\* The inductive invariant, in parts.  A scope has a transaction from the start of
\* its block on.
ScopesOK ==
  /\ \A s \in Scopes : (scope[s].mode = None) = (scope[s].tx = None)
  /\ \A s \in Opened \cup completed : scope[s].mode # None
  /\ \A s \in Scopes : scope[s].tx # None => kind[scope[s].tx] # "unused"

\* A transaction's scopes are the open ones that have neither voted nor been
\* completed by others; once they are gone, all that took part have voted.
AttachedOK == \A t \in Transactions : attached[t] = {s \in Opened \ completed : scope[s].tx = t}

VotesOK ==
  /\ \A s \in Scopes : scope[s].tx \in Live => s \in voted \cup attached[scope[s].tx]
  /\ voted \subseteq completed

\* The manager lists a transaction once, and in the order the blocks nest.
ListOK ==
  /\ \A i, j \in DOMAIN list : list[i] = list[j] => i = j
  /\ spoiled \subseteq Listed
  /\ \A t \in Listed : kind[t] # "unused"

BlocksNest ==
  /\ \A i, j \in DOMAIN open : open[i] = open[j] => i = j
  /\ \A i, j \in DOMAIN open : \A k, l \in DOMAIN list :
       /\ i < j /\ {open[i], open[j]} \cap completed = {}
       /\ scope[open[i]].tx = list[k] /\ scope[open[j]].tx = list[l]
       => k <= l

\* What is undecided belongs to a live transaction or to none, what is saved but
\* not durable to one that defers, and a deferring one that goes on made nothing
\* durable.
ChangesOK ==
  /\ \A w \in unsaved \cup saved : w.tx \in Live \cup {None}
  /\ \A w \in saved : w.tx \in Deferring
  /\ \A w \in durable : w.tx \in Deferring => w.tx \notin Live
  /\ \A w \in durable : w.tx # None => kind[w.tx] # "unused"

UnitIInv ==
  /\ UnitTypeOK
  /\ NothingLeftOpen
  /\ ScopesOK /\ AttachedOK /\ VotesOK
  /\ ListOK /\ BlocksNest
  /\ ChangesOK
=============================================================================
