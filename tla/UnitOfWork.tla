----------------------------- MODULE UnitOfWork -----------------------------
(***************************************************************************)
(* The units of work of DevLibs: UnitOfWorkScope objects in nested using   *)
(* blocks of one thread, its TransactionManager, the UnitOfWorkTransactions*)
(* they enlist in, and the Entity Framework sessions the repositories of   *)
(* the code in the blocks work with.  The code in a block commits only the *)
(* scope of that block, at any time.                                       *)
(***************************************************************************)
EXTENDS Naturals, SequencesExt

CONSTANTS
  Scopes, Transactions, Sessions, None,
  MaxChanges         \* bound on the changes there are at a time

Modes == {"Default", "New", "Supress"}

ASSUME UnitOfWorkAssumption ==
  /\ None \notin Scopes \cup Transactions \cup Modes
  /\ MaxChanges \in Nat

VARIABLES
  autoComplete,  \* UnitOfWorkSettings.AutoCompleteScope
  open,          \* the scopes whose block is being executed, innermost first
  scope,         \* the mode and the transaction each was created with
  completed,     \* scopes whose _completed is set
  list,          \* TransactionManager._transactions
  kind,          \* how a transaction's TransactionScope was created
  attached,      \* UnitOfWorkTransaction._attachedScopes
  spoiled,       \* transactions whose unit of work is disposed, but not they
  unsaved,       \* changes in the sessions
  saved,         \* changes sent to the database, but not committed
  durable,       \* changes that are there to stay
  voted          \* scopes whose commit was taken (history)

scopeVars == <<autoComplete, open, scope, completed, voted>>
transactionVars == <<list, kind, attached, spoiled>>
data == <<unsaved, saved, durable>>
vars == <<scopeVars, transactionVars, data>>

\* A change is known by the transaction whose unit of work it was made in, the
\* innermost scope of the code that made it, and the session of its entity.
Changes == [tx : Transactions \cup {None}, by : Scopes \cup {None}, session : Sessions]
Of(t, changes) == {w \in changes : w.tx = t}
In(session, changes) == {w \in changes : w.session = session}

Listed == {list[i] : i \in DOMAIN list}
Opened == {open[i] : i \in DOMAIN open}

UnitTypeOK ==
  /\ autoComplete \in BOOLEAN
  /\ open \in Seq(Scopes)
  /\ scope \in [Scopes -> [mode : Modes \cup {None}, tx : Transactions \cup {None}]]
  /\ completed \subseteq Scopes /\ voted \subseteq Scopes
  /\ list \in Seq(Transactions)
  /\ kind \in [Transactions -> {"unused", "required", "suppress"}]
  /\ attached \in [Transactions -> SUBSET Scopes]
  /\ spoiled \subseteq Transactions
  /\ unsaved \subseteq Changes /\ saved \subseteq Changes /\ durable \subseteq Changes

Init ==
  /\ autoComplete \in BOOLEAN
  /\ open = <<>>
  /\ scope = [s \in Scopes |-> [mode |-> None, tx |-> None]]
  /\ completed = {} /\ voted = {}
  /\ list = <<>>
  /\ kind = [t \in Transactions |-> "unused"]
  /\ attached = [t \in Transactions |-> {}]
  /\ spoiled = {}
  /\ unsaved = {} /\ saved = {} /\ durable = {}

(***************************************************************************)
(* new UnitOfWorkScope(mode): TransactionManager.EnlistScope               *)
(***************************************************************************)

\* Variant with a bug: the new transaction is put behind the others.
EnlistNewLast(s, mode) ==
  \E t \in Transactions :
    /\ kind[t] = "unused"
    /\ list = <<>> \/ mode # "Default"
    /\ kind' = [kind EXCEPT ![t] = IF mode = "Supress" THEN "suppress" ELSE "required"]
    /\ attached' = [attached EXCEPT ![t] = {s}]
    /\ list' = Append(list, t)
    /\ scope' = [scope EXCEPT ![s] = [mode |-> mode, tx |-> t]]

EnlistNew(s, mode) ==
  \E t \in Transactions :
    /\ kind[t] = "unused"
    /\ list = <<>> \/ mode # "Default"
    /\ kind' = [kind EXCEPT ![t] = IF mode = "Supress" THEN "suppress" ELSE "required"]
    /\ attached' = [attached EXCEPT ![t] = {s}]
    /\ list' = <<t>> \o list
    /\ scope' = [scope EXCEPT ![s] = [mode |-> mode, tx |-> t]]

EnlistCurrent(s, mode) ==
  /\ list # <<>> /\ mode = "Default"
  /\ attached' = [attached EXCEPT ![Head(list)] = @ \cup {s}]
  /\ scope' = [scope EXCEPT ![s] = [mode |-> mode, tx |-> Head(list)]]
  /\ UNCHANGED <<list, kind>>

Enlist ==
  \E s \in Scopes, mode \in Modes :
    /\ scope[s].mode = None
    /\ open' = <<s>> \o open
    /\ EnlistNew(s, mode) \/ EnlistCurrent(s, mode)
    /\ UNCHANGED <<autoComplete, completed, voted, spoiled, data>>

(***************************************************************************)
(* EFRepository: Add, Update and Delete change what is in the session of   *)
(* the current unit of work, and save at once when there is none           *)
(***************************************************************************)

Author == IF open = <<>> THEN None ELSE Head(open)

\* Of CurrentUnitOfWork, or the one kept for code outside all transactions.
Current == IF list = <<>> THEN None ELSE Head(list)

CanChange ==
  /\ Current \notin spoiled
  /\ Cardinality(unsaved \cup saved \cup durable) < MaxChanges

\* DbContext.SaveChanges.  Only a TransactionScope that is not suppressed defers.
Save(t, changes) ==
  /\ unsaved' = unsaved \ changes
  /\ IF t # None /\ kind[t] = "required"
     THEN saved' = saved \cup changes /\ UNCHANGED durable
     ELSE durable' = durable \cup changes /\ UNCHANGED saved

\* Where nothing defers it the change is saved at once; it stays in the session
\* when that fails.
Change(session) ==
  LET w == [tx |-> Current, by |-> Author, session |-> session] IN
  /\ CanChange
  /\ \/ unsaved' = unsaved \cup {w} /\ UNCHANGED <<saved, durable>>
     \/ list = <<>> /\ Save(None, {w} \cup In(session, Of(None, unsaved)))
  /\ UNCHANGED <<scopeVars, transactionVars>>

\* IRepository.SaveChanges; Attach also ends in one.
SaveChanges(session) ==
  /\ Current \notin spoiled
  /\ Save(Current, In(session, Of(Current, unsaved)))
  /\ UNCHANGED <<scopeVars, transactionVars>>

(***************************************************************************)
(* UnitOfWorkTransaction                                                   *)
(***************************************************************************)

\* Dispose: the unit of work and the TransactionScope are disposed, the manager
\* forgets the transaction, the scopes still attached are completed.
DisposeTransaction(t, done) ==
  /\ list' = RemoveFirst(list, t)
  /\ completed' = completed \cup done \cup attached[t]
  /\ attached' = [attached EXCEPT ![t] = {}]
  /\ spoiled' = spoiled \ {t}
  /\ unsaved' = unsaved \ Of(t, unsaved)
  /\ saved' = saved \ Of(t, saved)
  /\ UNCHANGED kind

\* OnScopeCommitting, not the last scope.
CommitWaits(s) ==
  LET t == scope[s].tx IN
  /\ attached[t] # {s}
  /\ attached' = [attached EXCEPT ![t] = @ \ {s}]
  /\ completed' = completed \cup {s}
  /\ UNCHANGED <<list, kind, spoiled, data>>

\* The last scope: Flush saves every session, Complete, and Dispose commits.
CommitAll(s) ==
  LET t == scope[s].tx IN
  /\ attached[t] = {s}
  /\ t \notin spoiled
  /\ DisposeTransaction(t, {s})
  /\ durable' = durable \cup Of(t, unsaved \cup saved)

\* Flush throws, after some sessions have been saved or because the unit of
\* work is disposed.  Dispose rolls back what can be rolled back.
FlushFails(s) ==
  LET t == scope[s].tx IN
  /\ attached[t] = {s}
  /\ DisposeTransaction(t, {s})
  /\ \E flushed \in SUBSET Sessions :
       durable' = IF kind[t] = "suppress" /\ t \notin spoiled
                  THEN durable \cup {w \in Of(t, unsaved) : w.session \in flushed}
                  ELSE durable

\* The commit fails in TransactionScope.Dispose, which throws out of Dispose
\* before the manager is told.
CommitFails(s) ==
  LET t == scope[s].tx IN
  /\ attached[t] = {s}
  /\ kind[t] = "required" /\ t \notin spoiled
  /\ attached' = [attached EXCEPT ![t] = {}]
  /\ completed' = completed \cup {s}
  /\ spoiled' = spoiled \cup {t}
  /\ unsaved' = unsaved \ Of(t, unsaved)
  /\ saved' = saved \ Of(t, saved)
  /\ UNCHANGED <<list, kind, durable>>

OnScopeCommitting(s) ==
  /\ voted' = voted \cup {s}
  /\ CommitWaits(s) \/ CommitAll(s) \/ FlushFails(s) \/ CommitFails(s)

\* Variant with a bug: the others may go on and commit.
DetachOnly(s) ==
  LET t == scope[s].tx IN
  /\ completed' = completed \cup {s}
  /\ attached' = [attached EXCEPT ![t] = @ \ {s}]
  /\ UNCHANGED <<list, kind, spoiled, data, voted>>

OnScopeRollingBack(s) ==
  /\ DisposeTransaction(scope[s].tx, {s})
  /\ UNCHANGED <<durable, voted>>

(***************************************************************************)
(* UnitOfWorkScope                                                         *)
(***************************************************************************)

Commit ==
  /\ open # <<>> /\ Head(open) \notin completed
  /\ OnScopeCommitting(Head(open))
  /\ UNCHANGED <<autoComplete, open, scope>>

\* The end of a block, which an exception may have ended.
Dispose ==
  /\ open # <<>>
  /\ open' = Tail(open)
  /\ UNCHANGED <<autoComplete, scope>>
  /\ \/ Head(open) \in completed /\ UNCHANGED <<completed, voted, transactionVars, data>>
     \/ Head(open) \notin completed /\ autoComplete /\ OnScopeCommitting(Head(open))
     \/ Head(open) \notin completed /\ ~autoComplete /\ OnScopeRollingBack(Head(open))

Next ==
  \/ Enlist \/ Commit \/ Dispose
  \/ \E session \in Sessions :
       Change(session) \/ SaveChanges(session)

Spec == Init /\ [][Next]_vars
=============================================================================
