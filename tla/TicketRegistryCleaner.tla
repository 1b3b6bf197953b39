------------------------ MODULE TicketRegistryCleaner ------------------------
(***************************************************************************)
(* ticket/registry/support/DefaultTicketRegistryCleaner.cs beside the      *)
(* requests of CentralAuthenticationService: clean() takes a list of the   *)
(* tickets, picks the expired ones, and removes each, a ticket granting    *)
(* ticket after expire().  The lock it acquires is NoOpLockingStrategy's.  *)
(***************************************************************************)
EXTENDS CentralAuthenticationService

VARIABLE cleaner   \* the local variables of clean()

vars == <<casVars, cleaner>>

Resting == [pc |-> "idle", todo |-> {}, tgt |-> None, num |-> 0, keys |-> {}]

CleanerState ==
  [pc : {"idle", "remove", "logout", "delete"}, todo : SUBSET Tickets,
   tgt : TGTs \cup {None}, num : Nat, keys : SUBSET STs]

TypeOK ==
  /\ CasTypeOK
  /\ cleaner \in CleanerState

Init ==
  /\ CasInit
  /\ cleaner = Resting

\* getTickets() copies the registry; every ticket's isExpired() is asked then.
CleanScan ==
  LET ticketsToRemove == {x \in registry : isExpired(x)} IN
  /\ cleaner.pc = "idle"
  /\ ticketsToRemove # {}
  /\ cleaner' = [Resting EXCEPT !.pc = "remove", !.todo = ticketsToRemove]
  /\ UNCHANGED casVars

\* The next ticket of the list, in the order the dictionary happened to give.
CleanServiceTicket ==
  \E s \in cleaner.todo \cap STs :
    /\ cleaner.pc = "remove"
    /\ deleteTicket(s)
    /\ cleaner' = [cleaner EXCEPT !.todo = @ \ {s}]
    /\ UNCHANGED <<now, issued, tgt, st, notified, call, monitor, told>>

CleanExpire ==
  \E t \in cleaner.todo \cap TGTs :
    /\ cleaner.pc = "remove"
    /\ tgt' = [tgt EXCEPT ![t] = [tgt[t] EXCEPT !.expired = TRUE]]
    /\ cleaner' = [pc |-> "logout", todo |-> cleaner.todo \ {t}, tgt |-> t,
                   num |-> tgt[t].version, keys |-> tgt[t].services]
    /\ UNCHANGED <<now, issued, st, registry, notified, call, monitor, told>>

\* An enumerator that throws ends clean(), with the rest of the list undone.
CleanLogout ==
  /\ cleaner.pc = "logout"
  /\ \/ /\ Modified(cleaner.tgt, cleaner.num)
        /\ cleaner' = Resting
        /\ UNCHANGED notified
     \/ /\ ~Modified(cleaner.tgt, cleaner.num)
        /\ \E s \in cleaner.keys :
             /\ notified' = notified \cup {s}
             /\ cleaner' = [cleaner EXCEPT !.keys = @ \ {s}]
     \/ /\ ~Modified(cleaner.tgt, cleaner.num)
        /\ cleaner.keys = {}
        /\ cleaner' = [cleaner EXCEPT !.pc = "delete"]
        /\ UNCHANGED notified
  /\ UNCHANGED <<now, issued, tgt, st, registry, call, monitor, told>>

\* Variant with a bug: the ticket is expired but not deleted.
CleanKeep ==
  /\ cleaner.pc = "delete"
  /\ cleaner' = [Resting EXCEPT !.pc = "remove", !.todo = cleaner.todo]
  /\ UNCHANGED casVars

CleanDelete ==
  /\ cleaner.pc = "delete"
  /\ deleteTicket(cleaner.tgt)
  /\ cleaner' = [Resting EXCEPT !.pc = "remove", !.todo = cleaner.todo]
  /\ UNCHANGED <<now, issued, tgt, st, notified, call, monitor, told>>

CleanDone ==
  /\ cleaner.pc = "remove"
  /\ cleaner.todo = {}
  /\ cleaner' = Resting
  /\ UNCHANGED casVars

Clean ==
  \/ CleanScan \/ CleanServiceTicket \/ CleanExpire
  \/ CleanLogout \/ CleanDelete \/ CleanDone

Next ==
  \/ \E r \in Requests :
       \/ CreateTicketGrantingTicket(r) /\ UNCHANGED cleaner
       \/ GrantServiceTicket(r) /\ UNCHANGED cleaner
       \/ ValidateServiceTicket(r) /\ UNCHANGED cleaner
       \/ DelegateTicketGrantingTicket(r) /\ UNCHANGED cleaner
       \/ DestroyTicketGrantingTicket(r) /\ UNCHANGED cleaner
  \/ Tick /\ UNCHANGED <<call, monitor, told, cleaner>>
  \/ Clean

Spec == Init /\ [][Next]_vars

(***************************************************************************)
(* Fairness.  A thread that has entered a call keeps running, time passes, *)
(* and the scheduler keeps calling clean(); no client has to call anything.*)
(***************************************************************************)
FairSpec ==
  /\ Spec
  /\ \A r \in Requests : WF_vars(Proceed(r) /\ UNCHANGED cleaner)
  /\ WF_vars(Tick /\ UNCHANGED <<call, monitor, told, cleaner>>)
  /\ WF_vars(Clean)
=============================================================================
