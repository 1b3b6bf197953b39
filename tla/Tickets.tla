------------------------------ MODULE Tickets ------------------------------
(***************************************************************************)
(* The tickets of NCAS and the registry that holds them:                   *)
(*   ticket/AbstractTicket.cs, TicketGrantingTicketImpl.cs,                *)
(*   ServiceTicketImpl.cs, registry/DefaultTicketRegistry.cs.              *)
(* A ticket object outlives its registry entry (a request keeps its        *)
(* reference), so the objects and the registry are separate variables.     *)
(***************************************************************************)
EXTENDS ExpirationPolicies, FiniteSets

CONSTANTS
  TGTs,              \* identifiers of ticket granting tickets
  STs,               \* identifiers of service tickets
  Services,          \* the services a ticket can be asked for
  Users,             \* the principals that can authenticate
  None,              \* null
  NumberOfUses,      \* MultiTimeUseOrTimeoutExpirationPolicy of service tickets
  STTimeToKill,
  TGTMaxTimeToLive,  \* TicketGrantingTicketExpirationPolicy
  TGTTimeToKill,
  MaxTime            \* bound on the clock

ASSUME TicketsAssumption ==
  /\ NumberOfUses \in Nat \ {0}
  /\ {STTimeToKill, TGTMaxTimeToLive, TGTTimeToKill} \subseteq Nat \ {0}
  /\ MaxTime \in Nat
  /\ TGTs \cap STs = {}
  /\ None \notin TGTs \cup STs \cup Services \cup Users

VARIABLES
  now,       \* the clock every expiration policy reads
  issued,    \* identifiers the UniqueTicketIdGenerator has given out
  tgt,       \* the TicketGrantingTicketImpl objects
  st,        \* the ServiceTicketImpl objects
  registry,  \* keys of DefaultTicketRegistry.cache
  notified   \* service tickets whose service has loggedOutAlready set

ticketVars == <<now, issued, tgt, st, registry, notified>>

Tickets == TGTs \cup STs

TicketGrantingTicket ==
  [user : Users \cup {None},      \* authentication.principal
   ancestors : SUBSET TGTs,       \* getGrantingTicket(), its parent, ...
   created : Nat, lastUsed : Nat, count : Nat,
   expired : BOOLEAN,
   services : SUBSET STs,         \* keys of the services dictionary
   version : Nat]                 \* the dictionary's version, for enumerators

ServiceTicket ==
  [tgt : TGTs \cup {None}, service : Services \cup {None},
   fromNewLogin : BOOLEAN,
   created : Nat, lastUsed : Nat, count : Nat,
   grantedTicketAlready : BOOLEAN]

TicketsTypeOK ==
  /\ now \in Nat
  /\ issued \subseteq Tickets
  /\ tgt \in [TGTs -> TicketGrantingTicket]
  /\ st \in [STs -> ServiceTicket]
  /\ registry \subseteq Tickets
  /\ notified \subseteq STs

\* new TicketGrantingTicketImpl(id, parent, authentication, policy): ancestors
\* is what following getGrantingTicket() from the new ticket yields.
NewTicketGrantingTicket(user, ancestors) ==
  [user |-> user, ancestors |-> ancestors, created |-> now, lastUsed |-> now,
   count |-> 0, expired |-> FALSE, services |-> {}, version |-> 0]

NewServiceTicket(t, service, fromNewLogin) ==
  [tgt |-> t, service |-> service, fromNewLogin |-> fromNewLogin,
   created |-> now, lastUsed |-> now, count |-> 0,
   grantedTicketAlready |-> FALSE]

TicketsInit ==
  /\ now = 0
  /\ issued = {}
  /\ tgt = [t \in TGTs |-> NewTicketGrantingTicket(None, {})]
  /\ st = [s \in STs |-> NewServiceTicket(None, None, FALSE)]
  /\ registry = {}
  /\ notified = {}

(***************************************************************************)
(* AbstractTicket.isExpired(): the ticket's policy, or its granting ticket *)
(* is expired, or isExpiredInternal().  The last is not virtual, so it is  *)
(* always AbstractTicket's own, which returns false:                       *)
(* TicketGrantingTicketImpl declares a method of the same name that reads  *)
(* its expired flag, and nothing calls it.                                 *)
(***************************************************************************)
isExpiredInternal == FALSE

TGTExpiredByPolicy(t) ==
  TicketGrantingTicketPolicy(tgt[t], TGTMaxTimeToLive, TGTTimeToKill, now)

STExpiredByPolicy(s) ==
  MultiTimeUseOrTimeout(st[s], NumberOfUses, STTimeToKill, now)

TGTExpired(t) ==
  \/ \E a \in {t} \cup tgt[t].ancestors : TGTExpiredByPolicy(a)
  \/ isExpiredInternal

STExpired(s) ==
  \/ STExpiredByPolicy(s)
  \/ TGTExpired(st[s].tgt)
  \/ isExpiredInternal

\* A use of a ticket.  (A TGT's is not one step: see GrantCount.)
\* Variant with a bug: the time of the use is recorded, the use is not.
updateTime(ticket) == [ticket EXCEPT !.lastUsed = now]

updateState(ticket) ==
  [ticket EXCEPT !.lastUsed = now, !.count = ticket.count + 1]

isExpired(x) == IF x \in TGTs THEN TGTExpired(x) ELSE STExpired(x)

\* getChainedAuthentications().Count > 1
IsProxy(t) == tgt[t].ancestors # {}

\* A new entry in the registry, and the removal of one.  Identifiers are never
\* reused, so ConcurrentDictionary.Add never meets a duplicate key.
addTicket(x) == registry' = registry \cup {x}
deleteTicket(x) == registry' = registry \ {x}

\* Time passes; MaxTime bounds the model.
Tick ==
  /\ now < MaxTime
  /\ now' = now + 1
  /\ UNCHANGED <<issued, tgt, st, registry, notified>>
=============================================================================
