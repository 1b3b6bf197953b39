-------------------- MODULE CentralAuthenticationService --------------------
(***************************************************************************)
(* CentralAuthenticationServiceImpl.cs: requests of the web tier running   *)
(* concurrently over the shared tickets.  A request that is being served   *)
(* is a record in call; its pc names the next statement that reads or      *)
(* writes something another request can see, so that every interleaving    *)
(* of two requests between such statements is a behaviour.                 *)
(* A call that throws leaves call at Idle; one that throws before it has   *)
(* changed anything (an unknown id, an unregistered service) is no step.   *)
(***************************************************************************)
EXTENDS Tickets

CONSTANTS
  Requests,     \* request threads
  Enabled,      \* registered and enabled services
  SsoEnabled,   \* services with isSsoEnabled()
  ProxyAllowed  \* services with isAllowedToProxy()

ASSUME ServicesAssumption ==
  Enabled \cup SsoEnabled \cup ProxyAllowed \subseteq Services

ASSUME RequestsAssumption == None \notin Requests

VARIABLES
  call,      \* the method each request is executing
  monitor,   \* the holder of lock (serviceTicket)
  \* what callers have been told so far
  returned,  \* service tickets grantServiceTicket returned
  accepted,  \* per service ticket, validations that produced an Assertion
  destroyed  \* TGTs whose destroyTicketGrantingTicket returned normally

told == <<returned, accepted, destroyed>>
casVars == <<ticketVars, call, monitor, told>>

Idle == [pc |-> "idle", tgt |-> None, st |-> None, service |-> None,
         cred |-> None, num |-> 0, keys |-> {}]

GrantedPCs == {"grant_count", "grant_update", "grant_record", "grant_register"}
GrantPCs == {"grant_expiry", "grant_authorize", "grant_construct"} \cup GrantedPCs
ValidatePCs ==
  {"validate_lock", "validate_expiry", "validate_match", "validate_finally"}
DelegatePCs ==
  {"delegate_expiry", "delegate_test", "delegate_set", "delegate_register"}
DestroyPCs == {"destroy_expire", "destroy_logout", "destroy_delete"}
PCs == {"idle"} \cup GrantPCs \cup ValidatePCs \cup DelegatePCs \cup DestroyPCs

Call == [pc : PCs, tgt : TGTs \cup {None}, st : STs \cup {None},
         service : Services \cup {None}, cred : Users \cup {None},
         num : Nat, keys : SUBSET STs]

CasTypeOK ==
  /\ TicketsTypeOK
  /\ call \in [Requests -> Call]
  /\ monitor \in [STs -> Requests \cup {None}]
  /\ returned \subseteq STs
  /\ accepted \in [STs -> Nat]
  /\ destroyed \subseteq TGTs

CasInit ==
  /\ TicketsInit
  /\ call = [r \in Requests |-> Idle]
  /\ monitor = [s \in STs |-> None]
  /\ returned = {}
  /\ accepted = [s \in STs |-> 0]
  /\ destroyed = {}

\* Control flow of one request.
At(r, pc) == call[r].pc = pc
Become(r, c) == call' = [call EXCEPT ![r] = c]
Enter(r, c) == At(r, "idle") /\ Become(r, c)
Goto(r, pc) == Become(r, [call[r] EXCEPT !.pc = pc])
Leave(r) == Become(r, Idle)

\* The generator never runs out of identifiers; the model does.  A client
\* starts a call only when an identifier is left for every call at pcs.
IdLeft(ids, pcs) ==
  Cardinality({r \in Requests : call[r].pc \in pcs}) < Cardinality(ids \ issued)

(***************************************************************************)
(* createTicketGrantingTicket: the new ticket is private to the call until *)
(* it is in the registry, so one step.                                     *)
(***************************************************************************)
CreateTicketGrantingTicket(r) ==
  \E t \in TGTs \ issued, u \in Users :
    /\ At(r, "idle")
    /\ IdLeft(TGTs, DelegatePCs \ {"delegate_register"})
    /\ issued' = issued \cup {t}
    /\ tgt' = [tgt EXCEPT ![t] = NewTicketGrantingTicket(u, {})]
    /\ addTicket(t)
    /\ UNCHANGED <<now, st, notified, call, monitor, told>>

(***************************************************************************)
(* grantServiceTicket                                                      *)
(***************************************************************************)
GrantLookup(r) ==
  \E t \in TGTs \cap registry, service \in Services, cred \in Users \cup {None} :
    /\ IdLeft(STs, {"grant_expiry", "grant_authorize", "grant_construct"})
    /\ Enter(r, [Idle EXCEPT !.pc = "grant_expiry", !.tgt = t,
                             !.service = service, !.cred = cred])
    /\ UNCHANGED <<ticketVars, monitor, told>>

\* lock (ticketGrantingTicket) { ... }: no other code locks a TGT, and two
\* executions of this block commute, so the block is one step.
GrantExpiry(r) ==
  LET t == call[r].tgt IN
  /\ At(r, "grant_expiry")
  /\ \/ /\ TGTExpired(t)
        /\ deleteTicket(t)
        /\ Leave(r)
     \/ /\ ~TGTExpired(t)
        /\ Goto(r, "grant_authorize")
        /\ UNCHANGED registry
  /\ UNCHANGED <<now, issued, tgt, st, notified, monitor, told>>

\* Variant with a bug: the first use is let off.
SsoDeniedLate(c) ==
  c.service \notin SsoEnabled /\ c.cred = None /\ tgt[c.tgt].count > 1

SsoDenied(c) ==
  c.service \notin SsoEnabled /\ c.cred = None /\ tgt[c.tgt].count > 0

\* principal.Equals(...) && attributes.Equals(...): Equals is overridden in
\* neither class (SimplePrincipal has a method equals), and authenticate()
\* builds both objects anew, so two authentications are never the same.
SameAuthentication(cred, t) == FALSE

GrantAuthorized(c) ==
  /\ c.service \in Enabled
  /\ ~SsoDenied(c)
  /\ IsProxy(c.tgt) => c.service \in ProxyAllowed
  /\ c.cred # None => SameAuthentication(c.cred, c.tgt)

GrantAuthorize(r) ==
  /\ At(r, "grant_authorize")
  /\ IF GrantAuthorized(call[r]) THEN Goto(r, "grant_construct") ELSE Leave(r)
  /\ UNCHANGED <<ticketVars, monitor, told>>

\* TicketGrantingTicketImpl.grantServiceTicket: getCountOfUses() == 0 is read
\* for fromNewLogin before updateState() reads the counter again.
\* Variant with a bug: the counter is compared as if it counted this use.
FromNewLoginLate(t, cred) == tgt[t].count <= 1 \/ cred # None

FromNewLogin(t, cred) == tgt[t].count = 0 \/ cred # None

GrantConstruct(r) ==
  LET t == call[r].tgt IN
  \E s \in STs \ issued :
    /\ At(r, "grant_construct")
    /\ issued' = issued \cup {s}
    /\ st' = [st EXCEPT ![s] =
                NewServiceTicket(t, call[r].service, FromNewLogin(t, call[r].cred))]
    /\ Become(r, [call[r] EXCEPT !.pc = "grant_count", !.st = s])
    /\ UNCHANGED <<now, tgt, registry, notified, monitor, told>>

\* updateState() is not synchronized: countOfUses++ is a read and a write.
GrantCount(r) ==
  LET t == call[r].tgt IN
  /\ At(r, "grant_count")
  /\ tgt' = [tgt EXCEPT ![t] = [tgt[t] EXCEPT !.lastUsed = now]]
  /\ Become(r, [call[r] EXCEPT !.pc = "grant_update", !.num = tgt[t].count])
  /\ UNCHANGED <<now, issued, st, registry, notified, monitor, told>>

\* The write, and the first access of services.Add(id, service).
\* Variant with a bug: the use is not counted.
GrantUpdateUncounted(r) ==
  LET t == call[r].tgt IN
  /\ At(r, "grant_update")
  /\ tgt' = [tgt EXCEPT ![t] = [tgt[t] EXCEPT !.count = call[r].num]]
  /\ Become(r, [call[r] EXCEPT !.pc = "grant_record", !.keys = tgt[t].services])
  /\ UNCHANGED <<now, issued, st, registry, notified, monitor, told>>

GrantUpdate(r) ==
  LET t == call[r].tgt IN
  /\ At(r, "grant_update")
  /\ tgt' = [tgt EXCEPT ![t] = [tgt[t] EXCEPT !.count = call[r].num + 1]]
  /\ Become(r, [call[r] EXCEPT !.pc = "grant_record", !.keys = tgt[t].services])
  /\ UNCHANGED <<now, issued, st, registry, notified, monitor, told>>

(***************************************************************************)
(* services is a plain Dictionary, so an Add that overlaps another one is  *)
(* a data race: both can take the same slot, and the later write wins; and *)
(* a slot taken while the other resizes the table can be out of range.     *)
(***************************************************************************)
Recorded(ticket, services) ==
  [ticket EXCEPT !.services = services, !.version = ticket.version + 1]

GrantRecord(r) ==
  LET t == call[r].tgt
      s == call[r].st
      raced == tgt[t].services # call[r].keys
  IN
  /\ At(r, "grant_record")
  /\ \/ /\ tgt' = [tgt EXCEPT ![t] = Recorded(tgt[t], tgt[t].services \cup {s})]
        /\ Goto(r, "grant_register")
     \/ /\ raced
        /\ tgt' = [tgt EXCEPT ![t] = Recorded(tgt[t], call[r].keys \cup {s})]
        /\ Goto(r, "grant_register")
     \/ /\ raced
        /\ Leave(r)
        /\ UNCHANGED tgt
  /\ UNCHANGED <<now, issued, st, registry, notified, monitor, told>>

\* Variant with a bug: the TGT is saved together with the service ticket.
GrantRegisterBoth(r) ==
  LET s == call[r].st IN
  /\ At(r, "grant_register")
  /\ registry' = registry \cup {s, call[r].tgt}
  /\ returned' = returned \cup {s}
  /\ Leave(r)
  /\ UNCHANGED <<now, issued, tgt, st, notified, monitor, accepted, destroyed>>

GrantRegister(r) ==
  LET s == call[r].st IN
  /\ At(r, "grant_register")
  /\ addTicket(s)
  /\ returned' = returned \cup {s}
  /\ Leave(r)
  /\ UNCHANGED <<now, issued, tgt, st, notified, monitor, accepted, destroyed>>

GrantServiceTicket(r) ==
  \/ GrantLookup(r) \/ GrantExpiry(r) \/ GrantAuthorize(r) \/ GrantConstruct(r)
  \/ GrantCount(r) \/ GrantUpdate(r) \/ GrantRecord(r) \/ GrantRegister(r)

(***************************************************************************)
(* validateServiceTicket                                                   *)
(***************************************************************************)
ValidateLookup(r) ==
  \E s \in STs \cap registry, service \in Enabled :
    /\ Enter(r, [Idle EXCEPT !.pc = "validate_lock", !.st = s,
                             !.service = service])
    /\ UNCHANGED <<ticketVars, monitor, told>>

\* Variant with a bug: no lock is taken.
ValidateUnlocked(r) ==
  /\ At(r, "validate_lock")
  /\ Goto(r, "validate_expiry")
  /\ UNCHANGED <<ticketVars, monitor, told>>

ValidateLock(r) ==
  LET s == call[r].st IN
  /\ At(r, "validate_lock")
  /\ monitor[s] = None
  /\ monitor' = [monitor EXCEPT ![s] = r]
  /\ Goto(r, "validate_expiry")
  /\ UNCHANGED <<ticketVars, told>>

Unlock(s) == monitor' = [monitor EXCEPT ![s] = None]

\* Leaving the block by the exception releases the monitor.
\* Variant with a bug: it does not.
ValidateExpiryLocked(r) ==
  LET s == call[r].st IN
  /\ At(r, "validate_expiry")
  /\ Goto(r, IF STExpired(s) THEN "validate_finally" ELSE "validate_match")
  /\ UNCHANGED <<ticketVars, monitor, told>>

ValidateExpiry(r) ==
  LET s == call[r].st IN
  /\ At(r, "validate_expiry")
  /\ \/ STExpired(s) /\ Unlock(s) /\ Goto(r, "validate_finally")
     \/ ~STExpired(s) /\ Goto(r, "validate_match") /\ UNCHANGED monitor
  /\ UNCHANGED <<ticketVars, told>>

\* isValidFor counts the use whether the service matches or not.  Nothing
\* after it can refuse the ticket, so a match decides the Assertion.
ValidateMatch(r) ==
  LET s == call[r].st IN
  /\ At(r, "validate_match")
  /\ st' = [st EXCEPT ![s] = updateState(st[s])]
  /\ accepted' = IF call[r].service = st[s].service
                 THEN [accepted EXCEPT ![s] = @ + 1]
                 ELSE accepted
  /\ Unlock(s)
  /\ Goto(r, "validate_finally")
  /\ UNCHANGED <<now, issued, tgt, registry, notified, returned, destroyed>>

ValidateFinally(r) ==
  LET s == call[r].st IN
  /\ At(r, "validate_finally")
  /\ IF STExpired(s) THEN deleteTicket(s) ELSE UNCHANGED registry
  /\ Leave(r)
  /\ UNCHANGED <<now, issued, tgt, st, notified, monitor, told>>

ValidateServiceTicket(r) ==
  \/ ValidateLookup(r) \/ ValidateLock(r) \/ ValidateExpiry(r)
  \/ ValidateMatch(r) \/ ValidateFinally(r)

(***************************************************************************)
(* delegateTicketGrantingTicket: no lock is taken, neither for the expiry  *)
(* check nor for grantedTicketAlready.                                     *)
(***************************************************************************)
DelegateLookup(r) ==
  \E s \in STs \cap registry, u \in Users :
    /\ IdLeft(TGTs, DelegatePCs \ {"delegate_register"})
    /\ Enter(r, [Idle EXCEPT !.pc = "delegate_expiry", !.st = s, !.cred = u])
    /\ UNCHANGED <<ticketVars, monitor, told>>

DelegateExpiry(r) ==
  LET s == call[r].st IN
  /\ At(r, "delegate_expiry")
  /\ IF ~STExpired(s) /\ st[s].service \in Enabled \cap ProxyAllowed
     THEN Goto(r, "delegate_test")
     ELSE Leave(r)
  /\ UNCHANGED <<ticketVars, monitor, told>>

DelegateTest(r) ==
  /\ At(r, "delegate_test")
  /\ IF st[call[r].st].grantedTicketAlready
     THEN Leave(r)
     ELSE Goto(r, "delegate_set")
  /\ UNCHANGED <<ticketVars, monitor, told>>

DelegateSet(r) ==
  LET s == call[r].st
      parent == st[s].tgt
  IN
  \E t \in TGTs \ issued :
    /\ At(r, "delegate_set")
    /\ issued' = issued \cup {t}
    /\ st' = [st EXCEPT ![s] = [st[s] EXCEPT !.grantedTicketAlready = TRUE]]
    /\ tgt' = [tgt EXCEPT ![t] =
                 NewTicketGrantingTicket(call[r].cred,
                                         {parent} \cup tgt[parent].ancestors)]
    /\ Become(r, [call[r] EXCEPT !.pc = "delegate_register", !.tgt = t])
    /\ UNCHANGED <<now, registry, notified, monitor, told>>

DelegateRegister(r) ==
  /\ At(r, "delegate_register")
  /\ addTicket(call[r].tgt)
  /\ Leave(r)
  /\ UNCHANGED <<now, issued, tgt, st, notified, monitor, told>>

DelegateTicketGrantingTicket(r) ==
  \/ DelegateLookup(r) \/ DelegateExpiry(r) \/ DelegateTest(r)
  \/ DelegateSet(r) \/ DelegateRegister(r)

(***************************************************************************)
(* destroyTicketGrantingTicket.  expire() sets the flag and enumerates the *)
(* services dictionary; each MoveNext throws when the dictionary has       *)
(* changed since the enumeration began, and then the deletion is skipped.  *)
(***************************************************************************)
DestroyLookup(r) ==
  \E t \in TGTs \cap registry :
    /\ Enter(r, [Idle EXCEPT !.pc = "destroy_expire", !.tgt = t])
    /\ UNCHANGED <<ticketVars, monitor, told>>

DestroyExpire(r) ==
  LET t == call[r].tgt IN
  /\ At(r, "destroy_expire")
  /\ tgt' = [tgt EXCEPT ![t] = [tgt[t] EXCEPT !.expired = TRUE]]
  /\ Become(r, [call[r] EXCEPT !.pc = "destroy_logout", !.num = tgt[t].version,
                                !.keys = tgt[t].services])
  /\ UNCHANGED <<now, issued, st, registry, notified, monitor, told>>

\* Variant with a bug: the enumeration goes over a copy.
NeverModified(t, version) == FALSE

Modified(t, version) == tgt[t].version # version

DestroyLogout(r) ==
  LET c == call[r] IN
  /\ At(r, "destroy_logout")
  /\ \/ /\ Modified(c.tgt, c.num)
        /\ Leave(r)
        /\ UNCHANGED notified
     \/ /\ ~Modified(c.tgt, c.num)
        /\ \E s \in c.keys :
             /\ notified' = notified \cup {s}
             /\ Become(r, [c EXCEPT !.keys = @ \ {s}])
     \/ /\ ~Modified(c.tgt, c.num)
        /\ c.keys = {}
        /\ Goto(r, "destroy_delete")
        /\ UNCHANGED notified
  /\ UNCHANGED <<now, issued, tgt, st, registry, monitor, told>>

DestroyDelete(r) ==
  LET t == call[r].tgt IN
  /\ At(r, "destroy_delete")
  /\ deleteTicket(t)
  /\ destroyed' = destroyed \cup {t}
  /\ Leave(r)
  /\ UNCHANGED <<now, issued, tgt, st, notified, monitor, returned, accepted>>

DestroyTicketGrantingTicket(r) ==
  DestroyLookup(r) \/ DestroyExpire(r) \/ DestroyLogout(r) \/ DestroyDelete(r)

\* The steps of a call in progress; starting one is up to the clients.
Proceed(r) ==
  \/ GrantExpiry(r) \/ GrantAuthorize(r) \/ GrantConstruct(r) \/ GrantCount(r)
  \/ GrantUpdate(r) \/ GrantRecord(r) \/ GrantRegister(r)
  \/ ValidateLock(r) \/ ValidateExpiry(r) \/ ValidateMatch(r) \/ ValidateFinally(r)
  \/ DelegateExpiry(r) \/ DelegateTest(r) \/ DelegateSet(r) \/ DelegateRegister(r)
  \/ DestroyExpire(r) \/ DestroyLogout(r) \/ DestroyDelete(r)
=============================================================================
