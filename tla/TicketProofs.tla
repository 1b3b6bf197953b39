---------------------------- MODULE TicketProofs ----------------------------
(***************************************************************************)
(* Proofs about the ticket core, for every set of requests, tickets and    *)
(* services, every configuration of the services and of the policies.      *)
(***************************************************************************)
EXTENDS TicketProperties, TLAPS

USE TicketsAssumption, ServicesAssumption, RequestsAssumption

\* A request that serves nothing is a call record with nothing in it.
LEMMA IdleCall == Idle \in Call /\ Idle.pc = "idle" /\ Idle.tgt = None /\ Idle.st = None
  BY DEF Idle, Call, PCs

\* The constructor of TicketGrantingTicketImpl makes a ticket granting ticket.
LEMMA NewTGTType ==
  ASSUME now \in Nat, NEW u \in Users \cup {None}, NEW a \in SUBSET TGTs
  PROVE  NewTicketGrantingTicket(u, a) \in TicketGrantingTicket
  BY DEF NewTicketGrantingTicket, TicketGrantingTicket

\* The constructor of ServiceTicketImpl makes a service ticket.
LEMMA NewSTType ==
  ASSUME now \in Nat, NEW t \in TGTs \cup {None}, NEW service \in Services \cup {None},
         NEW b \in BOOLEAN
  PROVE  NewServiceTicket(t, service, b) \in ServiceTicket
  BY DEF NewServiceTicket, ServiceTicket

\* AbstractTicket.updateState counts one use and keeps the granting ticket.
LEMMA UpdateFacts ==
  ASSUME now \in Nat, NEW ticket \in ServiceTicket
  PROVE  /\ updateState(ticket) \in ServiceTicket
         /\ updateState(ticket).tgt = ticket.tgt
         /\ updateState(ticket).count = ticket.count + 1
<1>1. ticket.count + 1 \in Nat
  BY DEF ServiceTicket
<1>2. \A m, n \in Nat :
        LET used == [ticket EXCEPT !.lastUsed = m, !.count = n] IN
        used \in ServiceTicket /\ used.tgt = ticket.tgt /\ used.count = n
  BY DEF ServiceTicket
<1> QED
  BY <1>1, <1>2 DEF updateState

\* What the records a step writes are made of.
LEMMA CallRecords ==
  ASSUME NEW c \in Call, NEW pc \in PCs
  PROVE  /\ [c EXCEPT !.pc = pc] \in Call
         /\ \A s \in STs : [c EXCEPT !.pc = pc, !.st = s] \in Call
         /\ \A t \in TGTs : [c EXCEPT !.pc = pc, !.tgt = t] \in Call
         /\ \A n \in Nat : [c EXCEPT !.pc = pc, !.num = n] \in Call
         /\ \A k \in SUBSET STs : [c EXCEPT !.keys = k] \in Call
         /\ \A k \in SUBSET STs : [c EXCEPT !.pc = pc, !.keys = k] \in Call
         /\ \A n \in Nat, k \in SUBSET STs :
              [c EXCEPT !.pc = pc, !.num = n, !.keys = k] \in Call
  BY DEF Call

\* Every place in a method is one.
LEMMA PCsAreNamed ==
  {"grant_count", "grant_update", "grant_record", "grant_register", "validate_expiry",
   "validate_match", "validate_finally", "delegate_test", "delegate_set",
   "delegate_register", "destroy_logout", "destroy_delete"} \subseteq PCs
  BY DEF PCs, GrantPCs, GrantedPCs, ValidatePCs, DelegatePCs, DestroyPCs

\* A step of a request's control changes that request only.
LEMMA BecomeFacts ==
  ASSUME call \in [Requests -> Call], NEW r \in Requests, NEW c \in Call, Become(r, c)
  PROVE  /\ call' \in [Requests -> Call]
         /\ call'[r] = c
         /\ \A q \in Requests \ {r} : call'[q] = call[q]
  BY DEF Become

\* A step of r leaves the other requests as they were when it disturbs
\* nothing they rely on.
LEMMA OthersOK ==
  ASSUME TypeOK, TicketsOK, NEW r \in Requests,
         \A q \in Requests : RequestOK(q),
         \A q \in Requests \ {r} : call'[q] = call[q],
         issued \subseteq issued', returned \subseteq returned',
         \A s \in STs \cap issued : st'[s].tgt = st[s].tgt,
         \A s \in STs \cap issued : monitor[s] \in Requests \ {r} =>
             monitor'[s] = monitor[s] /\ st'[s].count = st[s].count,
         \A t \in TGTs \cap issued : tgt[t].count > 0 => tgt'[t].count > 0,
         RequestOK(r)'
  PROVE  \A q \in Requests : RequestOK(q)'
<1> SUFFICES ASSUME NEW q \in Requests \ {r} PROVE RequestOK(q)'
  OBVIOUS
<1>1. RequestOK(q) /\ call'[q] = call[q] /\ call[q] \in Call
  BY DEF TypeOK, CasTypeOK
<1>2. call[q].tgt \in TGTs \cap issued \/ call[q].tgt = None
  BY <1>1 DEF RequestOK, Call
<1>3. call[q].st \in STs \cap issued \/ call[q].st = None
  BY <1>1 DEF RequestOK, Call
<1>4. None \notin TGTs \cup STs
  OBVIOUS
<1> DEFINE c == call[q]
<1>5. /\ c.pc \in GrantPCs \cup DestroyPCs \cup {"delegate_register"} => c.tgt \in TGTs
      /\ c.pc \in GrantedPCs \cup ValidatePCs \cup DelegatePCs => c.st \in STs
      /\ {c.tgt, c.st} \subseteq issued' \cup {None}
      /\ c.pc \in ValidatePCs \cup DelegatePCs => c.st \in returned'
  BY <1>1 DEF RequestOK
<1>6. c.pc \in {"validate_expiry", "validate_match"} =>
        c.st \in STs \cap issued /\ monitor[c.st] = q
  BY <1>1, <1>3, <1>4 DEF RequestOK, ValidatePCs
<1>7. /\ c.pc \in {"validate_expiry", "validate_match"} => monitor'[c.st] = q
      /\ c.pc = "validate_match" => st'[c.st].count < NumberOfUses
  BY <1>1, <1>6 DEF RequestOK
<1>8. c.pc \in GrantedPCs => st'[c.st].tgt = c.tgt
  BY <1>1, <1>3, <1>4 DEF RequestOK
<1>9. c.pc \in {"grant_record", "grant_register"} => tgt'[c.tgt].count > 0
  BY <1>1, <1>2, <1>4 DEF RequestOK, GrantPCs, GrantedPCs
<1> QED
  BY <1>1, <1>5, <1>7, <1>8, <1>9 DEF RequestOK

\* The invariant holds when the server starts.
LEMMA InitInv == Init => IInv
<1> SUFFICES ASSUME Init PROVE IInv
  OBVIOUS
<1> USE DEF Init, CasInit, TicketsInit
<1>1. TypeOK
  BY IdleCall, NewTGTType, NewSTType
     DEF TypeOK, CasTypeOK, TicketsTypeOK, Resting, CleanerState
<1>2. \A r \in Requests : RequestOK(r)
  BY IdleCall DEF RequestOK, GrantPCs, GrantedPCs, ValidatePCs, DelegatePCs, DestroyPCs
<1>3. TicketsOK
  BY DEF TicketsOK, NewServiceTicket
<1>4. CleanerOK
  BY DEF CleanerOK, Resting
<1> QED
  BY <1>1, <1>2, <1>3, <1>4 DEF IInv

\* A step that makes no ticket and changes none.
LEMMA ControlStep ==
  ASSUME IInv, NEW r \in Requests, NEW c \in Call, Become(r, c), RequestOK(r)',
         registry' \subseteq registry, notified' \subseteq STs, destroyed' \subseteq TGTs,
         monitor' \in [STs -> Requests \cup {None}],
         \A s \in STs : monitor[s] \in Requests \ {r} => monitor'[s] = monitor[s],
         UNCHANGED <<now, issued, tgt, st, returned, accepted, cleaner>>
  PROVE  IInv'
<1>1. /\ call' \in [Requests -> Call]
      /\ \A q \in Requests \ {r} : call'[q] = call[q]
  BY BecomeFacts DEF IInv, TypeOK, CasTypeOK
<1>2. TypeOK'
  BY <1>1 DEF IInv, TypeOK, CasTypeOK, TicketsTypeOK
<1>3. \A q \in Requests : RequestOK(q)'
  BY <1>1, OthersOK DEF IInv
<1>4. TicketsOK'
  BY DEF IInv, TicketsOK
<1>5. CleanerOK'
  BY DEF IInv, CleanerOK
<1> QED
  BY <1>2, <1>3, <1>4, <1>5 DEF IInv

\* A step that replaces one TGT's object, counting no use less.
LEMMA ReplaceTGT ==
  ASSUME IInv, NEW r \in Requests, NEW c \in Call, Become(r, c), RequestOK(r)',
         NEW t \in TGTs, NEW ticket \in TicketGrantingTicket,
         tgt' = [tgt EXCEPT ![t] = ticket],
         tgt[t].count > 0 => ticket.count > 0,
         UNCHANGED <<now, issued, st, registry, notified, monitor, told, cleaner>>
  PROVE  IInv'
<1>1. /\ call' \in [Requests -> Call]
      /\ \A q \in Requests \ {r} : call'[q] = call[q]
  BY BecomeFacts DEF IInv, TypeOK, CasTypeOK
<1>2. TypeOK'
  BY <1>1 DEF IInv, TypeOK, CasTypeOK, TicketsTypeOK, told
<1>3. \A u \in TGTs : tgt[u].count > 0 => tgt'[u].count > 0
  BY DEF IInv, TypeOK, CasTypeOK, TicketsTypeOK
<1>4. \A q \in Requests : RequestOK(q)'
  BY <1>1, <1>3, OthersOK DEF IInv, told
<1>5. TicketsOK'
  BY <1>3 DEF IInv, TicketsOK, told
<1>6. CleanerOK'
  BY DEF IInv, CleanerOK
<1> QED
  BY <1>2, <1>4, <1>5, <1>6 DEF IInv

\* A request that has left its call relies on nothing.
LEMMA IdleOK == ASSUME NEW r \in Requests, call'[r] = Idle PROVE RequestOK(r)'
  BY IdleCall
     DEF RequestOK, GrantPCs, GrantedPCs, ValidatePCs, DelegatePCs, DestroyPCs

(***************************************************************************)
(* grantServiceTicket                                                      *)
(***************************************************************************)

\* grantServiceTicket: the ticket read from the registry exists.
LEMMA GrantLookupInv ==
  ASSUME IInv, NEW r \in Requests, GrantLookup(r), UNCHANGED cleaner
  PROVE  IInv'
<1>1. PICK t \in TGTs \cap registry, service \in Services, cred \in Users \cup {None} :
        Enter(r, [Idle EXCEPT !.pc = "grant_expiry", !.tgt = t,
                              !.service = service, !.cred = cred])
  BY DEF GrantLookup
<1> DEFINE c == [Idle EXCEPT !.pc = "grant_expiry", !.tgt = t,
                             !.service = service, !.cred = cred]
<1>2. c \in Call /\ c.pc = "grant_expiry" /\ c.tgt = t /\ c.st = None
  BY IdleCall DEF Idle, Call, PCs, GrantPCs
<1>3. UNCHANGED <<ticketVars, monitor, told>>
  BY DEF GrantLookup
<1>4. Become(r, c) /\ call'[r] = c
  BY <1>1, <1>2, BecomeFacts DEF Enter, IInv, TypeOK, CasTypeOK
<1>5. RequestOK(r)'
  BY <1>2, <1>3, <1>4
     DEF RequestOK, IInv, TicketsOK, ticketVars, GrantPCs, GrantedPCs, ValidatePCs,
         DelegatePCs, DestroyPCs
<1> QED
  BY <1>2, <1>3, <1>4, <1>5, ControlStep
     DEF ticketVars, told, IInv, TypeOK, CasTypeOK, TicketsTypeOK

\* grantServiceTicket: the expiry check under the TGT's lock.
LEMMA GrantExpiryInv ==
  ASSUME IInv, NEW r \in Requests, GrantExpiry(r), UNCHANGED cleaner
  PROVE  IInv'
<1> DEFINE c == [call[r] EXCEPT !.pc = "grant_authorize"]
<1>1. call[r] \in Call /\ call[r].pc = "grant_expiry" /\ RequestOK(r)
  BY DEF GrantExpiry, At, IInv, TypeOK, CasTypeOK
<1>2. c \in Call
  BY <1>1, CallRecords DEF PCs, GrantPCs
<1>3. registry' \subseteq registry
  BY DEF GrantExpiry, deleteTicket
<1>4. PICK d \in {Idle, c} : Become(r, d)
  BY DEF GrantExpiry, Leave, Goto
<1>5. d \in Call /\ call'[r] = d
  BY <1>2, <1>4, IdleCall, BecomeFacts DEF IInv, TypeOK, CasTypeOK
<1>6. CASE d = Idle
  BY <1>3, <1>4, <1>5, <1>6, IdleOK, ControlStep
     DEF GrantExpiry, told, IInv, TypeOK, CasTypeOK, TicketsTypeOK
<1>7. CASE d = c
  <2>1. RequestOK(r)'
    BY <1>1, <1>5, <1>7
       DEF GrantExpiry, RequestOK, Call, GrantPCs, GrantedPCs, ValidatePCs,
           DelegatePCs, DestroyPCs
  <2> QED
    BY <1>3, <1>4, <1>5, <2>1, ControlStep
       DEF GrantExpiry, told, IInv, TypeOK, CasTypeOK, TicketsTypeOK
<1> QED
  BY <1>4, <1>6, <1>7

\* grantServiceTicket: the service, SSO, proxy and credential checks.
LEMMA GrantAuthorizeInv ==
  ASSUME IInv, NEW r \in Requests, GrantAuthorize(r), UNCHANGED cleaner
  PROVE  IInv'
<1> DEFINE c == [call[r] EXCEPT !.pc = "grant_construct"]
<1>1. call[r] \in Call /\ call[r].pc = "grant_authorize" /\ RequestOK(r)
  BY DEF GrantAuthorize, At, IInv, TypeOK, CasTypeOK
<1>2. c \in Call
  BY <1>1, CallRecords DEF PCs, GrantPCs
<1>3. UNCHANGED <<ticketVars, monitor, told>>
  BY DEF GrantAuthorize
<1>4. PICK d \in {Idle, c} : Become(r, d)
  BY DEF GrantAuthorize, Leave, Goto
<1>5. d \in Call /\ call'[r] = d
  BY <1>2, <1>4, IdleCall, BecomeFacts DEF IInv, TypeOK, CasTypeOK
<1>6. CASE d = Idle
  BY <1>3, <1>4, <1>5, <1>6, IdleOK, ControlStep
     DEF ticketVars, told, IInv, TypeOK, CasTypeOK, TicketsTypeOK
<1>7. CASE d = c
  <2>1. RequestOK(r)'
    BY <1>1, <1>3, <1>5, <1>7
       DEF RequestOK, Call, ticketVars, GrantPCs, GrantedPCs, ValidatePCs,
           DelegatePCs, DestroyPCs
  <2> QED
    BY <1>3, <1>4, <1>5, <2>1, ControlStep
       DEF ticketVars, told, IInv, TypeOK, CasTypeOK, TicketsTypeOK
<1> QED
  BY <1>4, <1>6, <1>7

\* The identifier is fresh, so no request and no caller has the old object.
LEMMA GrantConstructInv ==
  ASSUME IInv, NEW r \in Requests, GrantConstruct(r), UNCHANGED cleaner
  PROVE  IInv'
<1> DEFINE t == call[r].tgt
           new == NewServiceTicket(t, call[r].service,
                                   FromNewLogin(t, call[r].cred))
<1>1. PICK s \in STs \ issued :
        /\ issued' = issued \cup {s}
        /\ st' = [st EXCEPT ![s] = new]
        /\ Become(r, [call[r] EXCEPT !.pc = "grant_count", !.st = s])
  BY DEF GrantConstruct
<1> DEFINE c == [call[r] EXCEPT !.pc = "grant_count", !.st = s]
<1>2. UNCHANGED <<now, tgt, registry, notified, monitor, told, cleaner>>
  BY DEF GrantConstruct
<1>3. call[r] \in Call /\ call[r].pc = "grant_construct" /\ RequestOK(r)
  BY DEF GrantConstruct, At, IInv, TypeOK, CasTypeOK
<1>4. t \in TGTs \cap issued
  BY <1>3 DEF RequestOK, GrantPCs
<1>5. c \in Call /\ c.pc = "grant_count" /\ c.st = s /\ c.tgt = t
  BY <1>3, CallRecords, PCsAreNamed DEF Call
<1>6. /\ call' \in [Requests -> Call] /\ call'[r] = c
      /\ \A q \in Requests \ {r} : call'[q] = call[q]
  BY <1>1, <1>5, BecomeFacts DEF IInv, TypeOK, CasTypeOK
<1>7. new \in ServiceTicket /\ new.tgt = t /\ new.count = 0
  <2>1. new \in ServiceTicket
    BY <1>3, <1>4, NewSTType
       DEF Call, IInv, TypeOK, CasTypeOK, TicketsTypeOK, FromNewLogin
  <2> QED
    BY <2>1 DEF NewServiceTicket
<1>8. /\ st'[s] = new
      /\ \A o \in STs \ {s} : st'[o] = st[o]
      /\ st' \in [STs -> ServiceTicket]
  BY <1>1, <1>7 DEF IInv, TypeOK, CasTypeOK, TicketsTypeOK
<1>9. TypeOK'
  BY <1>1, <1>2, <1>6, <1>8
     DEF IInv, TypeOK, CasTypeOK, TicketsTypeOK, told, Tickets
<1>10. RequestOK(r)'
  BY <1>1, <1>4, <1>5, <1>6, <1>7, <1>8
     DEF RequestOK, GrantPCs, GrantedPCs, ValidatePCs, DelegatePCs, DestroyPCs
<1>11. \A q \in Requests : RequestOK(q)'
  BY <1>1, <1>2, <1>6, <1>8, <1>10, OthersOK DEF IInv, told
<1>12. TicketsOK'
  <2>1. s \notin returned /\ s \notin registry /\ accepted[s] = 0
    BY DEF IInv, TicketsOK, TypeOK, CasTypeOK, TicketsTypeOK, ServiceTicket
  <2>2. \A o \in STs \cap issued' : st'[o].tgt \in TGTs \cap issued'
    BY <1>1, <1>4, <1>7, <1>8 DEF IInv, TicketsOK
  <2>3. \A o \in STs \ issued' : st'[o].count = 0
    BY <1>1, <1>8 DEF IInv, TicketsOK
  <2>4. \A o \in STs : accepted[o] <= st'[o].count /\ st'[o].count <= NumberOfUses
    BY <1>7, <1>8, <2>1 DEF IInv, TicketsOK
  <2>5. \A o \in returned : tgt[st'[o].tgt].count > 0
    BY <1>8, <2>1 DEF IInv, TicketsOK, TypeOK, CasTypeOK
  <2> QED
    BY <1>1, <1>2, <2>2, <2>3, <2>4, <2>5 DEF IInv, TicketsOK, told
<1> QED
  BY <1>2, <1>9, <1>11, <1>12 DEF IInv, CleanerOK

\* TicketGrantingTicketImpl.grantServiceTicket: the counter is read.
LEMMA GrantCountInv ==
  ASSUME IInv, NEW r \in Requests, GrantCount(r), UNCHANGED cleaner
  PROVE  IInv'
<1> DEFINE t == call[r].tgt
           c == [call[r] EXCEPT !.pc = "grant_update", !.num = tgt[t].count]
           ticket == [tgt[t] EXCEPT !.lastUsed = now]
<1>1. call[r] \in Call /\ call[r].pc = "grant_count" /\ RequestOK(r)
  BY DEF GrantCount, At, IInv, TypeOK, CasTypeOK
<1>2. t \in TGTs
  BY <1>1 DEF RequestOK, GrantPCs, GrantedPCs
<1>3. ticket \in TicketGrantingTicket /\ ticket.count = tgt[t].count /\ tgt[t].count \in Nat
  BY <1>2 DEF IInv, TypeOK, CasTypeOK, TicketsTypeOK, TicketGrantingTicket
<1>4. c \in Call
  BY <1>1, <1>3, CallRecords DEF PCs, GrantPCs, GrantedPCs
<1>5. Become(r, c) /\ tgt' = [tgt EXCEPT ![t] = ticket]
  BY DEF GrantCount
<1>6. call'[r] = c
  BY <1>4, <1>5, BecomeFacts DEF IInv, TypeOK, CasTypeOK
<1>7. RequestOK(r)'
  BY <1>1, <1>6
     DEF GrantCount, RequestOK, Call, told, GrantPCs, GrantedPCs, ValidatePCs,
         DelegatePCs, DestroyPCs
<1> QED
  BY <1>2, <1>3, <1>4, <1>5, <1>7, ReplaceTGT DEF GrantCount

\* The counter is written with one more than a value it once had.
LEMMA GrantUpdateInv ==
  ASSUME IInv, NEW r \in Requests, GrantUpdate(r), UNCHANGED cleaner
  PROVE  IInv'
<1> DEFINE t == call[r].tgt
           c == [call[r] EXCEPT !.pc = "grant_record", !.keys = tgt[t].services]
           ticket == [tgt[t] EXCEPT !.count = call[r].num + 1]
<1>1. call[r] \in Call /\ call[r].pc = "grant_update" /\ RequestOK(r)
  BY DEF GrantUpdate, At, IInv, TypeOK, CasTypeOK
<1>2. t \in TGTs
  BY <1>1 DEF RequestOK, GrantPCs, GrantedPCs
<1>3. call[r].num \in Nat
  BY <1>1 DEF Call
<1>4. ticket \in TicketGrantingTicket /\ ticket.count > 0 /\ tgt[t].services \subseteq STs
  BY <1>2, <1>3 DEF IInv, TypeOK, CasTypeOK, TicketsTypeOK, TicketGrantingTicket
<1>5. c \in Call
  BY <1>1, <1>4, CallRecords DEF PCs, GrantPCs, GrantedPCs
<1>6. Become(r, c) /\ tgt' = [tgt EXCEPT ![t] = ticket]
  BY DEF GrantUpdate
<1>7. /\ call'[r].pc = "grant_record" /\ call'[r].st = call[r].st
      /\ call'[r].tgt = t /\ tgt'[t].count > 0
  <2>1. call'[r] = c
    BY <1>5, <1>6, BecomeFacts DEF IInv, TypeOK, CasTypeOK
  <2>2. c.pc = "grant_record" /\ c.st = call[r].st /\ c.tgt = t
    BY <1>1 DEF Call
  <2>3. tgt'[t] = ticket
    BY <1>2, <1>6 DEF IInv, TypeOK, CasTypeOK, TicketsTypeOK
  <2> QED
    BY <1>4, <2>1, <2>2, <2>3
<1>8. RequestOK(r)'
  BY <1>1, <1>7
     DEF GrantUpdate, RequestOK, told, GrantPCs, GrantedPCs, ValidatePCs,
         DelegatePCs, DestroyPCs
<1> QED
  BY <1>2, <1>4, <1>5, <1>6, <1>8, ReplaceTGT DEF GrantUpdate

\* services.Add keeps the ticket's counter.
LEMMA RecordedFacts ==
  ASSUME NEW ticket \in TicketGrantingTicket, NEW k \in SUBSET STs
  PROVE  /\ Recorded(ticket, k) \in TicketGrantingTicket
         /\ Recorded(ticket, k).count = ticket.count
<1>1. ticket.version + 1 \in Nat
  BY DEF TicketGrantingTicket
<1>2. \A n \in Nat : [ticket EXCEPT !.services = k, !.version = n] \in TicketGrantingTicket
  BY DEF TicketGrantingTicket
<1>3. \A n \in Nat : [ticket EXCEPT !.services = k, !.version = n].count = ticket.count
  BY DEF TicketGrantingTicket
<1> QED
  BY <1>1, <1>2, <1>3 DEF Recorded

\* services.Add, racing or not, keeps the invariant.
LEMMA GrantRecordInv ==
  ASSUME IInv, NEW r \in Requests, GrantRecord(r), UNCHANGED cleaner
  PROVE  IInv'
<1> DEFINE t == call[r].tgt
           s == call[r].st
           c == [call[r] EXCEPT !.pc = "grant_register"]
<1>1. call[r] \in Call /\ call[r].pc = "grant_record" /\ RequestOK(r)
  BY DEF GrantRecord, At, IInv, TypeOK, CasTypeOK
<1>2. t \in TGTs /\ s \in STs /\ call[r].keys \subseteq STs
  BY <1>1 DEF RequestOK, GrantPCs, GrantedPCs, Call
<1>3. c \in Call /\ c.pc = "grant_register" /\ c.st = s /\ c.tgt = t
  BY <1>1, CallRecords, PCsAreNamed DEF Call
<1>4. UNCHANGED <<now, issued, st, registry, notified, monitor, told>>
  BY DEF GrantRecord
<1>5. CASE Leave(r) /\ UNCHANGED tgt
  <2>1. Become(r, Idle) /\ call'[r] = Idle
    BY <1>5, IdleCall, BecomeFacts DEF Leave, IInv, TypeOK, CasTypeOK
  <2> QED
    BY <1>4, <1>5, <2>1, IdleCall, IdleOK, ControlStep
       DEF told, IInv, TypeOK, CasTypeOK, TicketsTypeOK
<1>6. ASSUME NEW k \in SUBSET STs, Goto(r, "grant_register"),
             tgt' = [tgt EXCEPT ![t] = Recorded(tgt[t], k)]
      PROVE  IInv'
  <2> DEFINE ticket == Recorded(tgt[t], k)
  <2>1. ticket \in TicketGrantingTicket /\ ticket.count = tgt[t].count
    <3>1. tgt[t] \in TicketGrantingTicket
      BY <1>2 DEF IInv, TypeOK, CasTypeOK, TicketsTypeOK
    <3> QED
      BY <3>1, RecordedFacts
  <2>2. Become(r, c) /\ call'[r] = c
    BY <1>3, <1>6, BecomeFacts DEF Goto, IInv, TypeOK, CasTypeOK
  <2>3. tgt'[t] = ticket
    BY <1>2, <1>6 DEF IInv, TypeOK, CasTypeOK, TicketsTypeOK
  <2>4. tgt[t].count > 0 /\ {t, s} \subseteq issued \cup {None} /\ st[s].tgt = t
    BY <1>1 DEF RequestOK, GrantedPCs
  <2>5. /\ call'[r].pc = "grant_register" /\ call'[r].st = s /\ call'[r].tgt = t
        /\ tgt'[t].count > 0
    BY <1>3, <2>1, <2>2, <2>3, <2>4
  <2>6. RequestOK(r)'
    BY <1>2, <1>4, <2>4, <2>5
       DEF RequestOK, told, GrantPCs, GrantedPCs, ValidatePCs, DelegatePCs, DestroyPCs
  <2> QED
    BY <1>2, <1>3, <1>4, <1>6, <2>1, <2>2, <2>6, ReplaceTGT
<1>7. tgt[t].services \cup {s} \in SUBSET STs /\ call[r].keys \cup {s} \in SUBSET STs
  BY <1>2 DEF IInv, TypeOK, CasTypeOK, TicketsTypeOK, TicketGrantingTicket
<1> QED
  BY <1>5, <1>6, <1>7 DEF GrantRecord

\* The identifier reaches the caller with the ticket in the registry, and by
\* then its use of the TGT has been counted.
LEMMA GrantRegisterInv ==
  ASSUME IInv, NEW r \in Requests, GrantRegister(r), UNCHANGED cleaner
  PROVE  IInv'
<1> DEFINE s == call[r].st
<1>1. call[r] \in Call /\ call[r].pc = "grant_register" /\ RequestOK(r)
  BY DEF GrantRegister, At, IInv, TypeOK, CasTypeOK
<1>2. /\ s \in STs \cap issued /\ st[s].tgt = call[r].tgt
      /\ tgt[call[r].tgt].count > 0
  BY <1>1 DEF RequestOK, GrantPCs, GrantedPCs
<1>3. /\ registry' = registry \cup {s} /\ returned' = returned \cup {s}
      /\ Become(r, Idle)
      /\ UNCHANGED <<now, issued, tgt, st, notified, monitor, accepted, destroyed>>
  BY DEF GrantRegister, addTicket, Leave
<1>4. /\ call' \in [Requests -> Call] /\ call'[r] = Idle
      /\ \A q \in Requests \ {r} : call'[q] = call[q]
  BY <1>3, IdleCall, BecomeFacts DEF IInv, TypeOK, CasTypeOK
<1>5. TypeOK'
  BY <1>2, <1>3, <1>4 DEF IInv, TypeOK, CasTypeOK, TicketsTypeOK, Tickets
<1>6. \A q \in Requests : RequestOK(q)'
  BY <1>3, <1>4, IdleOK, OthersOK DEF IInv
<1>7. TicketsOK'
  BY <1>2, <1>3 DEF IInv, TicketsOK
<1> QED
  BY <1>5, <1>6, <1>7 DEF IInv, CleanerOK

(***************************************************************************)
(* validateServiceTicket                                                   *)
(***************************************************************************)

\* validateServiceTicket: a registered service ticket was returned before.
LEMMA ValidateLookupInv ==
  ASSUME IInv, NEW r \in Requests, ValidateLookup(r), UNCHANGED cleaner
  PROVE  IInv'
<1>1. PICK s \in STs \cap registry, service \in Enabled :
        Enter(r, [Idle EXCEPT !.pc = "validate_lock", !.st = s, !.service = service])
  BY DEF ValidateLookup
<1> DEFINE c == [Idle EXCEPT !.pc = "validate_lock", !.st = s, !.service = service]
<1>2. c \in Call /\ c.pc = "validate_lock" /\ c.st = s /\ c.tgt = None
  BY DEF Idle, Call, PCs, ValidatePCs
<1>3. UNCHANGED <<ticketVars, monitor, told>>
  BY DEF ValidateLookup
<1>4. Become(r, c) /\ call'[r] = c
  BY <1>1, <1>2, BecomeFacts DEF Enter, IInv, TypeOK, CasTypeOK
<1>5. s \in returned /\ s \in issued
  BY DEF IInv, TicketsOK
<1>6. RequestOK(r)'
  BY <1>2, <1>3, <1>4, <1>5
     DEF RequestOK, ticketVars, told, GrantPCs, GrantedPCs, ValidatePCs,
         DelegatePCs, DestroyPCs
<1> QED
  BY <1>2, <1>3, <1>4, <1>6, ControlStep
     DEF ticketVars, told, IInv, TypeOK, CasTypeOK, TicketsTypeOK

\* validateServiceTicket: entering lock (serviceTicket).
LEMMA ValidateLockInv ==
  ASSUME IInv, NEW r \in Requests, ValidateLock(r), UNCHANGED cleaner
  PROVE  IInv'
<1> DEFINE s == call[r].st
           c == [call[r] EXCEPT !.pc = "validate_expiry"]
<1>1. call[r] \in Call /\ call[r].pc = "validate_lock" /\ RequestOK(r)
  BY DEF ValidateLock, At, IInv, TypeOK, CasTypeOK
<1>2. s \in STs /\ s \in issued /\ s \in returned
      /\ call[r].tgt \in issued \cup {None}
  BY <1>1 DEF RequestOK, ValidatePCs
<1>3. c \in Call /\ c.pc = "validate_expiry" /\ c.st = s /\ c.tgt = call[r].tgt
  BY <1>1, CallRecords, PCsAreNamed DEF Call
<1>4. /\ monitor[s] = None /\ monitor' = [monitor EXCEPT ![s] = r]
      /\ Become(r, c) /\ UNCHANGED <<ticketVars, told>>
  BY DEF ValidateLock, Goto
<1>5. call'[r] = c
  BY <1>3, <1>4, BecomeFacts DEF IInv, TypeOK, CasTypeOK
<1>6. monitor'[s] = r /\ \A o \in STs \ {s} : monitor'[o] = monitor[o]
  BY <1>2, <1>4 DEF IInv, TypeOK, CasTypeOK
<1>7. RequestOK(r)'
  BY <1>2, <1>3, <1>4, <1>5, <1>6
     DEF RequestOK, ticketVars, told, GrantPCs, GrantedPCs, ValidatePCs,
         DelegatePCs, DestroyPCs
<1> QED
  BY <1>2, <1>3, <1>4, <1>6, <1>7, ControlStep
     DEF ticketVars, told, IInv, TypeOK, CasTypeOK, TicketsTypeOK

\* Passing the check leaves the monitor held with a use still allowed.
LEMMA ValidateExpiryInv ==
  ASSUME IInv, NEW r \in Requests, ValidateExpiry(r), UNCHANGED cleaner
  PROVE  IInv'
<1> DEFINE s == call[r].st
<1>1. call[r] \in Call /\ call[r].pc = "validate_expiry" /\ RequestOK(r)
  BY DEF ValidateExpiry, At, IInv, TypeOK, CasTypeOK
<1>2. /\ s \in STs /\ s \in issued /\ s \in returned /\ monitor[s] = r
      /\ call[r].tgt \in issued \cup {None}
  BY <1>1 DEF RequestOK, ValidatePCs
<1>3. UNCHANGED <<ticketVars, told>>
  BY DEF ValidateExpiry
<1>4. CASE STExpired(s) /\ Unlock(s) /\ Goto(r, "validate_finally")
  <2> DEFINE c == [call[r] EXCEPT !.pc = "validate_finally"]
  <2>1. c \in Call /\ c.pc = "validate_finally" /\ c.st = s /\ c.tgt = call[r].tgt
    BY <1>1, CallRecords, PCsAreNamed DEF Call
  <2>2. Become(r, c) /\ call'[r] = c
    BY <1>4, <2>1, BecomeFacts DEF Goto, IInv, TypeOK, CasTypeOK
  <2>3. /\ monitor' \in [STs -> Requests \cup {None}]
        /\ \A o \in STs \ {s} : monitor'[o] = monitor[o]
    BY <1>4 DEF Unlock, IInv, TypeOK, CasTypeOK
  <2>4. RequestOK(r)'
    BY <1>2, <1>3, <2>1, <2>2
       DEF RequestOK, ticketVars, told, GrantPCs, GrantedPCs, ValidatePCs,
           DelegatePCs, DestroyPCs
  <2> QED
    BY <1>2, <1>3, <2>1, <2>2, <2>3, <2>4, ControlStep
       DEF ticketVars, told, IInv, TypeOK, CasTypeOK, TicketsTypeOK
<1>5. CASE ~STExpired(s) /\ Goto(r, "validate_match") /\ UNCHANGED monitor
  <2> DEFINE c == [call[r] EXCEPT !.pc = "validate_match"]
  <2>1. c \in Call /\ c.pc = "validate_match" /\ c.st = s /\ c.tgt = call[r].tgt
    BY <1>1, CallRecords, PCsAreNamed DEF Call
  <2>2. Become(r, c) /\ call'[r] = c
    BY <1>5, <2>1, BecomeFacts DEF Goto, IInv, TypeOK, CasTypeOK
  <2>3. st[s].count \in Nat
    BY <1>2 DEF IInv, TypeOK, CasTypeOK, TicketsTypeOK, ServiceTicket
  <2>4. st[s].count < NumberOfUses
    BY <1>5, <2>3 DEF STExpired, STExpiredByPolicy, MultiTimeUseOrTimeout
  <2>5. RequestOK(r)'
    BY <1>2, <1>3, <1>5, <2>1, <2>2, <2>4
       DEF RequestOK, ticketVars, told, GrantPCs, GrantedPCs, ValidatePCs,
           DelegatePCs, DestroyPCs
  <2> QED
    BY <1>3, <1>5, <2>1, <2>2, <2>5, ControlStep
       DEF ticketVars, told, IInv, TypeOK, CasTypeOK, TicketsTypeOK
<1> QED
  BY <1>4, <1>5 DEF ValidateExpiry

\* Nobody else holds this ticket's monitor, so nobody else relies on its count.
LEMMA ValidateMatchInv ==
  ASSUME IInv, NEW r \in Requests, ValidateMatch(r), UNCHANGED cleaner
  PROVE  IInv'
<1> DEFINE s == call[r].st
           c == [call[r] EXCEPT !.pc = "validate_finally"]
           used == updateState(st[s])
<1>1. call[r] \in Call /\ call[r].pc = "validate_match" /\ RequestOK(r)
  BY DEF ValidateMatch, At, IInv, TypeOK, CasTypeOK
<1>2. /\ s \in STs /\ s \in issued /\ s \in returned /\ monitor[s] = r
      /\ st[s].count < NumberOfUses /\ call[r].tgt \in issued \cup {None}
  BY <1>1 DEF RequestOK, ValidatePCs
<1>3. c \in Call /\ c.pc = "validate_finally" /\ c.st = s /\ c.tgt = call[r].tgt
  BY <1>1, CallRecords, PCsAreNamed DEF Call
<1>4. /\ st' = [st EXCEPT ![s] = used] /\ Unlock(s) /\ Become(r, c)
      /\ accepted' \in {accepted, [accepted EXCEPT ![s] = @ + 1]}
      /\ UNCHANGED <<now, issued, tgt, registry, notified, returned, destroyed>>
  BY DEF ValidateMatch, Goto
<1>5. /\ call' \in [Requests -> Call] /\ call'[r] = c
      /\ \A q \in Requests \ {r} : call'[q] = call[q]
  BY <1>3, <1>4, BecomeFacts DEF IInv, TypeOK, CasTypeOK
<1>6. used \in ServiceTicket /\ used.tgt = st[s].tgt /\ used.count = st[s].count + 1
  <2>1. st[s] \in ServiceTicket /\ now \in Nat
    BY <1>2 DEF IInv, TypeOK, CasTypeOK, TicketsTypeOK
  <2> QED
    BY <2>1, UpdateFacts
<1>7. /\ st'[s] = used /\ st' \in [STs -> ServiceTicket]
      /\ \A o \in STs \ {s} : st'[o] = st[o]
  BY <1>2, <1>4, <1>6 DEF IInv, TypeOK, CasTypeOK, TicketsTypeOK
<1>8. /\ monitor' \in [STs -> Requests \cup {None}]
      /\ \A o \in STs \ {s} : monitor'[o] = monitor[o]
  BY <1>4 DEF Unlock, IInv, TypeOK, CasTypeOK
<1>9. /\ accepted' \in [STs -> Nat] /\ accepted'[s] \in {accepted[s], accepted[s] + 1}
      /\ \A o \in STs \ {s} : accepted'[o] = accepted[o]
  BY <1>2, <1>4 DEF IInv, TypeOK, CasTypeOK
<1>10. TypeOK'
  BY <1>4, <1>5, <1>7, <1>8, <1>9 DEF IInv, TypeOK, CasTypeOK, TicketsTypeOK
<1>11. RequestOK(r)'
  BY <1>2, <1>3, <1>4, <1>5
     DEF RequestOK, GrantPCs, GrantedPCs, ValidatePCs, DelegatePCs, DestroyPCs
<1>12. \A q \in Requests : RequestOK(q)'
  BY <1>2, <1>4, <1>5, <1>6, <1>7, <1>8, <1>11, OthersOK DEF IInv
<1>13. TicketsOK'
  <2>1. \A o \in STs : st'[o].tgt = st[o].tgt
    BY <1>6, <1>7
  <2>2. accepted'[s] <= st'[s].count /\ st'[s].count <= NumberOfUses
    <3>1. accepted[s] <= st[s].count /\ accepted[s] \in Nat /\ st[s].count \in Nat
      BY <1>2 DEF IInv, TicketsOK, TypeOK, CasTypeOK, TicketsTypeOK, ServiceTicket
    <3> QED
      BY <1>2, <1>6, <1>7, <1>9, <3>1
  <2>3. \A o \in STs : accepted'[o] <= st'[o].count /\ st'[o].count <= NumberOfUses
    BY <1>7, <1>9, <2>2 DEF IInv, TicketsOK
  <2>4. \A o \in STs \ issued' : st'[o].count = 0
    BY <1>2, <1>4, <1>7 DEF IInv, TicketsOK
  <2>5. \A o \in STs \cap issued' : st'[o].tgt \in TGTs \cap issued'
    BY <1>4, <2>1 DEF IInv, TicketsOK
  <2>6. \A o \in returned' : tgt'[st'[o].tgt].count > 0
    BY <1>4, <2>1 DEF IInv, TicketsOK, TypeOK, CasTypeOK
  <2> QED
    BY <1>4, <2>3, <2>4, <2>5, <2>6 DEF IInv, TicketsOK
<1> QED
  BY <1>10, <1>12, <1>13 DEF IInv, CleanerOK

\* validateServiceTicket: the finally block.
LEMMA ValidateFinallyInv ==
  ASSUME IInv, NEW r \in Requests, ValidateFinally(r), UNCHANGED cleaner
  PROVE  IInv'
<1>1. /\ Become(r, Idle) /\ registry' \subseteq registry
      /\ UNCHANGED <<now, issued, tgt, st, notified, monitor, told>>
  BY DEF ValidateFinally, Leave, deleteTicket
<1>2. call'[r] = Idle
  BY <1>1, IdleCall, BecomeFacts DEF IInv, TypeOK, CasTypeOK
<1> QED
  BY <1>1, <1>2, IdleCall, IdleOK, ControlStep
     DEF told, IInv, TypeOK, CasTypeOK, TicketsTypeOK

(***************************************************************************)
(* delegateTicketGrantingTicket                                            *)
(***************************************************************************)

\* delegateTicketGrantingTicket: the registry lookup.
LEMMA DelegateLookupInv ==
  ASSUME IInv, NEW r \in Requests, DelegateLookup(r), UNCHANGED cleaner
  PROVE  IInv'
<1>1. PICK s \in STs \cap registry, u \in Users :
        Enter(r, [Idle EXCEPT !.pc = "delegate_expiry", !.st = s, !.cred = u])
  BY DEF DelegateLookup
<1> DEFINE c == [Idle EXCEPT !.pc = "delegate_expiry", !.st = s, !.cred = u]
<1>2. c \in Call /\ c.pc = "delegate_expiry" /\ c.st = s /\ c.tgt = None
  BY DEF Idle, Call, PCs, DelegatePCs
<1>3. UNCHANGED <<ticketVars, monitor, told>>
  BY DEF DelegateLookup
<1>4. Become(r, c) /\ call'[r] = c
  BY <1>1, <1>2, BecomeFacts DEF Enter, IInv, TypeOK, CasTypeOK
<1>5. s \in returned /\ s \in issued
  BY DEF IInv, TicketsOK
<1>6. RequestOK(r)'
  BY <1>2, <1>3, <1>4, <1>5
     DEF RequestOK, ticketVars, told, GrantPCs, GrantedPCs, ValidatePCs,
         DelegatePCs, DestroyPCs
<1> QED
  BY <1>2, <1>3, <1>4, <1>6, ControlStep
     DEF ticketVars, told, IInv, TypeOK, CasTypeOK, TicketsTypeOK

\* delegateTicketGrantingTicket: the expiry and service checks.
LEMMA DelegateExpiryInv ==
  ASSUME IInv, NEW r \in Requests, DelegateExpiry(r), UNCHANGED cleaner
  PROVE  IInv'
<1> DEFINE c == [call[r] EXCEPT !.pc = "delegate_test"]
<1>1. call[r] \in Call /\ call[r].pc = "delegate_expiry" /\ RequestOK(r)
  BY DEF DelegateExpiry, At, IInv, TypeOK, CasTypeOK
<1>2. /\ call[r].st \in STs /\ call[r].st \in issued /\ call[r].st \in returned
      /\ call[r].tgt \in issued \cup {None}
  BY <1>1 DEF RequestOK, DelegatePCs
<1>3. c \in Call /\ c.pc = "delegate_test" /\ c.st = call[r].st /\ c.tgt = call[r].tgt
  BY <1>1, CallRecords, PCsAreNamed DEF Call
<1>4. UNCHANGED <<ticketVars, monitor, told>>
  BY DEF DelegateExpiry
<1>5. CASE Leave(r)
  <2>1. Become(r, Idle) /\ call'[r] = Idle
    BY <1>5, IdleCall, BecomeFacts DEF Leave, IInv, TypeOK, CasTypeOK
  <2> QED
    BY <1>4, <2>1, IdleCall, IdleOK, ControlStep
       DEF ticketVars, told, IInv, TypeOK, CasTypeOK, TicketsTypeOK
<1>6. CASE Goto(r, "delegate_test")
  <2>1. Become(r, c) /\ call'[r] = c
    BY <1>3, <1>6, BecomeFacts DEF Goto, IInv, TypeOK, CasTypeOK
  <2>2. RequestOK(r)'
    BY <1>2, <1>3, <1>4, <2>1
       DEF RequestOK, ticketVars, told, GrantPCs, GrantedPCs, ValidatePCs,
           DelegatePCs, DestroyPCs
  <2> QED
    BY <1>3, <1>4, <2>1, <2>2, ControlStep
       DEF ticketVars, told, IInv, TypeOK, CasTypeOK, TicketsTypeOK
<1> QED
  BY <1>5, <1>6 DEF DelegateExpiry

\* ServiceTicketImpl.grantTicketGrantingTicket: the test of grantedTicketAlready.
LEMMA DelegateTestInv ==
  ASSUME IInv, NEW r \in Requests, DelegateTest(r), UNCHANGED cleaner
  PROVE  IInv'
<1> DEFINE c == [call[r] EXCEPT !.pc = "delegate_set"]
<1>1. call[r] \in Call /\ call[r].pc = "delegate_test" /\ RequestOK(r)
  BY DEF DelegateTest, At, IInv, TypeOK, CasTypeOK
<1>2. /\ call[r].st \in STs /\ call[r].st \in issued /\ call[r].st \in returned
      /\ call[r].tgt \in issued \cup {None}
  BY <1>1 DEF RequestOK, DelegatePCs
<1>3. c \in Call /\ c.pc = "delegate_set" /\ c.st = call[r].st /\ c.tgt = call[r].tgt
  BY <1>1, CallRecords, PCsAreNamed DEF Call
<1>4. UNCHANGED <<ticketVars, monitor, told>>
  BY DEF DelegateTest
<1>5. CASE Leave(r)
  <2>1. Become(r, Idle) /\ call'[r] = Idle
    BY <1>5, IdleCall, BecomeFacts DEF Leave, IInv, TypeOK, CasTypeOK
  <2> QED
    BY <1>4, <2>1, IdleCall, IdleOK, ControlStep
       DEF ticketVars, told, IInv, TypeOK, CasTypeOK, TicketsTypeOK
<1>6. CASE Goto(r, "delegate_set")
  <2>1. Become(r, c) /\ call'[r] = c
    BY <1>3, <1>6, BecomeFacts DEF Goto, IInv, TypeOK, CasTypeOK
  <2>2. RequestOK(r)'
    BY <1>2, <1>3, <1>4, <2>1
       DEF RequestOK, ticketVars, told, GrantPCs, GrantedPCs, ValidatePCs,
           DelegatePCs, DestroyPCs
  <2> QED
    BY <1>3, <1>4, <2>1, <2>2, ControlStep
       DEF ticketVars, told, IInv, TypeOK, CasTypeOK, TicketsTypeOK
<1> QED
  BY <1>5, <1>6 DEF DelegateTest

\* The identifier is fresh, and the service ticket keeps its TGT and count.
LEMMA DelegateSetInv ==
  ASSUME IInv, NEW r \in Requests, DelegateSet(r), UNCHANGED cleaner
  PROVE  IInv'
<1> DEFINE s == call[r].st
           parent == st[s].tgt
           used == [st[s] EXCEPT !.grantedTicketAlready = TRUE]
           new == NewTicketGrantingTicket(call[r].cred,
                                          {parent} \cup tgt[parent].ancestors)
<1>1. PICK t \in TGTs \ issued :
        /\ issued' = issued \cup {t}
        /\ st' = [st EXCEPT ![s] = used]
        /\ tgt' = [tgt EXCEPT ![t] = new]
        /\ Become(r, [call[r] EXCEPT !.pc = "delegate_register", !.tgt = t])
  BY DEF DelegateSet
<1> DEFINE c == [call[r] EXCEPT !.pc = "delegate_register", !.tgt = t]
<1>2. UNCHANGED <<now, registry, notified, monitor, told, cleaner>>
  BY DEF DelegateSet
<1>3. call[r] \in Call /\ call[r].pc = "delegate_set" /\ RequestOK(r)
  BY DEF DelegateSet, At, IInv, TypeOK, CasTypeOK
<1>4. s \in STs /\ s \in issued /\ s \in returned /\ parent \in TGTs \cap issued
  <2>1. s \in STs /\ s \in returned
    BY <1>3 DEF RequestOK, DelegatePCs
  <2> QED
    BY <2>1 DEF IInv, TicketsOK
<1>5. c \in Call /\ c.pc = "delegate_register" /\ c.st = s /\ c.tgt = t
  BY <1>3, CallRecords, PCsAreNamed DEF Call
<1>6. /\ call' \in [Requests -> Call] /\ call'[r] = c
      /\ \A q \in Requests \ {r} : call'[q] = call[q]
  BY <1>1, <1>5, BecomeFacts DEF IInv, TypeOK, CasTypeOK
<1>7. used \in ServiceTicket /\ used.tgt = st[s].tgt /\ used.count = st[s].count
  <2>1. st[s] \in ServiceTicket
    BY <1>4 DEF IInv, TypeOK, CasTypeOK, TicketsTypeOK
  <2>2. \A x \in ServiceTicket :
          LET y == [x EXCEPT !.grantedTicketAlready = TRUE] IN
          y \in ServiceTicket /\ y.tgt = x.tgt /\ y.count = x.count
    BY DEF ServiceTicket
  <2> QED
    BY <2>1, <2>2
<1>8. new \in TicketGrantingTicket
  <2>1. {parent} \cup tgt[parent].ancestors \in SUBSET TGTs
    BY <1>4 DEF IInv, TypeOK, CasTypeOK, TicketsTypeOK, TicketGrantingTicket
  <2> QED
    BY <1>3, <2>1, NewTGTType DEF Call, IInv, TypeOK, CasTypeOK, TicketsTypeOK
<1>9. /\ st' \in [STs -> ServiceTicket]
      /\ \A o \in STs : st'[o].tgt = st[o].tgt /\ st'[o].count = st[o].count
  BY <1>1, <1>4, <1>7 DEF IInv, TypeOK, CasTypeOK, TicketsTypeOK
<1>10. /\ tgt' \in [TGTs -> TicketGrantingTicket]
       /\ \A u \in TGTs \cap issued : tgt'[u] = tgt[u]
  BY <1>1, <1>8 DEF IInv, TypeOK, CasTypeOK, TicketsTypeOK
<1>11. TypeOK'
  BY <1>1, <1>2, <1>6, <1>9, <1>10
     DEF IInv, TypeOK, CasTypeOK, TicketsTypeOK, told, Tickets
<1>12. RequestOK(r)'
  BY <1>1, <1>2, <1>4, <1>5, <1>6
     DEF RequestOK, told, GrantPCs, GrantedPCs, ValidatePCs, DelegatePCs, DestroyPCs
<1>13. \A q \in Requests : RequestOK(q)'
  BY <1>1, <1>2, <1>6, <1>9, <1>10, <1>12, OthersOK DEF IInv, told
<1>14. TicketsOK'
  <2>1. \A o \in STs : o \in issued' <=> o \in issued
    BY <1>1
  <2>2. \A o \in returned : o \in STs /\ st[o].tgt \in TGTs \cap issued
    BY DEF IInv, TicketsOK, TypeOK, CasTypeOK
  <2>3. \A o \in returned : tgt'[st'[o].tgt].count > 0
    BY <1>9, <1>10, <2>2 DEF IInv, TicketsOK
  <2>4. /\ \A o \in STs \cap issued' : st'[o].tgt \in TGTs \cap issued'
        /\ \A o \in STs \ issued' : st'[o].count = 0
    BY <1>1, <1>9, <2>1 DEF IInv, TicketsOK
  <2>5. \A o \in STs : accepted[o] <= st'[o].count /\ st'[o].count <= NumberOfUses
    BY <1>9 DEF IInv, TicketsOK
  <2>6. registry \cup returned \subseteq issued' /\ STs \cap registry \subseteq returned
    BY <1>1 DEF IInv, TicketsOK
  <2> QED
    BY <1>2, <2>3, <2>4, <2>5, <2>6 DEF TicketsOK, told
<1> QED
  BY <1>2, <1>11, <1>13, <1>14 DEF IInv, CleanerOK

\* delegateTicketGrantingTicket: the new ticket is registered.
LEMMA DelegateRegisterInv ==
  ASSUME IInv, NEW r \in Requests, DelegateRegister(r), UNCHANGED cleaner
  PROVE  IInv'
<1> DEFINE t == call[r].tgt
<1>1. call[r] \in Call /\ call[r].pc = "delegate_register" /\ RequestOK(r)
  BY DEF DelegateRegister, At, IInv, TypeOK, CasTypeOK
<1>2. t \in TGTs \cap issued
  BY <1>1 DEF RequestOK
<1>3. /\ registry' = registry \cup {t} /\ Become(r, Idle)
      /\ UNCHANGED <<now, issued, tgt, st, notified, monitor, told>>
  BY DEF DelegateRegister, addTicket, Leave
<1>4. /\ call' \in [Requests -> Call] /\ call'[r] = Idle
      /\ \A q \in Requests \ {r} : call'[q] = call[q]
  BY <1>3, IdleCall, BecomeFacts DEF IInv, TypeOK, CasTypeOK
<1>5. TypeOK'
  BY <1>2, <1>3, <1>4 DEF IInv, TypeOK, CasTypeOK, TicketsTypeOK, Tickets, told
<1>6. \A q \in Requests : RequestOK(q)'
  BY <1>3, <1>4, IdleOK, OthersOK DEF IInv, told
<1>7. TicketsOK'
  BY <1>2, <1>3 DEF IInv, TicketsOK, told
<1> QED
  BY <1>5, <1>6, <1>7 DEF IInv, CleanerOK

(***************************************************************************)
(* destroyTicketGrantingTicket                                             *)
(***************************************************************************)

\* destroyTicketGrantingTicket: the registry lookup.
LEMMA DestroyLookupInv ==
  ASSUME IInv, NEW r \in Requests, DestroyLookup(r), UNCHANGED cleaner
  PROVE  IInv'
<1>1. PICK t \in TGTs \cap registry :
        Enter(r, [Idle EXCEPT !.pc = "destroy_expire", !.tgt = t])
  BY DEF DestroyLookup
<1> DEFINE c == [Idle EXCEPT !.pc = "destroy_expire", !.tgt = t]
<1>2. c \in Call /\ c.pc = "destroy_expire" /\ c.tgt = t /\ c.st = None
  BY DEF Idle, Call, PCs, DestroyPCs
<1>3. UNCHANGED <<ticketVars, monitor, told>>
  BY DEF DestroyLookup
<1>4. Become(r, c) /\ call'[r] = c
  BY <1>1, <1>2, BecomeFacts DEF Enter, IInv, TypeOK, CasTypeOK
<1>5. RequestOK(r)'
  BY <1>2, <1>3, <1>4
     DEF RequestOK, IInv, TicketsOK, ticketVars, GrantPCs, GrantedPCs, ValidatePCs,
         DelegatePCs, DestroyPCs
<1> QED
  BY <1>2, <1>3, <1>4, <1>5, ControlStep
     DEF ticketVars, told, IInv, TypeOK, CasTypeOK, TicketsTypeOK

\* Setting the expired flag keeps the ticket's counter.
LEMMA ExpireFacts ==
  ASSUME NEW ticket \in TicketGrantingTicket
  PROVE  /\ [ticket EXCEPT !.expired = TRUE] \in TicketGrantingTicket
         /\ [ticket EXCEPT !.expired = TRUE].count = ticket.count
         /\ ticket.version \in Nat /\ ticket.services \subseteq STs
  BY DEF TicketGrantingTicket

\* TicketGrantingTicketImpl.expire: the flag and the enumerator.
LEMMA DestroyExpireInv ==
  ASSUME IInv, NEW r \in Requests, DestroyExpire(r), UNCHANGED cleaner
  PROVE  IInv'
<1> DEFINE t == call[r].tgt
           c == [call[r] EXCEPT !.pc = "destroy_logout", !.num = tgt[t].version,
                                !.keys = tgt[t].services]
           ticket == [tgt[t] EXCEPT !.expired = TRUE]
<1>1. call[r] \in Call /\ call[r].pc = "destroy_expire" /\ RequestOK(r)
  BY DEF DestroyExpire, At, IInv, TypeOK, CasTypeOK
<1>2. t \in TGTs /\ t \in issued /\ call[r].st \in issued \cup {None}
  BY <1>1 DEF RequestOK, DestroyPCs
<1>3. /\ ticket \in TicketGrantingTicket /\ ticket.count = tgt[t].count
      /\ tgt[t].version \in Nat /\ tgt[t].services \in SUBSET STs
  BY <1>2, ExpireFacts DEF IInv, TypeOK, CasTypeOK, TicketsTypeOK
<1>4. c \in Call
  BY <1>1, <1>3, CallRecords DEF PCs, DestroyPCs
<1>5. c.pc = "destroy_logout" /\ c.tgt = t /\ c.st = call[r].st
  BY <1>1 DEF Call
<1>6. /\ Become(r, c) /\ tgt' = [tgt EXCEPT ![t] = ticket]
      /\ UNCHANGED <<now, issued, st, registry, notified, monitor, told>>
  BY DEF DestroyExpire
<1>7. call'[r] = c
  BY <1>4, <1>6, BecomeFacts DEF IInv, TypeOK, CasTypeOK
<1>8. RequestOK(r)'
  BY <1>2, <1>5, <1>6, <1>7
     DEF RequestOK, GrantPCs, GrantedPCs, ValidatePCs, DelegatePCs, DestroyPCs
<1> QED
  BY <1>2, <1>3, <1>4, <1>6, <1>8, ReplaceTGT

\* logOutOfServices: one MoveNext of the enumeration.
LEMMA DestroyLogoutInv ==
  ASSUME IInv, NEW r \in Requests, DestroyLogout(r), UNCHANGED cleaner
  PROVE  IInv'
<1>1. call[r] \in Call /\ call[r].pc = "destroy_logout" /\ RequestOK(r)
  BY DEF DestroyLogout, At, IInv, TypeOK, CasTypeOK
<1>2. /\ call[r].tgt \in TGTs /\ call[r].tgt \in issued
      /\ call[r].st \in issued \cup {None}
  BY <1>1 DEF RequestOK, DestroyPCs
<1>3. UNCHANGED <<now, issued, tgt, st, registry, monitor, told>>
  BY DEF DestroyLogout
<1>4. CASE Leave(r) /\ UNCHANGED notified
  <2>1. Become(r, Idle) /\ call'[r] = Idle
    BY <1>4, IdleCall, BecomeFacts DEF Leave, IInv, TypeOK, CasTypeOK
  <2> QED
    BY <1>3, <1>4, <2>1, IdleCall, IdleOK, ControlStep
       DEF told, IInv, TypeOK, CasTypeOK, TicketsTypeOK
<1>5. ASSUME NEW c \in Call, Become(r, c), notified' \subseteq STs,
             c.pc \in DestroyPCs, c.tgt = call[r].tgt, c.st = call[r].st
      PROVE  IInv'
  <2>1. call'[r] = c
    BY <1>5, BecomeFacts DEF IInv, TypeOK, CasTypeOK
  <2>2. RequestOK(r)'
    BY <1>2, <1>3, <1>5, <2>1
       DEF RequestOK, GrantPCs, GrantedPCs, ValidatePCs, DelegatePCs, DestroyPCs
  <2> QED
    BY <1>3, <1>5, <2>2, ControlStep
       DEF told, IInv, TypeOK, CasTypeOK, TicketsTypeOK
<1>6. ASSUME NEW s \in call[r].keys, notified' = notified \cup {s},
             Become(r, [call[r] EXCEPT !.keys = @ \ {s}])
      PROVE  IInv'
  <2> DEFINE c == [call[r] EXCEPT !.keys = @ \ {s}]
  <2>1. s \in STs /\ call[r].keys \ {s} \in SUBSET STs
    BY <1>1 DEF Call
  <2>2. /\ c \in Call /\ c.pc = "destroy_logout"
        /\ c.tgt = call[r].tgt /\ c.st = call[r].st
    BY <1>1, <2>1 DEF Call
  <2>3. notified' \subseteq STs
    BY <1>6, <2>1 DEF IInv, TypeOK, CasTypeOK, TicketsTypeOK
  <2> QED
    BY <1>5, <1>6, <2>2, <2>3 DEF DestroyPCs
<1>7. CASE Goto(r, "destroy_delete") /\ UNCHANGED notified
  <2> DEFINE c == [call[r] EXCEPT !.pc = "destroy_delete"]
  <2>1. /\ c \in Call /\ c.pc = "destroy_delete"
        /\ c.tgt = call[r].tgt /\ c.st = call[r].st
    BY <1>1, CallRecords, PCsAreNamed DEF Call
  <2>2. notified' \subseteq STs
    BY <1>7 DEF IInv, TypeOK, CasTypeOK, TicketsTypeOK
  <2> QED
    BY <1>5, <1>7, <2>1, <2>2 DEF DestroyPCs, Goto
<1> QED
  BY <1>4, <1>6, <1>7 DEF DestroyLogout

\* destroyTicketGrantingTicket: the deletion.
LEMMA DestroyDeleteInv ==
  ASSUME IInv, NEW r \in Requests, DestroyDelete(r), UNCHANGED cleaner
  PROVE  IInv'
<1>1. call[r].tgt \in TGTs
  BY DEF DestroyDelete, At, IInv, RequestOK, DestroyPCs
<1>2. /\ Become(r, Idle) /\ registry' \subseteq registry
      /\ destroyed' = destroyed \cup {call[r].tgt}
      /\ UNCHANGED <<now, issued, tgt, st, notified, monitor, returned, accepted>>
  BY DEF DestroyDelete, Leave, deleteTicket
<1>3. call'[r] = Idle
  BY <1>2, IdleCall, BecomeFacts DEF IInv, TypeOK, CasTypeOK
<1> QED
  BY <1>1, <1>2, <1>3, IdleCall, IdleOK, ControlStep
     DEF IInv, TypeOK, CasTypeOK, TicketsTypeOK

(***************************************************************************)
(* Steps in which no call in progress moves: a login, time, the cleaner.   *)
(***************************************************************************)

\* A step that leaves calls and tickets alone keeps what requests rely on.
LEMMA AllOK ==
  ASSUME IInv, UNCHANGED <<st, call, monitor, returned>>, issued \subseteq issued',
         \A t \in TGTs \cap issued : tgt[t].count > 0 => tgt'[t].count > 0
  PROVE  \A q \in Requests : RequestOK(q)'
<1> SUFFICES ASSUME NEW q \in Requests PROVE RequestOK(q)'
  OBVIOUS
<1> DEFINE c == call[q]
<1>1. RequestOK(q)
  BY DEF IInv
<1>2. c.pc \in {"grant_record", "grant_register"} => tgt'[c.tgt].count > 0
  BY <1>1 DEF RequestOK, GrantPCs, GrantedPCs
<1> QED
  BY <1>1, <1>2 DEF RequestOK

\* createTicketGrantingTicket keeps the invariant.
LEMMA CreateInv ==
  ASSUME IInv, NEW r \in Requests, CreateTicketGrantingTicket(r), UNCHANGED cleaner
  PROVE  IInv'
<1>1. PICK t \in TGTs \ issued, u \in Users :
        /\ issued' = issued \cup {t}
        /\ tgt' = [tgt EXCEPT ![t] = NewTicketGrantingTicket(u, {})]
        /\ registry' = registry \cup {t}
        /\ UNCHANGED <<now, st, notified, call, monitor, told>>
  BY DEF CreateTicketGrantingTicket, addTicket
<1>2. NewTicketGrantingTicket(u, {}) \in TicketGrantingTicket
  BY NewTGTType DEF IInv, TypeOK, CasTypeOK, TicketsTypeOK
<1>3. /\ tgt' \in [TGTs -> TicketGrantingTicket]
      /\ \A x \in TGTs \cap issued : tgt'[x] = tgt[x]
  BY <1>1, <1>2 DEF IInv, TypeOK, CasTypeOK, TicketsTypeOK
<1>4. TypeOK'
  BY <1>1, <1>3 DEF IInv, TypeOK, CasTypeOK, TicketsTypeOK, Tickets, told
<1>5. \A q \in Requests : RequestOK(q)'
  BY <1>1, <1>3, AllOK DEF told
<1>6. TicketsOK'
  <2>1. \A o \in returned : o \in STs /\ st[o].tgt \in TGTs \cap issued
    BY DEF IInv, TicketsOK, TypeOK, CasTypeOK
  <2>2. \A o \in returned : tgt'[st[o].tgt].count > 0
    BY <1>3, <2>1 DEF IInv, TicketsOK
  <2>3. /\ registry' \cup returned \subseteq issued'
        /\ STs \cap registry' \subseteq returned
        /\ \A o \in STs : o \in issued' <=> o \in issued
    BY <1>1 DEF IInv, TicketsOK
  <2> QED
    BY <1>1, <2>2, <2>3 DEF IInv, TicketsOK, told
<1> QED
  BY <1>4, <1>5, <1>6 DEF IInv, CleanerOK

\* Time keeps the invariant.
LEMMA TickInv ==
  ASSUME IInv, Tick, UNCHANGED <<call, monitor, told, cleaner>>
  PROVE  IInv'
<1>1. TypeOK'
  BY DEF Tick, IInv, TypeOK, CasTypeOK, TicketsTypeOK, told
<1>2. \A q \in Requests : RequestOK(q)'
  BY AllOK DEF Tick, told
<1> QED
  BY <1>1, <1>2 DEF Tick, IInv, TicketsOK, CleanerOK, told

\* A step of the cleaner that only expires or removes tickets keeps what
\* requests rely on.
LEMMA CleanerStep ==
  ASSUME IInv, UNCHANGED <<now, issued, st, call, monitor, told>>,
         cleaner' \in CleanerState, CleanerOK',
         registry' \subseteq registry, notified' \subseteq STs,
         tgt' \in [TGTs -> TicketGrantingTicket],
         \A t \in TGTs : tgt'[t].count = tgt[t].count
  PROVE  IInv'
<1>1. TypeOK'
  BY DEF IInv, TypeOK, CasTypeOK, TicketsTypeOK, told
<1>2. \A q \in Requests : RequestOK(q)'
  BY AllOK DEF told
<1>3. TicketsOK'
  <2>1. \A o \in returned : tgt'[st[o].tgt].count > 0
    BY DEF IInv, TicketsOK, TypeOK, CasTypeOK
  <2> QED
    BY <2>1 DEF IInv, TicketsOK, told
<1> QED
  BY <1>1, <1>2, <1>3 DEF IInv

\* Every step of clean() keeps the invariant.
LEMMA CleanInv ==
  ASSUME IInv, Clean
  PROVE  IInv'
<1> USE DEF CleanerState
<1>1. /\ cleaner \in CleanerState /\ CleanerOK
      /\ registry \subseteq Tickets /\ notified \subseteq STs
      /\ tgt \in [TGTs -> TicketGrantingTicket]
  BY DEF IInv, TypeOK, CasTypeOK, TicketsTypeOK
<1>2. Resting \in CleanerState /\ Resting.pc = "idle"
  BY DEF Resting
<1>3. CASE CleanScan
  <2>1. PICK x \in SUBSET registry : cleaner' = [Resting EXCEPT !.pc = "remove", !.todo = x]
    BY <1>3 DEF CleanScan
  <2>2. cleaner' \in CleanerState /\ cleaner'.pc = "remove"
    BY <1>1, <2>1 DEF Resting
  <2> QED
    BY <1>1, <1>3, <2>2, CleanerStep DEF CleanScan, casVars, ticketVars, told, CleanerOK
<1>4. CASE CleanServiceTicket
  <2>1. PICK s \in cleaner.todo \cap STs : cleaner' = [cleaner EXCEPT !.todo = @ \ {s}]
    BY <1>4 DEF CleanServiceTicket
  <2>2. cleaner' \in CleanerState /\ cleaner'.pc = "remove"
    BY <1>1, <1>4, <2>1 DEF CleanServiceTicket
  <2>3. registry' \subseteq registry
    BY <1>4 DEF CleanServiceTicket, deleteTicket
  <2> QED
    BY <1>1, <1>4, <2>2, <2>3, CleanerStep DEF CleanServiceTicket, told, CleanerOK
<1>5. CASE CleanExpire
  <2>1. PICK t \in cleaner.todo \cap TGTs :
          /\ tgt' = [tgt EXCEPT ![t] = [tgt[t] EXCEPT !.expired = TRUE]]
          /\ cleaner' = [pc |-> "logout", todo |-> cleaner.todo \ {t}, tgt |-> t,
                         num |-> tgt[t].version, keys |-> tgt[t].services]
    BY <1>5 DEF CleanExpire
  <2>2. /\ [tgt[t] EXCEPT !.expired = TRUE] \in TicketGrantingTicket
        /\ [tgt[t] EXCEPT !.expired = TRUE].count = tgt[t].count
        /\ tgt[t].version \in Nat /\ tgt[t].services \in SUBSET STs
    BY <1>1, ExpireFacts
  <2>3. /\ tgt' \in [TGTs -> TicketGrantingTicket]
        /\ \A x \in TGTs : tgt'[x].count = tgt[x].count
    BY <1>1, <2>1, <2>2
  <2>4. cleaner' \in CleanerState /\ cleaner'.tgt \in TGTs
    BY <1>1, <2>1, <2>2
  <2> QED
    BY <1>1, <1>5, <2>3, <2>4, CleanerStep DEF CleanExpire, told, CleanerOK
<1>6. CASE CleanLogout
  <2>1. cleaner.pc = "logout" /\ cleaner.tgt \in TGTs
    BY <1>1, <1>6 DEF CleanLogout, CleanerOK
  <2>2. CASE cleaner' = Resting /\ UNCHANGED notified
    BY <1>1, <1>2, <1>6, <2>2, CleanerStep DEF CleanLogout, told, CleanerOK
  <2>3. ASSUME NEW s \in cleaner.keys, notified' = notified \cup {s},
               cleaner' = [cleaner EXCEPT !.keys = @ \ {s}]
        PROVE  IInv'
    <3>1. cleaner' \in CleanerState /\ cleaner'.tgt \in TGTs /\ s \in STs
      BY <1>1, <2>1, <2>3
    <3> QED
      BY <1>1, <1>6, <2>3, <3>1, CleanerStep DEF CleanLogout, told, CleanerOK
  <2>4. CASE cleaner' = [cleaner EXCEPT !.pc = "delete"] /\ UNCHANGED notified
    <3>1. cleaner' \in CleanerState /\ cleaner'.tgt \in TGTs
      BY <1>1, <2>1, <2>4
    <3> QED
      BY <1>1, <1>6, <2>4, <3>1, CleanerStep DEF CleanLogout, told, CleanerOK
  <2> QED
    BY <1>6, <2>2, <2>3, <2>4 DEF CleanLogout
<1>7. CASE CleanDelete
  <2>1. cleaner' \in CleanerState /\ cleaner'.pc = "remove"
    BY <1>1, <1>7 DEF CleanDelete, Resting
  <2>2. registry' \subseteq registry
    BY <1>7 DEF CleanDelete, deleteTicket
  <2> QED
    BY <1>1, <1>7, <2>1, <2>2, CleanerStep DEF CleanDelete, told, CleanerOK
<1>8. CASE CleanDone
  BY <1>1, <1>2, <1>8, CleanerStep DEF CleanDone, casVars, ticketVars, told, CleanerOK
<1> QED
  BY <1>3, <1>4, <1>5, <1>6, <1>7, <1>8 DEF Clean

(***************************************************************************)
(* The theorems                                                            *)
(***************************************************************************)

\* The invariant is inductive.
LEMMA NextInv == ASSUME IInv, [Next]_vars PROVE IInv'
<1>1. ASSUME NEW r \in Requests, CreateTicketGrantingTicket(r), UNCHANGED cleaner
      PROVE  IInv'
  BY <1>1, CreateInv
<1>2. ASSUME NEW r \in Requests, GrantServiceTicket(r), UNCHANGED cleaner
      PROVE  IInv'
  BY <1>2, GrantLookupInv, GrantExpiryInv, GrantAuthorizeInv, GrantConstructInv,
     GrantCountInv, GrantUpdateInv, GrantRecordInv, GrantRegisterInv
     DEF GrantServiceTicket
<1>3. ASSUME NEW r \in Requests, ValidateServiceTicket(r), UNCHANGED cleaner
      PROVE  IInv'
  BY <1>3, ValidateLookupInv, ValidateLockInv, ValidateExpiryInv, ValidateMatchInv,
     ValidateFinallyInv DEF ValidateServiceTicket
<1>4. ASSUME NEW r \in Requests, DelegateTicketGrantingTicket(r), UNCHANGED cleaner
      PROVE  IInv'
  BY <1>4, DelegateLookupInv, DelegateExpiryInv, DelegateTestInv, DelegateSetInv,
     DelegateRegisterInv DEF DelegateTicketGrantingTicket
<1>5. ASSUME NEW r \in Requests, DestroyTicketGrantingTicket(r), UNCHANGED cleaner
      PROVE  IInv'
  BY <1>5, DestroyLookupInv, DestroyExpireInv, DestroyLogoutInv, DestroyDeleteInv
     DEF DestroyTicketGrantingTicket
<1>6. CASE Tick /\ UNCHANGED <<call, monitor, told, cleaner>>
  BY <1>6, TickInv
<1>7. CASE Clean
  BY <1>7, CleanInv
<1>8. CASE UNCHANGED vars
  <2> USE <1>8 DEF vars, casVars, ticketVars, told
  <2>1. \A q \in Requests : RequestOK(q)'
    BY DEF IInv, RequestOK
  <2>2. TypeOK'
    BY DEF IInv, TypeOK, CasTypeOK, TicketsTypeOK
  <2>3. TicketsOK' /\ CleanerOK'
    BY DEF IInv, TicketsOK, CleanerOK
  <2> QED
    BY <2>1, <2>2, <2>3 DEF IInv
<1> QED
  BY <1>1, <1>2, <1>3, <1>4, <1>5, <1>6, <1>7, <1>8 DEF Next

\* The invariant of the ticket core holds in every reachable state.
THEOREM Invariance == Spec => []IInv
<1>1. Init => IInv
  BY InitInv
<1>2. IInv /\ [Next]_vars => IInv'
  BY NextInv
<1> QED
  BY <1>1, <1>2, PTL DEF Spec

\* Every variable keeps its type.
THEOREM TypeCorrect == Spec => []TypeOK
<1>1. IInv => TypeOK
  BY DEF IInv
<1> QED
  BY <1>1, Invariance, PTL

\* Overlapping validations of a service ticket never produce more Assertions
\* than its policy allows uses, for any number of requests and of uses.
THEOREM UsesAreBounded == Spec => []AtMostNumberOfUses
<1>1. IInv => AtMostNumberOfUses
  <2> SUFFICES ASSUME IInv, NEW s \in STs PROVE accepted[s] <= NumberOfUses
    BY DEF AtMostNumberOfUses
  <2>1. accepted[s] \in Nat /\ st[s].count \in Nat
    BY DEF IInv, TypeOK, CasTypeOK, TicketsTypeOK, ServiceTicket
  <2> QED
    BY <2>1 DEF IInv, TicketsOK
<1> QED
  BY <1>1, Invariance, PTL

\* A TGT of which a caller holds a service ticket counts as used, although
\* countOfUses++ is not synchronized.
THEOREM UsesAreCounted == Spec => []ReturnedTicketCounted
<1>1. IInv => ReturnedTicketCounted
  BY DEF IInv, TicketsOK, ReturnedTicketCounted
<1> QED
  BY <1>1, Invariance, PTL

(***************************************************************************)
(* The two reads of the counter                                            *)
(***************************************************************************)

\* A call reaches grant_construct through the checks of grantServiceTicket only.
LEMMA IntoConstruct ==
  ASSUME IInv, [Next]_vars, NEW r \in Requests, At(r, "grant_construct")'
  PROVE  (At(r, "grant_construct") /\ call'[r] = call[r]) \/ GrantAuthorize(r)
<1> SUFFICES ASSUME ~GrantAuthorize(r)
             PROVE  At(r, "grant_construct") /\ call'[r] = call[r]
  OBVIOUS
<1>1. call \in [Requests -> Call] /\ call[r] \in Call
  BY DEF IInv, TypeOK, CasTypeOK
<1>2. CASE UNCHANGED call
  BY <1>2 DEF At
<1>3. ASSUME NEW q \in Requests, NEW c, Become(q, c),
             q = r => c.pc # "grant_construct"
      PROVE  At(r, "grant_construct") /\ call'[r] = call[r]
  BY <1>1, <1>3 DEF Become, At
<1>4. ASSUME NEW q \in Requests, GrantServiceTicket(q)
      PROVE  At(r, "grant_construct") /\ call'[r] = call[r]
  <2> USE DEF Idle, Call
  <2>1. CASE GrantLookup(q)
    BY <1>3, <2>1 DEF GrantLookup, Enter
  <2>2. CASE GrantExpiry(q)
    <3>1. call[q] \in Call
      BY <1>1
    <3>2. [call[q] EXCEPT !.pc = "grant_authorize"].pc = "grant_authorize"
      BY <3>1
    <3> QED
      BY <1>3, <2>2, <3>2 DEF GrantExpiry, Goto, Leave
  <2>3. CASE GrantAuthorize(q)
    <3>1. q # r
      BY <2>3
    <3> QED
      BY <1>3, <2>3, <3>1 DEF GrantAuthorize, Goto, Leave
  <2>4. CASE GrantConstruct(q)
    <3>1. call[q] \in Call
      BY <1>1
    <3>2. \A s : [call[q] EXCEPT !.pc = "grant_count", !.st = s].pc = "grant_count"
      BY <3>1
    <3> QED
      BY <1>3, <2>4, <3>2 DEF GrantConstruct
  <2>5. CASE GrantCount(q)
    <3>1. call[q] \in Call
      BY <1>1
    <3>2. \A n : [call[q] EXCEPT !.pc = "grant_update", !.num = n].pc = "grant_update"
      BY <3>1
    <3> QED
      BY <1>3, <2>5, <3>2 DEF GrantCount
  <2>6. CASE GrantUpdate(q)
    <3>1. call[q] \in Call
      BY <1>1
    <3>2. \A k : [call[q] EXCEPT !.pc = "grant_record", !.keys = k].pc = "grant_record"
      BY <3>1
    <3> QED
      BY <1>3, <2>6, <3>2 DEF GrantUpdate
  <2>7. CASE GrantRecord(q)
    <3>1. call[q] \in Call
      BY <1>1
    <3>2. [call[q] EXCEPT !.pc = "grant_register"].pc = "grant_register"
      BY <3>1
    <3> QED
      BY <1>3, <2>7, <3>2 DEF GrantRecord, Goto, Leave
  <2>8. CASE GrantRegister(q)
    BY <1>3, <2>8 DEF GrantRegister, Leave
  <2> QED
    BY <1>4, <2>1, <2>2, <2>3, <2>4, <2>5, <2>6, <2>7, <2>8 DEF GrantServiceTicket
<1>5. ASSUME NEW q \in Requests,
             ValidateServiceTicket(q) \/ DelegateTicketGrantingTicket(q)
               \/ DestroyTicketGrantingTicket(q)
      PROVE  At(r, "grant_construct") /\ call'[r] = call[r]
  <2>1. call[q] \in Call
    BY <1>1
  <2>2. Idle.pc # "grant_construct"
    BY DEF Idle
  <2>3. ASSUME NEW pc, pc # "grant_construct", Goto(q, pc)
        PROVE  At(r, "grant_construct") /\ call'[r] = call[r]
    <3>1. [call[q] EXCEPT !.pc = pc].pc # "grant_construct"
      BY <2>1, <2>3 DEF Call
    <3> QED
      BY <1>3, <2>3, <3>1 DEF Goto
  <2>4. Leave(q) => At(r, "grant_construct") /\ call'[r] = call[r]
    BY <1>3, <2>2 DEF Leave
  <2>5. CASE ValidateLookup(q)
    BY <1>3, <2>5 DEF ValidateLookup, Enter, Idle
  <2>6. CASE ValidateLock(q) \/ ValidateExpiry(q) \/ ValidateMatch(q) \/ ValidateFinally(q)
    BY <2>3, <2>4, <2>6 DEF ValidateLock, ValidateExpiry, ValidateMatch, ValidateFinally
  <2>7. CASE DelegateLookup(q)
    BY <1>3, <2>7 DEF DelegateLookup, Enter, Idle
  <2>8. CASE DelegateExpiry(q) \/ DelegateTest(q) \/ DelegateRegister(q)
    BY <2>3, <2>4, <2>8 DEF DelegateExpiry, DelegateTest, DelegateRegister
  <2>9. CASE DelegateSet(q)
    <3>1. \A t : [call[q] EXCEPT !.pc = "delegate_register", !.tgt = t].pc
                   = "delegate_register"
      BY <2>1 DEF Call
    <3> QED
      BY <1>3, <2>9, <3>1 DEF DelegateSet
  <2>10. CASE DestroyLookup(q)
    BY <1>3, <2>10 DEF DestroyLookup, Enter, Idle
  <2>11. CASE DestroyExpire(q)
    <3>1. \A n, k : [call[q] EXCEPT !.pc = "destroy_logout", !.num = n, !.keys = k].pc
                      = "destroy_logout"
      BY <2>1 DEF Call
    <3> QED
      BY <1>3, <2>11, <3>1 DEF DestroyExpire
  <2>12. CASE DestroyLogout(q)
    <3>1. \A k : [call[q] EXCEPT !.keys = k].pc = "destroy_logout"
      BY <2>1, <2>12 DEF DestroyLogout, At, Call
    <3>2. ASSUME NEW s, Become(q, [call[q] EXCEPT !.keys = @ \ {s}])
          PROVE  At(r, "grant_construct") /\ call'[r] = call[r]
      BY <1>3, <3>1, <3>2
    <3> QED
      BY <2>3, <2>4, <2>12, <3>2 DEF DestroyLogout
  <2>13. CASE DestroyDelete(q)
    BY <2>4, <2>13 DEF DestroyDelete
  <2> QED
    BY <1>5, <2>5, <2>6, <2>7, <2>8, <2>9, <2>10, <2>11, <2>12, <2>13
       DEF ValidateServiceTicket, DelegateTicketGrantingTicket, DestroyTicketGrantingTicket
<1>6. CASE Clean
  BY <1>2, <1>6
     DEF Clean, CleanScan, CleanServiceTicket, CleanExpire, CleanLogout, CleanDelete,
         CleanDone, casVars
<1> QED
  BY <1>2, <1>4, <1>5, <1>6 DEF Next, CreateTicketGrantingTicket, vars, casVars

\* The check of a service outside SSO lets a call go on only while no caller
\* holds a service ticket of the TGT.
THEOREM SsoCheckIsSound == Spec => SsoCheckSeesReturnedTickets
<1>1. ASSUME IInv, [Next]_vars, NEW r \in Requests,
             At(r, "grant_authorize"), At(r, "grant_construct")',
             call[r].service \notin SsoEnabled,
             NEW s \in returned
      PROVE  st[s].tgt # call[r].tgt
  <2>1. GrantAuthorize(r)
    BY <1>1, IntoConstruct DEF At
  <2>2. GrantAuthorized(call[r])
    BY <1>1, <2>1, IdleCall, BecomeFacts
       DEF GrantAuthorize, Leave, At, IInv, TypeOK, CasTypeOK
  <2>3. ~(tgt[call[r].tgt].count > 0)
    BY <1>1, <2>2 DEF GrantAuthorized, SsoDenied, SameAuthentication
  <2> QED
    BY <1>1, <2>3 DEF IInv, TicketsOK
<1>2. IInv /\ [Next]_vars =>
        \A r \in Requests :
          (At(r, "grant_authorize") /\ At(r, "grant_construct")'
             /\ call[r].service \notin SsoEnabled)
          => \A s \in returned : st[s].tgt # call[r].tgt
  BY <1>1
<1> QED
  BY <1>2, Invariance, PTL DEF Spec, SsoCheckSeesReturnedTickets

\* No call gets past the checks with credentials: the comparison of the two
\* authentications never succeeds.
NoCredentials == \A r \in Requests : At(r, "grant_construct") => call[r].cred = None

\* No grant made with credentials gets past the authorization.
LEMMA NoCredentialsInv == Spec => []NoCredentials
<1>1. Init => NoCredentials
  BY IdleCall DEF Init, CasInit, NoCredentials, At
<1>2. IInv /\ NoCredentials /\ [Next]_vars => NoCredentials'
  <2> SUFFICES ASSUME IInv, NoCredentials, [Next]_vars, NEW r \in Requests,
                      At(r, "grant_construct")'
               PROVE  call'[r].cred = None
    BY DEF NoCredentials
  <2>1. CASE At(r, "grant_construct") /\ call'[r] = call[r]
    BY <2>1 DEF NoCredentials
  <2>2. CASE GrantAuthorize(r)
    <3> DEFINE c == [call[r] EXCEPT !.pc = "grant_construct"]
    <3>1. call[r] \in Call /\ c \in Call /\ c.cred = call[r].cred
      <4>1. call[r] \in Call
        BY DEF IInv, TypeOK, CasTypeOK
      <4>2. c \in Call
        BY <4>1, CallRecords DEF PCs, GrantPCs
      <4> QED
        BY <4>1, <4>2 DEF Call
    <3>2. GrantAuthorized(call[r]) /\ Become(r, c)
      BY <2>2, IdleCall, BecomeFacts
         DEF GrantAuthorize, Goto, Leave, At, IInv, TypeOK, CasTypeOK
    <3>3. call'[r] = c
      BY <3>1, <3>2, BecomeFacts DEF IInv, TypeOK, CasTypeOK
    <3> QED
      BY <3>1, <3>2, <3>3 DEF GrantAuthorized, SameAuthentication
  <2> QED
    BY <2>1, <2>2, IntoConstruct
<1> QED
  BY <1>1, <1>2, Invariance, PTL DEF Spec

\* A service ticket comes into being in grantServiceTicket only.
LEMMA NewServiceTicketStep ==
  ASSUME IInv, [Next]_vars, NEW s \in STs, s \notin issued, s \in issued'
  PROVE  \E r \in Requests :
           /\ At(r, "grant_construct")
           /\ st'[s] = NewServiceTicket(call[r].tgt, call[r].service,
                         FromNewLogin(call[r].tgt, call[r].cred))
<1>1. ASSUME NEW r \in Requests, CreateTicketGrantingTicket(r) \/ DelegateSet(r)
      PROVE  FALSE
  <2>1. PICK t \in TGTs : issued' = issued \cup {t}
    BY <1>1 DEF CreateTicketGrantingTicket, DelegateSet
  <2> QED
    BY <2>1
<1>2. ~ UNCHANGED issued
  OBVIOUS
<1>3. PICK r \in Requests : GrantConstruct(r)
  <2>1. ~Clean /\ ~Tick /\ ~ UNCHANGED vars
    BY <1>2
       DEF Clean, CleanScan, CleanServiceTicket, CleanExpire, CleanLogout, CleanDelete,
           CleanDone, Tick, vars, casVars, ticketVars
  <2>2. ASSUME NEW r \in Requests PROVE ~ValidateServiceTicket(r)
    BY <1>2
       DEF ValidateServiceTicket, ValidateLookup, ValidateLock, ValidateExpiry,
           ValidateMatch, ValidateFinally, ticketVars
  <2>3. ASSUME NEW r \in Requests PROVE ~DelegateTicketGrantingTicket(r)
    BY <1>1, <1>2
       DEF DelegateTicketGrantingTicket, DelegateLookup, DelegateExpiry,
           DelegateTest, DelegateRegister, ticketVars
  <2>4. ASSUME NEW r \in Requests PROVE ~DestroyTicketGrantingTicket(r)
    BY <1>2
       DEF DestroyTicketGrantingTicket, DestroyLookup, DestroyExpire, DestroyLogout,
           DestroyDelete, ticketVars
  <2>5. ASSUME NEW r \in Requests, GrantServiceTicket(r) PROVE GrantConstruct(r)
    BY <1>2, <2>5
       DEF GrantServiceTicket, GrantLookup, GrantExpiry, GrantAuthorize, GrantCount,
           GrantUpdate, GrantRecord, GrantRegister, ticketVars
  <2> QED
    BY <1>1, <2>1, <2>2, <2>3, <2>4, <2>5 DEF Next
<1>4. st \in [STs -> ServiceTicket]
  BY DEF IInv, TypeOK, CasTypeOK, TicketsTypeOK
<1> QED
  BY <1>3, <1>4 DEF GrantConstruct

\* A service ticket made after another one of its TGT was returned does not
\* claim to come from a new login.
THEOREM NewLoginIsFirst == Spec => NewLoginOnlyBeforeFirstReturn
<1>1. ASSUME IInv, NoCredentials, [Next]_vars,
             NEW s \in STs, s \notin issued, s \in issued', st'[s].fromNewLogin,
             NEW o \in returned
      PROVE  st[o].tgt # st'[s].tgt
  <2>1. PICK r \in Requests :
          /\ At(r, "grant_construct")
          /\ st'[s] = NewServiceTicket(call[r].tgt, call[r].service,
                        FromNewLogin(call[r].tgt, call[r].cred))
    BY <1>1, NewServiceTicketStep
  <2>2. /\ st'[s].tgt = call[r].tgt
        /\ st'[s].fromNewLogin = FromNewLogin(call[r].tgt, call[r].cred)
    BY <2>1 DEF NewServiceTicket
  <2>3. call[r].cred = None
    BY <1>1, <2>1 DEF NoCredentials
  <2>4. tgt[call[r].tgt].count = 0
    BY <1>1, <2>2, <2>3 DEF FromNewLogin
  <2> QED
    BY <1>1, <2>2, <2>4 DEF IInv, TicketsOK
<1>2. IInv /\ NoCredentials /\ [Next]_vars =>
        \A s \in STs :
          (s \notin issued /\ s \in issued' /\ st'[s].fromNewLogin)
          => \A o \in returned : st[o].tgt # st'[s].tgt
  BY <1>1
<1> QED
  BY <1>2, Invariance, NoCredentialsInv, PTL DEF Spec, NewLoginOnlyBeforeFirstReturn

(***************************************************************************)
(* The ticket core implements the ledger of vouchers                       *)
(***************************************************************************)

\* A step of the server is a step of the ledger, or changes nothing there.
LEMMA LedgerStep == ASSUME IInv, [Next]_vars
                    PROVE  [Ledger!Next]_<<returned, [s \in STs |-> NumberOfUses - st[s].count],
                                           accepted>>
<1> DEFINE Stutter == /\ UNCHANGED <<returned, accepted>>
                      /\ \A s \in STs : st'[s].count = st[s].count
<1>1. /\ st \in [STs -> ServiceTicket] /\ accepted \in [STs -> Nat]
      /\ \A s \in STs : st[s].count \in Nat
  BY DEF IInv, TypeOK, CasTypeOK, TicketsTypeOK, ServiceTicket
<1>2. CASE Stutter
  BY <1>2
<1>3. UNCHANGED <<st, returned, accepted>> => Stutter
  OBVIOUS
<1>4. ASSUME NEW r \in Requests, GrantConstruct(r) PROVE Stutter
  <2>1. PICK s \in STs \ issued :
          st' = [st EXCEPT ![s] = NewServiceTicket(call[r].tgt, call[r].service,
                   FromNewLogin(call[r].tgt, call[r].cred))]
    BY <1>4 DEF GrantConstruct
  <2>2. st[s].count = 0 /\ st'[s].count = 0
    BY <1>1, <2>1 DEF IInv, TicketsOK, NewServiceTicket
  <2> QED
    BY <1>1, <1>4, <2>1, <2>2 DEF GrantConstruct, told
<1>5. ASSUME NEW r \in Requests, DelegateSet(r) PROVE Stutter
  <2> DEFINE s == call[r].st
             new == [st[s] EXCEPT !.grantedTicketAlready = TRUE]
  <2>1. s \in STs
    BY <1>5 DEF DelegateSet, At, IInv, RequestOK, DelegatePCs
  <2>2. st' = [st EXCEPT ![s] = new]
    BY <1>5 DEF DelegateSet
  <2>3. new.count = st[s].count
    BY <1>1, <2>1 DEF ServiceTicket
  <2> QED
    BY <1>1, <1>5, <2>1, <2>2, <2>3 DEF DelegateSet, told
<1>6. ASSUME NEW r \in Requests, GrantRegister(r)
      PROVE  [Ledger!Next]_<<returned, [s \in STs |-> NumberOfUses - st[s].count], accepted>>
  <2>1. call[r].st \in STs
    BY <1>6 DEF GrantRegister, At, IInv, RequestOK, GrantedPCs
  <2> QED
    BY <1>6, <2>1 DEF GrantRegister, Ledger!Next, Ledger!Hand
<1>7. ASSUME NEW r \in Requests, ValidateMatch(r)
      PROVE  [Ledger!Next]_<<returned, [s \in STs |-> NumberOfUses - st[s].count], accepted>>
  <2> DEFINE s == call[r].st
             used == updateState(st[s])
             left == [o \in STs |-> NumberOfUses - st[o].count]
  <2>1. /\ s \in STs /\ s \in returned /\ st[s].count < NumberOfUses
    BY <1>7 DEF ValidateMatch, At, IInv, RequestOK, ValidatePCs
  <2>2. /\ st' = [st EXCEPT ![s] = used] /\ returned' = returned
        /\ accepted' \in {accepted, [accepted EXCEPT ![s] = @ + 1]}
    BY <1>7 DEF ValidateMatch
  <2>3. used.count = st[s].count + 1
    BY <1>1, <2>1, UpdateFacts DEF IInv, TypeOK, CasTypeOK, TicketsTypeOK
  <2>4. \A o \in STs : left'[o] = IF o = s THEN left[s] - 1 ELSE left[o]
    BY <1>1, <2>1, <2>2, <2>3
  <2>5. left[s] > 0
    <3>1. left[s] = NumberOfUses - st[s].count
      BY <2>1
    <3> QED
      BY <1>1, <2>1, <3>1
  <2>6. left' = [left EXCEPT ![s] = @ - 1]
    <3>1. left' = [o \in STs |-> left'[o]] /\ left = [o \in STs |-> left[o]]
      OBVIOUS
    <3> HIDE DEF left
    <3> QED
      BY <2>1, <2>4, <3>1
  <2> QED
    BY <2>1, <2>2, <2>5, <2>6 DEF Ledger!Next, Ledger!Present
<1>8. ASSUME NEW r \in Requests, GrantServiceTicket(r), ~GrantConstruct(r), ~GrantRegister(r)
      PROVE  UNCHANGED <<st, returned, accepted>>
  BY <1>8
     DEF GrantServiceTicket, GrantLookup, GrantExpiry, GrantAuthorize, GrantCount,
         GrantUpdate, GrantRecord, ticketVars, told
<1>9. ASSUME NEW r \in Requests, ValidateServiceTicket(r), ~ValidateMatch(r)
      PROVE  UNCHANGED <<st, returned, accepted>>
  BY <1>9
     DEF ValidateServiceTicket, ValidateLookup, ValidateLock, ValidateExpiry,
         ValidateFinally, ticketVars, told
<1>10. ASSUME NEW r \in Requests, DelegateTicketGrantingTicket(r), ~DelegateSet(r)
       PROVE  UNCHANGED <<st, returned, accepted>>
  BY <1>10
     DEF DelegateTicketGrantingTicket, DelegateLookup, DelegateExpiry, DelegateTest,
         DelegateRegister,
         ticketVars, told
<1>11. ASSUME NEW r \in Requests,
              DestroyTicketGrantingTicket(r) \/ CreateTicketGrantingTicket(r)
       PROVE  UNCHANGED <<st, returned, accepted>>
  BY <1>11
     DEF DestroyTicketGrantingTicket, DestroyLookup, DestroyExpire, DestroyLogout,
         DestroyDelete, CreateTicketGrantingTicket, ticketVars, told
<1>12. Tick /\ UNCHANGED told => UNCHANGED <<st, returned, accepted>>
  BY DEF Tick, told
<1>13. Clean \/ UNCHANGED vars => UNCHANGED <<st, returned, accepted>>
  BY DEF Clean, CleanScan, CleanServiceTicket, CleanExpire, CleanLogout, CleanDelete,
         CleanDone, vars, casVars, ticketVars, told
<1> HIDE DEF Stutter
<1> QED
  BY <1>2, <1>3, <1>4, <1>5, <1>6, <1>7, <1>8, <1>9, <1>10, <1>11, <1>12, <1>13 DEF Next

\* Every behaviour of the server is, for the services that redeem its tickets,
\* a behaviour of the ledger.
THEOREM LedgerRefinement == Spec => ImplementsLedger
<1>1. Init => Ledger!Init
  BY DEF Init, CasInit, TicketsInit, NewServiceTicket, Ledger!Init
<1>2. IInv /\ [Next]_vars =>
        [Ledger!Next]_<<returned, [s \in STs |-> NumberOfUses - st[s].count], accepted>>
  BY LedgerStep
<1> QED
  BY <1>1, <1>2, Invariance, PTL DEF Spec, ImplementsLedger, Ledger!Spec
=============================================================================
