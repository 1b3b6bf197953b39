-------------------------- MODULE TicketLifeProofs --------------------------
(***************************************************************************)
(* Proofs about the end of a ticket: what a destroyed TGT leaves behind,   *)
(* which services a logout reaches, and that expiry is final.  The same    *)
(* generality as in TicketProofs, whose invariant they rest on.            *)
(***************************************************************************)
EXTENDS TicketProofs

USE TicketsAssumption, ServicesAssumption, RequestsAssumption

\* Between two states the dictionary of t is the same, or its version tells.
DictionaryKept(t) ==
  \/ tgt'[t].version = tgt[t].version /\ tgt'[t].services = tgt[t].services
  \/ tgt'[t].version = tgt[t].version + 1

\* What a request relies on, while others move.
LEMMA RequestKept ==
  ASSUME IInv, DestroyIInv, NEW q \in Requests, call'[q] = call[q],
         \A o \in Requests \ {q} :
           call'[o].tgt \in {None, call[o].tgt} \cup registry \cup (TGTs \ issued),
         \A t \in TGTs \cap registry' :
           t \in registry \cup (TGTs \ issued) \/ \E o \in Requests \ {q} : t = call[o].tgt,
         \A t \in destroyed' : t \in destroyed \/ \E o \in Requests \ {q} : t = call[o].tgt,
         notified \subseteq notified',
         \A t \in TGTs \cap issued : DictionaryKept(t)
  PROVE  FreshTicket(q)' /\ EnumeratorOK(q)'
<1>1. FreshTicket(q) /\ EnumeratorOK(q) /\ RequestOK(q)
  BY DEF DestroyIInv, IInv
<1>2. call[q].pc \in DestroyPCs \cup {"delegate_register"} => call[q].tgt \in TGTs \cap issued
  BY <1>1 DEF RequestOK
<1>3. ASSUME At(q, "delegate_register")
      PROVE  /\ call[q].tgt \notin registry' \cup destroyed'
             /\ \A o \in Requests \ {q} : call'[o].tgt # call[q].tgt
  <2>1. call[q].tgt \in TGTs \cap issued /\ call[q].tgt # None
    BY <1>2, <1>3 DEF At
  <2>2. /\ call[q].tgt \notin registry \cup destroyed
        /\ \A o \in Requests \ {q} : call[o].tgt # call[q].tgt
    BY <1>1, <1>3 DEF FreshTicket
  <2> QED
    BY <2>1, <2>2
<1>4. FreshTicket(q)'
  BY <1>3 DEF FreshTicket, At
<1>5. ASSUME At(q, "destroy_logout")
      PROVE  /\ call[q].num <= tgt'[call[q].tgt].version
             /\ call[q].num = tgt'[call[q].tgt].version
                  => tgt'[call[q].tgt].services \subseteq call[q].keys \cup notified'
  <2> DEFINE t == call[q].tgt
  <2>1. t \in TGTs \cap issued
    BY <1>2, <1>5 DEF At, DestroyPCs
  <2>2. /\ call[q].num <= tgt[t].version
        /\ call[q].num = tgt[t].version => tgt[t].services \subseteq call[q].keys \cup notified
    BY <1>1, <1>5 DEF EnumeratorOK
  <2>3. tgt[t].version \in Nat /\ call[q].num \in Nat
    BY <2>1 DEF IInv, TypeOK, CasTypeOK, TicketsTypeOK, TicketGrantingTicket, Call
  <2>4. DictionaryKept(t)
    BY <2>1
  <2> HIDE DEF t
  <2>5. CASE tgt'[t].version = tgt[t].version /\ tgt'[t].services = tgt[t].services
    BY <2>2, <2>5 DEF t
  <2>6. CASE tgt'[t].version = tgt[t].version + 1
    BY <2>2, <2>3, <2>6 DEF t
  <2> QED
    BY <2>4, <2>5, <2>6 DEF DictionaryKept
<1>6. EnumeratorOK(q)'
  BY <1>5 DEF EnumeratorOK, At
<1> QED
  BY <1>4, <1>6

\* A step of one request, and what is left to show of it.
LEMMA RequestStep ==
  ASSUME IInv, DestroyIInv, NEW r \in Requests,
         \A o \in Requests \ {r} : call'[o] = call[o],
         call'[r].tgt \in {None, call[r].tgt} \cup registry \cup (TGTs \ issued),
         \A t \in TGTs \cap registry' :
           t \in registry \cup (TGTs \ issued) \/ t = call[r].tgt,
         \A t \in destroyed' : t \in destroyed \/ t = call[r].tgt,
         notified \subseteq notified',
         \A t \in TGTs \cap issued : DictionaryKept(t),
         destroyed' \subseteq TGTs \cap issued', destroyed' \cap registry' = {},
         FreshTicket(r)', EnumeratorOK(r)'
  PROVE  DestroyIInv'
<1>1. ASSUME NEW q \in Requests \ {r} PROVE FreshTicket(q)' /\ EnumeratorOK(q)'
  <2>1. \A o \in Requests \ {q} :
           call'[o].tgt \in {None, call[o].tgt} \cup registry \cup (TGTs \ issued)
    BY <1>1
  <2>2. r \in Requests \ {q} /\ q \in Requests /\ call'[q] = call[q]
    BY <1>1
  <2> QED
    BY <2>1, <2>2, RequestKept
<1> QED
  BY <1>1 DEF DestroyIInv, DestroyedNotRegistered

\* A step of one request that neither destroys nor makes a TGT.
LEMMA QuietStep ==
  ASSUME IInv, DestroyIInv, NEW r \in Requests,
         \A o \in Requests \ {r} : call'[o] = call[o],
         call'[r].pc \notin {"destroy_logout", "delegate_register"},
         call'[r].tgt \in {None, call[r].tgt} \cup registry,
         TGTs \cap registry' \subseteq registry,
         issued \subseteq issued', destroyed' = destroyed, notified \subseteq notified',
         \A t \in TGTs \cap issued : DictionaryKept(t)
  PROVE  DestroyIInv'
<1>1. destroyed' \subseteq TGTs \cap issued' /\ destroyed' \cap registry' = {}
  BY DEF DestroyIInv, DestroyedNotRegistered
<1>2. FreshTicket(r)' /\ EnumeratorOK(r)'
  BY DEF FreshTicket, EnumeratorOK, At
<1> QED
  BY <1>1, <1>2, RequestStep

\* A step no request takes.
LEMMA OutsideStep ==
  ASSUME IInv, DestroyIInv, UNCHANGED <<call, destroyed>>,
         \A t \in TGTs \cap registry' : t \in registry \cup (TGTs \ issued),
         destroyed \cap registry' = {},
         issued \subseteq issued', notified \subseteq notified',
         \A t \in TGTs \cap issued : DictionaryKept(t)
  PROVE  DestroyIInv'
<1>1. ASSUME NEW q \in Requests PROVE FreshTicket(q)' /\ EnumeratorOK(q)'
  BY <1>1, RequestKept
<1>2. destroyed' \subseteq TGTs \cap issued'
  BY DEF DestroyIInv
<1> QED
  BY <1>1, <1>2 DEF DestroyIInv, DestroyedNotRegistered

\* How a request goes on.
LEMMA GotoFacts ==
  ASSUME TypeOK, NEW r \in Requests, NEW pc, Goto(r, pc)
  PROVE  /\ call'[r].pc = pc /\ call'[r].tgt = call[r].tgt
         /\ call'[r].num = call[r].num /\ call'[r].keys = call[r].keys
         /\ \A o \in Requests \ {r} : call'[o] = call[o]
<1>1. call \in [Requests -> Call] /\ call[r] \in Call
  BY DEF TypeOK, CasTypeOK
<1>2. PICK c : c = [call[r] EXCEPT !.pc = pc] /\ call' = [call EXCEPT ![r] = c]
  BY DEF Goto, Become
<1>3. c.pc = pc /\ c.tgt = call[r].tgt /\ c.num = call[r].num /\ c.keys = call[r].keys
  BY <1>1, <1>2 DEF Call
<1> QED
  BY <1>1, <1>2, <1>3

LEMMA LeaveFacts ==
  ASSUME TypeOK, NEW r \in Requests, Leave(r)
  PROVE  /\ call'[r].pc = "idle" /\ call'[r].tgt = None
         /\ \A o \in Requests \ {r} : call'[o] = call[o]
BY IdleCall, BecomeFacts DEF Leave, TypeOK, CasTypeOK

\* The dictionary is the same when the tickets are.
LEMMA SameDictionaries == UNCHANGED tgt => \A t \in TGTs \cap issued : DictionaryKept(t)
BY DEF DictionaryKept

\* One ticket is replaced.
LEMMA DictionaryStep ==
  ASSUME TypeOK, NEW t \in TGTs, NEW ticket, tgt' = [tgt EXCEPT ![t] = ticket],
         \/ ticket.version = tgt[t].version /\ ticket.services = tgt[t].services
         \/ ticket.version = tgt[t].version + 1
         \/ t \notin issued
  PROVE  \A u \in TGTs \cap issued : DictionaryKept(u)
BY DEF DictionaryKept, TypeOK, CasTypeOK, TicketsTypeOK

(***************************************************************************)
(* The steps                                                               *)
(***************************************************************************)

\* A request that goes on or ends, and changes no TGT.
LEMMA ControlQuiet ==
  ASSUME IInv, DestroyIInv, NEW r \in Requests,
         \/ Leave(r)
         \/ \E pc : Goto(r, pc) /\ pc \notin {"destroy_logout", "delegate_register"},
         TGTs \cap registry' \subseteq registry,
         UNCHANGED <<issued, tgt, notified, destroyed>>
  PROVE  DestroyIInv'
<1>1. TypeOK
  BY DEF IInv
<1>2. /\ call'[r].pc \notin {"destroy_logout", "delegate_register"}
      /\ call'[r].tgt \in {None, call[r].tgt}
      /\ \A o \in Requests \ {r} : call'[o] = call[o]
  <2>1. CASE Leave(r)
    BY <1>1, <2>1, LeaveFacts
  <2>2. CASE \E pc : Goto(r, pc) /\ pc \notin {"destroy_logout", "delegate_register"}
    BY <1>1, <2>2, GotoFacts
  <2> QED
    BY <2>1, <2>2
<1> QED
  BY <1>2, SameDictionaries, QuietStep

\* A request that starts a call, on a ticket it has found in the registry.
LEMMA LookupQuiet ==
  ASSUME IInv, DestroyIInv, NEW r \in Requests, NEW c \in Call, Enter(r, c),
         c.pc \notin {"destroy_logout", "delegate_register"}, c.tgt \in {None} \cup registry,
         UNCHANGED <<ticketVars, told>>
  PROVE  DestroyIInv'
<1>1. call'[r] = c /\ \A o \in Requests \ {r} : call'[o] = call[o]
  BY BecomeFacts DEF Enter, IInv, TypeOK, CasTypeOK
<1>2. UNCHANGED <<issued, tgt, registry, notified, destroyed>>
  BY DEF ticketVars, told
<1> QED
  BY <1>1, <1>2, SameDictionaries, QuietStep

LEMMA LookupsLife ==
  ASSUME IInv, DestroyIInv, NEW r \in Requests,
         GrantLookup(r) \/ ValidateLookup(r) \/ DelegateLookup(r) \/ DestroyLookup(r)
  PROVE  DestroyIInv'
<1>1. CASE GrantLookup(r)
  <2>1. PICK t \in TGTs \cap registry, service \in Services, cred \in Users \cup {None} :
          Enter(r, [Idle EXCEPT !.pc = "grant_expiry", !.tgt = t,
                                !.service = service, !.cred = cred])
    BY <1>1 DEF GrantLookup
  <2> DEFINE c == [Idle EXCEPT !.pc = "grant_expiry", !.tgt = t,
                               !.service = service, !.cred = cred]
  <2>2. c \in Call /\ c.pc = "grant_expiry" /\ c.tgt = t
    BY IdleCall DEF Idle, Call, PCs, GrantPCs
  <2> QED
    BY <1>1, <2>1, <2>2, LookupQuiet DEF GrantLookup
<1>2. CASE ValidateLookup(r)
  <2>1. PICK s \in STs \cap registry, service \in Enabled :
          Enter(r, [Idle EXCEPT !.pc = "validate_lock", !.st = s, !.service = service])
    BY <1>2 DEF ValidateLookup
  <2> DEFINE c == [Idle EXCEPT !.pc = "validate_lock", !.st = s, !.service = service]
  <2>2. c \in Call /\ c.pc = "validate_lock" /\ c.tgt = None
    BY IdleCall DEF Idle, Call, PCs, ValidatePCs
  <2> QED
    BY <1>2, <2>1, <2>2, LookupQuiet DEF ValidateLookup
<1>3. CASE DelegateLookup(r)
  <2>1. PICK s \in STs \cap registry, u \in Users :
          Enter(r, [Idle EXCEPT !.pc = "delegate_expiry", !.st = s, !.cred = u])
    BY <1>3 DEF DelegateLookup
  <2> DEFINE c == [Idle EXCEPT !.pc = "delegate_expiry", !.st = s, !.cred = u]
  <2>2. c \in Call /\ c.pc = "delegate_expiry" /\ c.tgt = None
    BY IdleCall DEF Idle, Call, PCs, DelegatePCs
  <2> QED
    BY <1>3, <2>1, <2>2, LookupQuiet DEF DelegateLookup
<1>4. CASE DestroyLookup(r)
  <2>1. PICK t \in TGTs \cap registry :
          Enter(r, [Idle EXCEPT !.pc = "destroy_expire", !.tgt = t])
    BY <1>4 DEF DestroyLookup
  <2> DEFINE c == [Idle EXCEPT !.pc = "destroy_expire", !.tgt = t]
  <2>2. c \in Call /\ c.pc = "destroy_expire" /\ c.tgt = t
    BY IdleCall DEF Idle, Call, PCs, DestroyPCs
  <2> QED
    BY <1>4, <2>1, <2>2, LookupQuiet DEF DestroyLookup
<1> QED
  BY <1>1, <1>2, <1>3, <1>4

LEMMA ControlLife ==
  ASSUME IInv, DestroyIInv, NEW r \in Requests,
         \/ GrantExpiry(r) \/ GrantAuthorize(r) \/ GrantRegister(r)
         \/ ValidateLock(r) \/ ValidateExpiry(r) \/ ValidateMatch(r) \/ ValidateFinally(r)
         \/ DelegateExpiry(r) \/ DelegateTest(r)
  PROVE  DestroyIInv'
<1>1. \/ Leave(r)
      \/ \E pc : Goto(r, pc) /\ pc \notin {"destroy_logout", "delegate_register"}
  BY DEF GrantExpiry, GrantAuthorize, GrantRegister, ValidateLock, ValidateExpiry,
         ValidateMatch, ValidateFinally, DelegateExpiry, DelegateTest
<1>2. UNCHANGED <<issued, tgt, notified, destroyed>>
  BY DEF GrantExpiry, GrantAuthorize, GrantRegister, ValidateLock, ValidateExpiry,
         ValidateMatch, ValidateFinally, DelegateExpiry, DelegateTest, ticketVars, told
<1>3. TGTs \cap registry' \subseteq registry
  <2>1. CASE GrantRegister(r)
    <3>1. call[r].st \in STs
      BY <2>1 DEF GrantRegister, At, IInv, RequestOK, GrantedPCs
    <3> QED
      BY <2>1, <3>1 DEF GrantRegister, addTicket
  <2>2. CASE ~GrantRegister(r)
    BY <2>2 DEF GrantExpiry, GrantAuthorize, ValidateLock, ValidateExpiry, deleteTicket,
         ValidateMatch, ValidateFinally, DelegateExpiry, DelegateTest, ticketVars
  <2> QED
    BY <2>1, <2>2
<1> QED
  BY <1>1, <1>2, <1>3, ControlQuiet

\* A grant changes the TGT's counters, its dictionary only together with the version.
LEMMA GrantLife ==
  ASSUME IInv, DestroyIInv, NEW r \in Requests,
         GrantConstruct(r) \/ GrantCount(r) \/ GrantUpdate(r) \/ GrantRecord(r)
  PROVE  DestroyIInv'
<1> DEFINE t == call[r].tgt
<1>1. TypeOK /\ call \in [Requests -> Call] /\ call[r] \in Call /\ RequestOK(r)
  BY DEF IInv, TypeOK, CasTypeOK
<1>2. t \in TGTs /\ tgt[t] \in TicketGrantingTicket
  <2>1. t \in TGTs
    BY <1>1 DEF GrantConstruct, GrantCount, GrantUpdate, GrantRecord, At, RequestOK,
                GrantPCs, GrantedPCs
  <2> QED
    BY <2>1 DEF IInv, TypeOK, CasTypeOK, TicketsTypeOK
<1>3. CASE GrantConstruct(r)
  <2>1. PICK s \in STs \ issued :
          /\ issued' = issued \cup {s}
          /\ Become(r, [call[r] EXCEPT !.pc = "grant_count", !.st = s])
    BY <1>3 DEF GrantConstruct
  <2>2. PICK c : c = [call[r] EXCEPT !.pc = "grant_count", !.st = s] /\ Become(r, c)
    BY <2>1
  <2>3. c \in Call /\ c.pc = "grant_count" /\ c.tgt = t
    BY <1>1, <2>2 DEF Call, PCs, GrantPCs, GrantedPCs
  <2>4. call'[r] = c /\ \A o \in Requests \ {r} : call'[o] = call[o]
    BY <1>1, <2>2, <2>3, BecomeFacts
  <2>5. UNCHANGED <<tgt, registry, notified, destroyed>>
    BY <1>3 DEF GrantConstruct, told
  <2> QED
    BY <2>1, <2>3, <2>4, <2>5, SameDictionaries, QuietStep
<1>4. CASE GrantCount(r)
  <2>1. PICK c : c = [call[r] EXCEPT !.pc = "grant_update", !.num = tgt[t].count] /\ Become(r, c)
    BY <1>4 DEF GrantCount
  <2>2. c \in Call /\ c.pc = "grant_update" /\ c.tgt = t
    BY <1>1, <1>2, <2>1 DEF Call, PCs, GrantPCs, GrantedPCs, TicketGrantingTicket
  <2>3. call'[r] = c /\ \A o \in Requests \ {r} : call'[o] = call[o]
    BY <1>1, <2>1, <2>2, BecomeFacts
  <2>4. UNCHANGED <<issued, registry, notified, destroyed>>
    BY <1>4 DEF GrantCount, told
  <2>5. PICK ticket : ticket = [tgt[t] EXCEPT !.lastUsed = now] /\ tgt' = [tgt EXCEPT ![t] = ticket]
    BY <1>4 DEF GrantCount
  <2>6. ticket.version = tgt[t].version /\ ticket.services = tgt[t].services
    BY <1>2, <2>5 DEF TicketGrantingTicket
  <2>7. \A u \in TGTs \cap issued : DictionaryKept(u)
    <3> HIDE DEF t
    <3> QED
      BY <1>1, <1>2, <2>5, <2>6, DictionaryStep
  <2> QED
    BY <2>2, <2>3, <2>4, <2>7, QuietStep
<1>5. CASE GrantUpdate(r)
  <2>1. PICK c : c = [call[r] EXCEPT !.pc = "grant_record", !.keys = tgt[t].services] /\ Become(r, c)
    BY <1>5 DEF GrantUpdate
  <2>2. c \in Call /\ c.pc = "grant_record" /\ c.tgt = t
    BY <1>1, <1>2, <2>1 DEF Call, PCs, GrantPCs, GrantedPCs, TicketGrantingTicket
  <2>3. call'[r] = c /\ \A o \in Requests \ {r} : call'[o] = call[o]
    BY <1>1, <2>1, <2>2, BecomeFacts
  <2>4. UNCHANGED <<issued, registry, notified, destroyed>>
    BY <1>5 DEF GrantUpdate, told
  <2>5. PICK ticket : /\ ticket = [tgt[t] EXCEPT !.count = call[r].num + 1]
                      /\ tgt' = [tgt EXCEPT ![t] = ticket]
    BY <1>5 DEF GrantUpdate
  <2>6. ticket.version = tgt[t].version /\ ticket.services = tgt[t].services
    BY <1>2, <2>5 DEF TicketGrantingTicket
  <2>7. \A u \in TGTs \cap issued : DictionaryKept(u)
    <3> HIDE DEF t
    <3> QED
      BY <1>1, <1>2, <2>5, <2>6, DictionaryStep
  <2> QED
    BY <2>2, <2>3, <2>4, <2>7, QuietStep
<1>6. CASE GrantRecord(r)
  <2>1. UNCHANGED <<issued, registry, notified, destroyed>>
    BY <1>6 DEF GrantRecord, told
  <2>2. CASE Leave(r) /\ UNCHANGED tgt
    BY <2>1, <2>2, ControlQuiet
  <2>3. ASSUME NEW k, Goto(r, "grant_register"),
               tgt' = [tgt EXCEPT ![t] = Recorded(tgt[t], k)]
        PROVE  DestroyIInv'
    <3>1. PICK ticket : ticket = Recorded(tgt[t], k) /\ tgt' = [tgt EXCEPT ![t] = ticket]
      BY <2>3
    <3>2. ticket.version = tgt[t].version + 1
      BY <1>2, <3>1 DEF Recorded, TicketGrantingTicket
    <3>3. \A u \in TGTs \cap issued : DictionaryKept(u)
      <4> HIDE DEF t
      <4> QED
        BY <1>1, <1>2, <3>1, <3>2, DictionaryStep
    <3>4. /\ call'[r].pc = "grant_register" /\ call'[r].tgt = call[r].tgt
          /\ \A o \in Requests \ {r} : call'[o] = call[o]
      BY <1>1, <2>3, GotoFacts
    <3> QED
      BY <2>1, <3>3, <3>4, QuietStep
  <2> QED
    BY <1>6, <2>2, <2>3 DEF GrantRecord
<1> QED
  BY <1>3, <1>4, <1>5, <1>6

\* No call knows an identifier that has not been issued.
LEMMA NewIsUnknown ==
  ASSUME IInv, NEW o \in Requests, NEW t \in TGTs \ issued
  PROVE  call[o].tgt # t
BY DEF IInv, RequestOK

\* The TGT a delegation makes is known to that call alone.
LEMMA DelegateSetLife ==
  ASSUME IInv, DestroyIInv, NEW r \in Requests, DelegateSet(r) PROVE DestroyIInv'
<1>1. PICK t \in TGTs \ issued :
        /\ issued' = issued \cup {t}
        /\ \E ticket : tgt' = [tgt EXCEPT ![t] = ticket]
        /\ Become(r, [call[r] EXCEPT !.pc = "delegate_register", !.tgt = t])
  BY DEF DelegateSet
<1>2. UNCHANGED <<registry, notified, destroyed>>
  BY DEF DelegateSet, told
<1>3. TypeOK /\ call \in [Requests -> Call] /\ call[r] \in Call
  BY DEF IInv, TypeOK, CasTypeOK
<1>4. PICK c : c = [call[r] EXCEPT !.pc = "delegate_register", !.tgt = t] /\ Become(r, c)
  BY <1>1
<1>5. c \in Call /\ c.pc = "delegate_register" /\ c.tgt = t
  BY <1>3, <1>4 DEF Call, PCs, DelegatePCs
<1>6. call'[r] = c /\ \A o \in Requests \ {r} : call'[o] = call[o]
  BY <1>3, <1>4, <1>5, BecomeFacts
<1>7. \A u \in TGTs \cap issued : DictionaryKept(u)
  BY <1>1, <1>3, DictionaryStep
<1>8. FreshTicket(r)'
  <2>1. t \notin registry \cup destroyed
    BY DEF IInv, TicketsOK, DestroyIInv
  <2>2. \A o \in Requests \ {r} : call[o].tgt # t
    BY NewIsUnknown
  <2> QED
    BY <1>2, <1>5, <1>6, <2>1, <2>2 DEF FreshTicket
<1>9. EnumeratorOK(r)'
  BY <1>5, <1>6 DEF EnumeratorOK, At
<1>10. destroyed' \subseteq TGTs \cap issued' /\ destroyed' \cap registry' = {}
  BY <1>1, <1>2 DEF DestroyIInv, DestroyedNotRegistered
<1> QED
  BY <1>2, <1>5, <1>6, <1>7, <1>8, <1>9, <1>10, RequestStep

\* So it has not been destroyed when it is registered.
LEMMA DelegateRegisterLife ==
  ASSUME IInv, DestroyIInv, NEW r \in Requests, DelegateRegister(r) PROVE DestroyIInv'
<1>1. /\ At(r, "delegate_register") /\ Leave(r)
      /\ registry' = registry \cup {call[r].tgt}
      /\ UNCHANGED <<issued, tgt, notified, destroyed>>
  BY DEF DelegateRegister, addTicket, told
<1>2. /\ call'[r].pc = "idle" /\ call'[r].tgt = None
      /\ \A o \in Requests \ {r} : call'[o] = call[o]
  BY <1>1, LeaveFacts DEF IInv
<1>3. call[r].tgt \notin destroyed
  BY <1>1 DEF DestroyIInv, FreshTicket
<1>4. destroyed' \subseteq TGTs \cap issued' /\ destroyed' \cap registry' = {}
  BY <1>1, <1>3 DEF DestroyIInv, DestroyedNotRegistered
<1>5. FreshTicket(r)' /\ EnumeratorOK(r)'
  BY <1>2 DEF FreshTicket, EnumeratorOK, At
<1> QED
  BY <1>1, <1>2, <1>4, <1>5, SameDictionaries, RequestStep

\* The enumerator starts with the whole dictionary and its version.
LEMMA DestroyExpireLife ==
  ASSUME IInv, DestroyIInv, NEW r \in Requests, DestroyExpire(r) PROVE DestroyIInv'
<1> DEFINE t == call[r].tgt
<1>1. TypeOK /\ call \in [Requests -> Call] /\ call[r] \in Call /\ RequestOK(r)
  BY DEF IInv, TypeOK, CasTypeOK
<1>2. t \in TGTs /\ tgt[t] \in TicketGrantingTicket
  <2>1. t \in TGTs
    BY <1>1 DEF DestroyExpire, At, RequestOK, DestroyPCs
  <2> QED
    BY <2>1 DEF IInv, TypeOK, CasTypeOK, TicketsTypeOK
<1>3. PICK c : /\ c = [call[r] EXCEPT !.pc = "destroy_logout", !.num = tgt[t].version,
                                      !.keys = tgt[t].services]
               /\ Become(r, c)
  BY DEF DestroyExpire
<1>4. /\ c \in Call /\ c.pc = "destroy_logout" /\ c.tgt = t
      /\ c.num = tgt[t].version /\ c.keys = tgt[t].services
  BY <1>1, <1>2, <1>3 DEF Call, PCs, DestroyPCs, TicketGrantingTicket
<1>5. call'[r] = c /\ \A o \in Requests \ {r} : call'[o] = call[o]
  BY <1>1, <1>3, <1>4, BecomeFacts
<1>6. PICK ticket : ticket = [tgt[t] EXCEPT !.expired = TRUE] /\ tgt' = [tgt EXCEPT ![t] = ticket]
  BY DEF DestroyExpire
<1>7. /\ ticket.version = tgt[t].version /\ ticket.services = tgt[t].services
      /\ tgt[t].version \in Nat
  BY <1>2, <1>6 DEF TicketGrantingTicket
<1>8. UNCHANGED <<issued, registry, notified, destroyed>>
  BY DEF DestroyExpire, told
<1> HIDE DEF t
<1>9. \A u \in TGTs \cap issued : DictionaryKept(u)
  BY <1>1, <1>2, <1>6, <1>7, DictionaryStep
<1>10. tgt'[t] = ticket
  BY <1>1, <1>2, <1>6 DEF TypeOK, CasTypeOK, TicketsTypeOK
<1>11. EnumeratorOK(r)'
  BY <1>4, <1>5, <1>7, <1>10 DEF EnumeratorOK
<1>12. FreshTicket(r)'
  BY <1>4, <1>5 DEF FreshTicket, At
<1>13. destroyed' \subseteq TGTs \cap issued' /\ destroyed' \cap registry' = {}
  BY <1>8 DEF DestroyIInv, DestroyedNotRegistered
<1>14. call'[r].tgt = call[r].tgt
  BY <1>4, <1>5 DEF t
<1> QED
  BY <1>5, <1>8, <1>9, <1>11, <1>12, <1>13, <1>14, RequestStep

\* Each MoveNext sends a message, unless the version has changed.
LEMMA DestroyLogoutLife ==
  ASSUME IInv, DestroyIInv, NEW r \in Requests, DestroyLogout(r) PROVE DestroyIInv'
<1>1. At(r, "destroy_logout") /\ UNCHANGED <<issued, tgt, registry, destroyed>>
  BY DEF DestroyLogout, told
<1>2. CASE Leave(r) /\ UNCHANGED notified
  BY <1>1, <1>2, ControlQuiet
<1>3. CASE Goto(r, "destroy_delete") /\ UNCHANGED notified
  BY <1>1, <1>3, ControlQuiet
<1>4. ASSUME NEW s \in call[r].keys, notified' = notified \cup {s},
             Become(r, [call[r] EXCEPT !.keys = @ \ {s}])
      PROVE  DestroyIInv'
  <2>1. call \in [Requests -> Call] /\ call[r] \in Call
    BY DEF IInv, TypeOK, CasTypeOK
  <2>2. PICK c : c = [call[r] EXCEPT !.keys = @ \ {s}] /\ Become(r, c)
    BY <1>4
  <2>3. /\ c \in Call /\ c.pc = "destroy_logout" /\ c.tgt = call[r].tgt
        /\ c.num = call[r].num /\ c.keys = call[r].keys \ {s}
    BY <1>1, <2>1, <2>2 DEF Call, At
  <2>4. call'[r] = c /\ \A o \in Requests \ {r} : call'[o] = call[o]
    BY <2>1, <2>2, <2>3, BecomeFacts
  <2>5. EnumeratorOK(r)'
    <3>1. EnumeratorOK(r)
      BY DEF DestroyIInv
    <3>2. tgt' = tgt /\ call[r].keys \cup notified = c.keys \cup notified'
      BY <1>1, <1>4, <2>3
    <3> QED
      BY <1>1, <2>3, <2>4, <3>1, <3>2 DEF EnumeratorOK, At
  <2>6. FreshTicket(r)'
    BY <2>3, <2>4 DEF FreshTicket, At
  <2>7. destroyed' \subseteq TGTs \cap issued' /\ destroyed' \cap registry' = {}
    BY <1>1 DEF DestroyIInv, DestroyedNotRegistered
  <2> QED
    BY <1>1, <1>4, <2>3, <2>4, <2>5, <2>6, <2>7, SameDictionaries, RequestStep
<1> QED
  BY <1>2, <1>3, <1>4 DEF DestroyLogout

LEMMA DestroyDeleteLife ==
  ASSUME IInv, DestroyIInv, NEW r \in Requests, DestroyDelete(r) PROVE DestroyIInv'
<1>1. /\ At(r, "destroy_delete") /\ Leave(r)
      /\ registry' = registry \ {call[r].tgt} /\ destroyed' = destroyed \cup {call[r].tgt}
      /\ UNCHANGED <<issued, tgt, notified>>
  BY DEF DestroyDelete, deleteTicket
<1>2. /\ call'[r].pc = "idle" /\ call'[r].tgt = None
      /\ \A o \in Requests \ {r} : call'[o] = call[o]
  BY <1>1, LeaveFacts DEF IInv
<1>3. call[r].tgt \in TGTs \cap issued
  BY <1>1 DEF IInv, RequestOK, At, DestroyPCs
<1>4. destroyed' \subseteq TGTs \cap issued' /\ destroyed' \cap registry' = {}
  BY <1>1, <1>3 DEF DestroyIInv, DestroyedNotRegistered
<1>5. FreshTicket(r)' /\ EnumeratorOK(r)'
  BY <1>2 DEF FreshTicket, EnumeratorOK, At
<1> QED
  BY <1>1, <1>2, <1>4, <1>5, SameDictionaries, RequestStep

LEMMA CreateLife ==
  ASSUME IInv, DestroyIInv, NEW r \in Requests, CreateTicketGrantingTicket(r)
  PROVE  DestroyIInv'
<1>1. PICK t \in TGTs \ issued :
        /\ issued' = issued \cup {t} /\ registry' = registry \cup {t}
        /\ \E ticket : tgt' = [tgt EXCEPT ![t] = ticket]
        /\ UNCHANGED <<notified, call, destroyed>>
  BY DEF CreateTicketGrantingTicket, addTicket, told
<1>2. \A u \in TGTs \cap issued : DictionaryKept(u)
  BY <1>1, DictionaryStep DEF IInv
<1>3. destroyed \cap registry' = {}
  BY <1>1 DEF DestroyIInv, DestroyedNotRegistered
<1> QED
  BY <1>1, <1>2, <1>3, OutsideStep

LEMMA CleanLife == ASSUME IInv, DestroyIInv, Clean PROVE DestroyIInv'
<1>1. /\ UNCHANGED <<issued, call, destroyed>>
      /\ registry' \subseteq registry /\ notified \subseteq notified'
  BY DEF Clean, CleanScan, CleanServiceTicket, CleanExpire, CleanLogout, CleanDelete,
         CleanDone, casVars, ticketVars, told, deleteTicket
<1>2. \A u \in TGTs \cap issued : DictionaryKept(u)
  <2>1. CASE CleanExpire
    <3>1. PICK t \in cleaner.todo \cap TGTs :
            tgt' = [tgt EXCEPT ![t] = [tgt[t] EXCEPT !.expired = TRUE]]
      BY <2>1 DEF CleanExpire
    <3>2. tgt[t] \in TicketGrantingTicket
      BY DEF IInv, TypeOK, CasTypeOK, TicketsTypeOK
    <3>3. PICK ticket : /\ ticket = [tgt[t] EXCEPT !.expired = TRUE]
                        /\ tgt' = [tgt EXCEPT ![t] = ticket]
      BY <3>1
    <3>4. ticket.version = tgt[t].version /\ ticket.services = tgt[t].services
      BY <3>2, <3>3 DEF TicketGrantingTicket
    <3> QED
      BY <3>3, <3>4, DictionaryStep DEF IInv
  <2>2. CASE ~CleanExpire
    BY <2>2, SameDictionaries
       DEF Clean, CleanScan, CleanServiceTicket, CleanLogout, CleanDelete, CleanDone,
           casVars, ticketVars
  <2> QED
    BY <2>1, <2>2
<1>3. destroyed \cap registry' = {}
  BY <1>1 DEF DestroyIInv, DestroyedNotRegistered
<1> QED
  BY <1>1, <1>2, <1>3, OutsideStep

(***************************************************************************)
(* The theorems                                                            *)
(***************************************************************************)

LEMMA LifeInit == Init => DestroyIInv
<1> SUFFICES ASSUME Init PROVE DestroyIInv
  OBVIOUS
<1>1. destroyed = {} /\ \A r \in Requests : call[r].pc = "idle"
  BY IdleCall DEF Init, CasInit
<1> QED
  BY <1>1 DEF DestroyIInv, DestroyedNotRegistered, FreshTicket, EnumeratorOK, At

LEMMA LifeNext == ASSUME IInv, DestroyIInv, [Next]_vars PROVE DestroyIInv'
<1>1. ASSUME NEW r \in Requests, GrantServiceTicket(r) PROVE DestroyIInv'
  BY <1>1, LookupsLife, ControlLife, GrantLife DEF GrantServiceTicket
<1>2. ASSUME NEW r \in Requests, ValidateServiceTicket(r) PROVE DestroyIInv'
  BY <1>2, LookupsLife, ControlLife DEF ValidateServiceTicket
<1>3. ASSUME NEW r \in Requests, DelegateTicketGrantingTicket(r) PROVE DestroyIInv'
  BY <1>3, LookupsLife, ControlLife, DelegateSetLife, DelegateRegisterLife
     DEF DelegateTicketGrantingTicket
<1>4. ASSUME NEW r \in Requests, DestroyTicketGrantingTicket(r) PROVE DestroyIInv'
  BY <1>4, LookupsLife, DestroyExpireLife, DestroyLogoutLife, DestroyDeleteLife
     DEF DestroyTicketGrantingTicket
<1>5. CASE (Tick /\ UNCHANGED <<call, monitor, told, cleaner>>) \/ UNCHANGED vars
  <2>1. UNCHANGED <<issued, tgt, registry, notified, call, destroyed>>
    BY <1>5 DEF Tick, vars, casVars, ticketVars, told
  <2> QED
    BY <2>1, SameDictionaries, OutsideStep DEF DestroyIInv, DestroyedNotRegistered
<1> QED
  BY <1>1, <1>2, <1>3, <1>4, <1>5, CreateLife, CleanLife DEF Next

LEMMA LifeInvariance == Spec => [](IInv /\ DestroyIInv)
<1>1. Init => DestroyIInv
  BY LifeInit
<1>2. IInv /\ DestroyIInv /\ [Next]_vars => DestroyIInv'
  BY LifeNext
<1>3. Spec => []IInv
  BY Invariance
<1> QED
  BY <1>1, <1>2, <1>3, PTL DEF Spec

\* A TGT that is made by a delegation is known to that call alone until it is registered,
\* and an enumeration is never behind the dictionary without noticing it.
THEOREM DestroyInvariant == Spec => []DestroyIInv
<1> QED
  BY LifeInvariance, PTL

\* Nothing puts a destroyed TGT back into the registry.
THEOREM DestroyedStaysOut == Spec => []DestroyedNotRegistered
<1>1. DestroyIInv => DestroyedNotRegistered
  BY DEF DestroyIInv
<1> QED
  BY <1>1, DestroyInvariant, PTL

\* A step of one request leaves the local variables of the others alone.
LEMMA OneMoves ==
  ASSUME IInv, NEW q \in Requests, NEW r \in Requests \ {q},
         \/ CreateTicketGrantingTicket(q) \/ GrantServiceTicket(q)
         \/ ValidateServiceTicket(q) \/ DelegateTicketGrantingTicket(q)
         \/ DestroyTicketGrantingTicket(q)
  PROVE  call'[r] = call[r]
<1>1. call \in [Requests -> Call]
  BY DEF IInv, TypeOK, CasTypeOK
<1>2. ASSUME NEW c, Become(q, c) PROVE call'[r] = call[r]
  BY <1>1, <1>2 DEF Become
<1>3. CASE CreateTicketGrantingTicket(q)
  BY <1>3 DEF CreateTicketGrantingTicket
<1>4. CASE GrantServiceTicket(q)
  BY <1>2, <1>4
     DEF GrantServiceTicket, GrantLookup, GrantExpiry, GrantAuthorize, GrantConstruct,
         GrantCount, GrantUpdate, GrantRecord, GrantRegister, Enter, Goto, Leave
<1>5. CASE ValidateServiceTicket(q)
  BY <1>2, <1>5
     DEF ValidateServiceTicket, ValidateLookup, ValidateLock, ValidateExpiry,
         ValidateMatch, ValidateFinally, Enter, Goto, Leave
<1>6. CASE DelegateTicketGrantingTicket(q)
  BY <1>2, <1>6
     DEF DelegateTicketGrantingTicket, DelegateLookup, DelegateExpiry, DelegateTest,
         DelegateSet, DelegateRegister, Enter, Goto, Leave
<1>7. CASE DestroyTicketGrantingTicket(q)
  BY <1>2, <1>7
     DEF DestroyTicketGrantingTicket, DestroyLookup, DestroyExpire, DestroyLogout,
         DestroyDelete, Enter, Goto, Leave
<1> QED
  BY <1>3, <1>4, <1>5, <1>6, <1>7

\* The deletion follows the end of the enumeration, and nothing else.
LEMMA IntoDelete ==
  ASSUME IInv, [Next]_vars, NEW r \in Requests,
         At(r, "destroy_logout"), At(r, "destroy_delete")'
  PROVE  ~Modified(call[r].tgt, call[r].num) /\ call[r].keys = {} /\ UNCHANGED notified
<1>1. call'[r] # call[r]
  BY DEF At
<1>2. DestroyLogout(r)
  <2>1. PICK q \in Requests :
          \/ CreateTicketGrantingTicket(q) \/ GrantServiceTicket(q)
          \/ ValidateServiceTicket(q) \/ DelegateTicketGrantingTicket(q)
          \/ DestroyTicketGrantingTicket(q)
    <3>1. ~Clean /\ ~UNCHANGED call
      BY <1>1 DEF Clean, CleanScan, CleanServiceTicket, CleanExpire, CleanLogout,
                  CleanDelete, CleanDone, casVars
    <3> QED
      BY <3>1 DEF Next, vars, casVars
  <2>2. q = r
    BY <1>1, <2>1, OneMoves
  <2> QED
    BY <2>1, <2>2
       DEF CreateTicketGrantingTicket, GrantServiceTicket, GrantLookup, GrantExpiry,
           GrantAuthorize, GrantConstruct, GrantCount, GrantUpdate, GrantRecord,
           GrantRegister, ValidateServiceTicket, ValidateLookup, ValidateLock,
           ValidateExpiry, ValidateMatch, ValidateFinally, DelegateTicketGrantingTicket,
           DelegateLookup, DelegateExpiry, DelegateTest, DelegateSet, DelegateRegister,
           DestroyTicketGrantingTicket, DestroyLookup, DestroyExpire, DestroyDelete,
           Enter, At
<1>3. ~Leave(r)
  BY LeaveFacts DEF IInv, At
<1>4. ASSUME NEW s, Become(r, [call[r] EXCEPT !.keys = @ \ {s}]) PROVE FALSE
  <2>1. call \in [Requests -> Call] /\ call[r] \in Call
    BY DEF IInv, TypeOK, CasTypeOK
  <2>2. call'[r] = [call[r] EXCEPT !.keys = @ \ {s}]
    BY <1>4, <2>1 DEF Become
  <2>3. call'[r].pc = call[r].pc
    BY <2>1, <2>2 DEF Call
  <2> QED
    BY <2>3 DEF At
<1> QED
  BY <1>2, <1>3, <1>4 DEF DestroyLogout

\* expire() goes on to the deletion only when every service of the dictionary has been
\* sent its logout message, whatever grants were adding to it meanwhile.
THEOREM LogoutsAreSent == Spec => LogoutReachesEveryRecordedService
<1>1. ASSUME IInv, DestroyIInv, [Next]_vars, NEW r \in Requests,
             At(r, "destroy_logout"), At(r, "destroy_delete")'
      PROVE  tgt[call[r].tgt].services \subseteq notified
  <2>1. EnumeratorOK(r)
    BY <1>1 DEF DestroyIInv
  <2>2. ~Modified(call[r].tgt, call[r].num) /\ call[r].keys = {}
    BY <1>1, IntoDelete
  <2> QED
    BY <1>1, <2>1, <2>2 DEF EnumeratorOK, Modified
<1>2. IInv /\ DestroyIInv /\ [Next]_vars =>
        \A r \in Requests :
          (At(r, "destroy_logout") /\ At(r, "destroy_delete")')
          => tgt[call[r].tgt].services \subseteq notified
  BY <1>1
<1> QED
  BY <1>2, LifeInvariance, PTL DEF Spec, LogoutReachesEveryRecordedService

\* With one use allowed, a step either keeps what a service ticket's policy reads of the
\* ticket, or uses it up; and time does not go back.
LEMMA PolicyStep ==
  ASSUME IInv, NumberOfUses = 1, [Next]_vars, NEW s \in STs \cap issued
  PROVE  /\ now' \in Nat /\ now <= now'
         /\ \/ st'[s].count = st[s].count /\ st'[s].lastUsed = st[s].lastUsed
            \/ st'[s].count >= NumberOfUses
<1>1. now \in Nat /\ st \in [STs -> ServiceTicket] /\ st[s] \in ServiceTicket
  BY DEF IInv, TypeOK, CasTypeOK, TicketsTypeOK
<1>2. CASE Tick
  BY <1>1, <1>2 DEF Tick
<1>3. ASSUME NEW r \in Requests, GrantConstruct(r)
      PROVE  UNCHANGED now /\ st'[s] = st[s]
  BY <1>1, <1>3 DEF GrantConstruct
<1>4. ASSUME NEW r \in Requests, ValidateMatch(r)
      PROVE  UNCHANGED now /\ (st'[s] = st[s] \/ st'[s].count >= NumberOfUses)
  <2>1. UNCHANGED now /\ st' = [st EXCEPT ![call[r].st] = updateState(st[call[r].st])]
    BY <1>4 DEF ValidateMatch
  <2>2. CASE call[r].st = s
    <3>1. st'[s] = updateState(st[s])
      BY <1>1, <2>1, <2>2
    <3>2. st'[s].count = st[s].count + 1 /\ st[s].count \in Nat
      BY <1>1, <3>1, UpdateFacts DEF ServiceTicket
    <3> QED
      BY <2>1, <3>2
  <2>3. CASE call[r].st # s
    BY <1>1, <2>1, <2>3
  <2> QED
    BY <2>2, <2>3
<1>5. ASSUME NEW r \in Requests, DelegateSet(r)
      PROVE  /\ UNCHANGED now
             /\ st'[s].count = st[s].count /\ st'[s].lastUsed = st[s].lastUsed
  <2>1. /\ UNCHANGED now
        /\ st' = [st EXCEPT ![call[r].st] = [st[call[r].st] EXCEPT !.grantedTicketAlready = TRUE]]
    BY <1>5 DEF DelegateSet
  <2>2. CASE call[r].st = s
    <3>1. st'[s] = [st[s] EXCEPT !.grantedTicketAlready = TRUE]
      BY <1>1, <2>1, <2>2
    <3> QED
      BY <1>1, <2>1, <3>1 DEF ServiceTicket
  <2>3. CASE call[r].st # s
    BY <1>1, <2>1, <2>3
  <2> QED
    BY <2>2, <2>3
<1>6. CASE /\ ~Tick
           /\ ~\E r \in Requests : GrantConstruct(r) \/ ValidateMatch(r) \/ DelegateSet(r)
  <2>1. UNCHANGED <<now, st>>
    BY <1>6
       DEF Next, vars, casVars, ticketVars,
           CreateTicketGrantingTicket, GrantServiceTicket, GrantLookup, GrantExpiry,
           GrantAuthorize, GrantCount, GrantUpdate, GrantRecord,
           GrantRegister, ValidateServiceTicket, ValidateLookup, ValidateLock,
           ValidateExpiry, ValidateFinally, DelegateTicketGrantingTicket,
           DelegateLookup, DelegateExpiry, DelegateTest, DelegateRegister,
           DestroyTicketGrantingTicket, DestroyLookup, DestroyExpire, DestroyLogout,
           DestroyDelete, Clean, CleanScan, CleanServiceTicket, CleanExpire, CleanLogout,
           CleanDelete, CleanDone
  <2> QED
    BY <1>1, <2>1
<1> QED
  BY <1>1, <1>2, <1>3, <1>4, <1>5, <1>6

\* With one use allowed, as TicketExpirationPoliciesConfig has it, a service ticket its policy
\* has expired stays expired.  (With more, a use that was under way revives it.)
THEOREM ExpiredStaysExpired ==
  ASSUME NumberOfUses = 1
  PROVE  Spec => ExpiryIsFinal
<1>1. ASSUME IInv, [Next]_vars, NEW s \in STs \cap issued, STExpiredByPolicy(s)
      PROVE  STExpiredByPolicy(s)'
  <2>1. /\ now' \in Nat /\ now <= now'
        /\ \/ st'[s].count = st[s].count /\ st'[s].lastUsed = st[s].lastUsed
           \/ st'[s].count >= NumberOfUses
    BY <1>1, PolicyStep
  <2>2. st[s].lastUsed \in Nat /\ st[s].count \in Nat /\ now \in Nat
    BY <1>1 DEF IInv, TypeOK, CasTypeOK, TicketsTypeOK, ServiceTicket
  <2>3. st[s].count >= NumberOfUses \/ now - st[s].lastUsed >= STTimeToKill
    BY <1>1 DEF STExpiredByPolicy, MultiTimeUseOrTimeout, Timeout
  <2>4. st'[s].count >= NumberOfUses \/ now' - st'[s].lastUsed >= STTimeToKill
    BY <2>1, <2>2, <2>3
  <2> QED
    BY <2>4 DEF STExpiredByPolicy, MultiTimeUseOrTimeout, Timeout
<1>2. IInv /\ [Next]_vars =>
        \A s \in STs \cap issued : STExpiredByPolicy(s) => STExpiredByPolicy(s)'
  BY <1>1
<1> QED
  BY <1>2, Invariance, PTL DEF Spec, ExpiryIsFinal
=============================================================================
