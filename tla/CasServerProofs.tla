-------------------------- MODULE CasServerProofs --------------------------
(***************************************************************************)
(* Proofs about the tickets of Dev.CasServer, for every number of requests,*)
(* every set of users and services, every life of the entries and every    *)
(* bound on the counter and the clock.                                     *)
(***************************************************************************)
EXTENDS CasServerProperties, TLAPS

USE CasServerAssumption

\* What the local variables of a request can be, and what the code of issue and
\* validation leaves in them.
Locals ==
  [pc : {"idle", "issue_read", "issue_write", "issue_add", "punch_remove", "answer"},
   user : Users \cup {None}, service : Services \cup {None},
   wanted : Services \cup {None}, num : 0..MaxTickets, ms : Milliseconds \cup {None}]

LEMMA IdleCall == Idle \in Locals /\ Idle.pc = "idle"
  BY DEF Idle, Locals

LEMMA LocalRecords ==
  ASSUME NEW c \in Locals, NEW user \in Users, NEW service \in Services,
         NEW wanted \in Services, NEW num \in 0..MaxTickets, NEW ms \in Milliseconds
  PROVE  /\ [Idle EXCEPT !.pc = "issue_read", !.user = user, !.service = service, !.ms = ms]
              \in Locals
         /\ [c EXCEPT !.pc = "issue_write", !.num = num] \in Locals
         /\ [c EXCEPT !.pc = "issue_add"] \in Locals
         /\ [c EXCEPT !.pc = "answer"] \in Locals
         /\ [pc |-> "punch_remove", user |-> user, service |-> service,
             wanted |-> wanted, num |-> num, ms |-> ms] \in Locals
<1> DEFINE Numbers == 0..MaxTickets
<1>1. Locals =
        [pc : {"idle", "issue_read", "issue_write", "issue_add", "punch_remove", "answer"},
         user : Users \cup {None}, service : Services \cup {None},
         wanted : Services \cup {None}, num : Numbers, ms : Milliseconds \cup {None}]
  BY DEF Locals
<1>2. 0 \in Numbers /\ num \in Numbers
  OBVIOUS
<1> HIDE DEF Numbers
<1>3. [Idle EXCEPT !.pc = "issue_read", !.user = user, !.service = service, !.ms = ms] \in Locals
  BY <1>1, <1>2 DEF Idle
<1>4. [c EXCEPT !.pc = "issue_write", !.num = num] \in Locals
  BY <1>1, <1>2
<1>5. [c EXCEPT !.pc = "issue_add"] \in Locals /\ [c EXCEPT !.pc = "answer"] \in Locals
  BY <1>1
<1>6. [pc |-> "punch_remove", user |-> user, service |-> service,
       wanted |-> wanted, num |-> num, ms |-> ms] \in Locals
  BY <1>1, <1>2
<1> QED
  BY <1>3, <1>4, <1>5, <1>6

\* The type invariant, with a name for the type of the locals.
LEMMA TypeOfLocals == TypeOK <=>
  /\ now \in 0..MaxTime
  /\ nCounter \in 0..MaxTickets
  /\ cache \in [Tickets -> Entry \cup {None}]
  /\ call \in [Requests -> Locals]
  /\ handed \subseteq [ticket : Tickets, user : Users, service : Services, at : 0..MaxTime]
  /\ reported \subseteq [ticket : Tickets, user : Users, service : Services]
  /\ accepted \in [Tickets -> Nat]
  /\ spent \subseteq Tickets
  /\ lost \subseteq Tickets
  BY Zenon DEF TypeOK, Locals

\* A step of a request's control changes that request only.
LEMMA BecomeFacts ==
  ASSUME TypeOK, NEW r \in Requests, NEW c \in Locals, Become(r, c)
  PROVE  /\ call' \in [Requests -> Locals]
         /\ call'[r] = c
         /\ \A q \in Requests \ {r} : call'[q] = call[q]
  BY TypeOfLocals DEF Become

\* What is handed out stays handed out, so the other requests rely on it still.
LEMMA OthersOK ==
  ASSUME NEW r \in Requests, \A q \in Requests : RequestOK(q), RequestOK(r)',
         \A q \in Requests \ {r} : call'[q] = call[q], handed \subseteq handed'
  PROVE  \A q \in Requests : RequestOK(q)'
  BY DEF RequestOK, Holds

LEMMA IdleOK == ASSUME NEW r \in Requests, call'[r] = Idle PROVE RequestOK(r)'
  BY DEF RequestOK, Idle

\* The ticket of a request that has a number is a ticket.
LEMMA TicketOf ==
  ASSUME NEW r \in Requests, RequestOK(r),
         call[r].pc \in {"issue_add", "punch_remove", "answer"}
  PROVE  <<call[r].num, call[r].ms>> \in Tickets
  BY DEF RequestOK, Tickets

\* Nothing is wrong before the first request.
LEMMA InitInv == Init => CasServerIInv
<1> SUFFICES ASSUME Init PROVE CasServerIInv
  OBVIOUS
<1>1. TypeOK
  BY IdleCall, TypeOfLocals DEF Init
<1>2. \A r \in Requests : RequestOK(r)
  BY DEF Init, RequestOK, Idle
<1> QED
  BY <1>1, <1>2 DEF Init, CasServerIInv, SpentTicketsGone, UnsharedTicketRedeemable,
     ReportedWasHanded, EntriesWereHanded

\* A step that only changes a request's locals and the counter.
LEMMA ControlStep ==
  ASSUME CasServerIInv, NEW r \in Requests, NEW c \in Locals, Become(r, c), RequestOK(r)',
         nCounter' \in 0..MaxTickets, UNCHANGED <<now, cache, told>>
  PROVE  CasServerIInv'
<1>1. call' \in [Requests -> Locals] /\ \A q \in Requests \ {r} : call'[q] = call[q]
  BY BecomeFacts DEF CasServerIInv
<1>2. TypeOK'
  BY <1>1, TypeOfLocals DEF CasServerIInv, TypeOK, Locals, told
<1>3. \A q \in Requests : RequestOK(q)'
  BY <1>1, OthersOK DEF CasServerIInv, told
<1> QED
  BY <1>2, <1>3 DEF CasServerIInv, SpentTicketsGone, UnsharedTicketRedeemable,
     ReportedWasHanded, EntriesWereHanded, told

(***************************************************************************)
(* CasTicket.Issue                                                         *)
(***************************************************************************)

\* The token is drawn.
LEMMA IssueStartInv ==
  ASSUME CasServerIInv, NEW r \in Requests, IssueStart(r)
  PROVE  CasServerIInv'
<1>1. PICK user \in Users, service \in ClientList, ms \in Milliseconds :
        /\ Become(r, [Idle EXCEPT !.pc = "issue_read", !.user = user,
                                  !.service = service, !.ms = ms])
        /\ UNCHANGED <<now, nCounter, cache, told>>
  BY DEF IssueStart
<1> DEFINE c == [Idle EXCEPT !.pc = "issue_read", !.user = user, !.service = service, !.ms = ms]
<1>2. c \in Locals
  <2>1. service \in Services /\ 0 \in 0..MaxTickets
    BY CasServerAssumption
  <2> QED
    BY <2>1, IdleCall, LocalRecords, Zenon
<1>3. call'[r] = c
  BY <1>1, <1>2, BecomeFacts DEF CasServerIInv
<1>4. RequestOK(r)'
  BY <1>3 DEF RequestOK, Idle
<1>5. nCounter' \in 0..MaxTickets
  BY <1>1 DEF CasServerIInv, TypeOK
<1> QED
  BY <1>1, <1>2, <1>4, <1>5, ControlStep

\* The counter is read.
LEMMA IssueReadInv ==
  ASSUME CasServerIInv, NEW r \in Requests, IssueRead(r)
  PROVE  CasServerIInv'
<1> DEFINE c == [call[r] EXCEPT !.pc = "issue_write", !.num = nCounter + 1]
<1>1. /\ call[r] \in Locals /\ RequestOK(r) /\ call[r].pc = "issue_read"
      /\ nCounter + 1 \in 1..MaxTickets
  BY TypeOfLocals DEF CasServerIInv, TypeOK, IssueRead, At
<1>2. c \in Locals
  <2>1. nCounter + 1 \in 0..MaxTickets
    BY <1>1
  <2>2. \E user \in Users, service \in Services, ms \in Milliseconds : TRUE
    BY <1>1 DEF RequestOK
  <2> QED
    BY <1>1, <2>1, <2>2, LocalRecords
<1>3. call'[r] = c /\ Become(r, c)
  BY <1>2, BecomeFacts DEF CasServerIInv, IssueRead
<1>4. RequestOK(r)'
  BY <1>1, <1>3 DEF RequestOK, Locals
<1>5. nCounter' \in 0..MaxTickets /\ UNCHANGED <<now, cache, told>>
  BY DEF CasServerIInv, TypeOK, IssueRead
<1> QED
  BY <1>2, <1>3, <1>4, <1>5, ControlStep

\* The counter is written, with what was read before.
LEMMA IssueWriteInv ==
  ASSUME CasServerIInv, NEW r \in Requests, IssueWrite(r)
  PROVE  CasServerIInv'
<1> DEFINE c == [call[r] EXCEPT !.pc = "issue_add"]
<1>1. call[r] \in Locals /\ RequestOK(r) /\ call[r].pc = "issue_write"
  BY TypeOfLocals DEF CasServerIInv, IssueWrite, At
<1>2. c \in Locals
  BY <1>1 DEF Locals
<1>3. call'[r] = c /\ Become(r, c)
  BY <1>2, BecomeFacts DEF CasServerIInv, IssueWrite
<1>4. RequestOK(r)'
  BY <1>1, <1>3 DEF RequestOK, Locals
<1>5. nCounter' \in 0..MaxTickets /\ UNCHANGED <<now, cache, told>>
  BY <1>1 DEF RequestOK, IssueWrite
<1> QED
  BY <1>2, <1>3, <1>4, <1>5, ControlStep

\* The entry is stored, unless one is there already, and the ticket given out.
LEMMA IssueAddInv ==
  ASSUME CasServerIInv, NEW r \in Requests, IssueAdd(r)
  PROVE  CasServerIInv'
<1> DEFINE c == call[r]
           x == <<c.num, c.ms>>
           entry == [user |-> c.user, service |-> c.service, until |-> now + StoredMinutes]
           h0 == [ticket |-> x, user |-> c.user, service |-> c.service, at |-> now]
<1>1. c \in Locals /\ RequestOK(r) /\ c.pc = "issue_add" /\ Leave(r)
  BY TypeOfLocals DEF CasServerIInv, IssueAdd, At
<1>2. x \in Tickets /\ c.user \in Users /\ c.service \in Services
  BY <1>1, TicketOf DEF RequestOK
<1>3. /\ call' \in [Requests -> Locals] /\ call'[r] = Idle
      /\ \A q \in Requests \ {r} : call'[q] = call[q]
  BY <1>1, IdleCall, BecomeFacts DEF CasServerIInv, Leave
<1>4. now \in 0..MaxTime /\ now + StoredMinutes \in Nat
  BY DEF CasServerIInv, TypeOK
<1>5. /\ handed' = handed \cup {h0}
      /\ UNCHANGED <<now, nCounter, reported>>
      /\ \/ /\ Get(x) = None /\ cache' = [cache EXCEPT ![x] = entry]
            /\ accepted' = [accepted EXCEPT ![x] = 0]
            /\ spent' = spent \ {x} /\ lost' = lost \ {x}
         \/ /\ Get(x) # None
            /\ UNCHANGED <<cache, accepted, spent, lost>>
  BY DEF IssueAdd, Add
<1>6. entry \in Entry /\ entry.until = now + StoredMinutes
      /\ entry.user = c.user /\ entry.service = c.service
  BY <1>2, <1>4 DEF Entry
<1>7. h0 \in [ticket : Tickets, user : Users, service : Services, at : 0..MaxTime]
  BY <1>2, <1>4
<1> HIDE DEF entry
<1>8. TypeOK'
  <2>1. cache' \in [Tickets -> Entry \cup {None}]
    BY <1>5, <1>6 DEF CasServerIInv, TypeOK
  <2>2. accepted' \in [Tickets -> Nat] /\ spent' \subseteq Tickets /\ lost' \subseteq Tickets
    BY <1>5 DEF CasServerIInv, TypeOK
  <2> QED
    BY <1>3, <1>5, <1>7, <2>1, <2>2, TypeOfLocals DEF CasServerIInv, TypeOK, Locals
<1>9. \A q \in Requests : RequestOK(q)'
  BY <1>3, <1>5, OthersOK, IdleOK DEF CasServerIInv
<1>10. SpentTicketsGone'
  BY <1>2, <1>5 DEF CasServerIInv, SpentTicketsGone, TypeOK
<1>11. ReportedWasHanded'
  BY <1>5 DEF CasServerIInv, ReportedWasHanded
<1>12. EntriesWereHanded'
  <2> SUFFICES ASSUME NEW y \in Tickets, cache'[y] # None
               PROVE  \E h \in handed' :
                        /\ h.ticket = y /\ h.user = cache'[y].user
                        /\ h.service = cache'[y].service
                        /\ cache'[y].until = h.at + StoredMinutes
    BY <1>5 DEF EntriesWereHanded
  <2>1. CASE cache'[y] = cache[y]
    BY <2>1, <1>5 DEF CasServerIInv, EntriesWereHanded
  <2>2. CASE y = x /\ cache'[y] = entry
    <3>1. h0 \in handed'
      BY <1>5
    <3> WITNESS h0 \in handed'
    <3> QED
      BY <2>2, <1>6
  <2> QED
    BY <2>1, <2>2, <1>2, <1>5 DEF CasServerIInv, TypeOK
<1>13. UnsharedTicketRedeemable'
  <2> SUFFICES ASSUME NEW h \in handed',
                      \A g \in handed' : g.ticket = h.ticket => g = h,
                      h.ticket \notin spent' \cup lost',
                      now < h.at + StoredMinutes
               PROVE  cache'[h.ticket] = [user |-> h.user, service |-> h.service,
                                          until |-> h.at + StoredMinutes]
    BY <1>5 DEF UnsharedTicketRedeemable
  <2>1. CASE h.ticket = x
    <3>1. h = h0
      <4>1. h0 \in handed'
        BY <1>5
      <4>2. h0.ticket = h.ticket
        BY <2>1
      <4> QED
        BY <4>1, <4>2
    <3>2. CASE Get(x) = None
      <4>1. cache'[x] = entry
        BY <3>2, <1>2, <1>5 DEF CasServerIInv, TypeOK
      <4>2. h.ticket = x /\ h.user = c.user /\ h.service = c.service /\ h.at = now
        BY <3>1
      <4>3. entry = [user |-> h.user, service |-> h.service, until |-> h.at + StoredMinutes]
        BY <4>2 DEF entry
      <4> QED
        BY <4>1, <4>2, <4>3
    <3>3. CASE Get(x) # None
      <4>1. cache[x] # None /\ cache' = cache
        BY <3>3, <1>5 DEF Get
      <4>2. PICK g \in handed : /\ g.ticket = x /\ g.user = cache[x].user
                                /\ g.service = cache[x].service
                                /\ cache[x].until = g.at + StoredMinutes
        BY <4>1, <1>2 DEF CasServerIInv, EntriesWereHanded
      <4>3. g = h
        BY <4>2, <2>1, <1>5
      <4>4. cache[x] \in Entry
        BY <4>1, <1>2 DEF CasServerIInv, TypeOK
      <4> QED
        BY <4>1, <4>2, <4>3, <4>4, <2>1 DEF Entry
    <3> QED
      BY <3>2, <3>3
  <2>2. CASE h.ticket # x
    <3>1. h \in handed /\ h.ticket \in Tickets /\ \A g \in handed : g.ticket = h.ticket => g = h
      BY <2>2, <1>5 DEF CasServerIInv, TypeOK
    <3>2. h.ticket \notin spent \cup lost /\ cache'[h.ticket] = cache[h.ticket]
      BY <2>2, <3>1, <1>5 DEF CasServerIInv, TypeOK
    <3> QED
      BY <3>1, <3>2, <1>5 DEF CasServerIInv, UnsharedTicketRedeemable
  <2> QED
    BY <2>1, <2>2
<1> QED
  BY <1>8, <1>9, <1>10, <1>11, <1>12, <1>13 DEF CasServerIInv

(***************************************************************************)
(* ValidateTicket                                                          *)
(***************************************************************************)

\* An entry that is found is an entry.
LEMMA GetFacts ==
  ASSUME TypeOK, NEW x \in Tickets, Get(x) # None
  PROVE  Get(x) = cache[x] /\ cache[x] # None /\ cache[x] \in Entry
  BY DEF TypeOK, Get

\* The entry is read; a redirection carried what it says.
LEMMA PunchGetInv ==
  ASSUME CasServerIInv, NEW r \in Requests, PunchGet(r)
  PROVE  CasServerIInv'
<1>1. PICK x \in Tickets, wanted \in Services :
        /\ Get(x) # None
        /\ Become(r, [pc |-> "punch_remove", user |-> Get(x).user, service |-> Get(x).service,
                      wanted |-> wanted, num |-> x[1], ms |-> x[2]])
        /\ UNCHANGED <<now, nCounter, cache, told>>
  BY DEF PunchGet
<1> DEFINE c == [pc |-> "punch_remove", user |-> Get(x).user, service |-> Get(x).service,
                 wanted |-> wanted, num |-> x[1], ms |-> x[2]]
<1>2. /\ cache[x] # None /\ Get(x) = cache[x]
      /\ Get(x).user \in Users /\ Get(x).service \in Services
  BY <1>1, GetFacts DEF CasServerIInv, Entry
<1>3. x[1] \in 1..MaxTickets /\ x[2] \in Milliseconds /\ <<x[1], x[2]>> = x
  BY DEF Tickets
<1>4. x[1] \in 0..MaxTickets
  BY <1>3
<1>5. c \in Locals
  BY <1>2, <1>3, <1>4, IdleCall, LocalRecords
<1>6. call'[r] = c
  BY <1>1, <1>5, BecomeFacts DEF CasServerIInv
<1>7. PICK h \in handed : h.ticket = x /\ h.user = Get(x).user /\ h.service = Get(x).service
  BY <1>2 DEF CasServerIInv, EntriesWereHanded
<1>8. RequestOK(r)'
  BY <1>1, <1>2, <1>3, <1>6, <1>7 DEF RequestOK, Holds, told
<1>9. nCounter' \in 0..MaxTickets
  BY <1>1 DEF CasServerIInv, TypeOK
<1> QED
  BY <1>1, <1>5, <1>8, <1>9, ControlStep

\* The ticket is removed by its name; only a request for its service goes on.
LEMMA PunchRemoveInv ==
  ASSUME CasServerIInv, NEW r \in Requests, PunchRemove(r)
  PROVE  CasServerIInv'
<1> DEFINE c == call[r]
           x == <<c.num, c.ms>>
           d == [c EXCEPT !.pc = "answer"]
<1>1. c \in Locals /\ RequestOK(r) /\ c.pc = "punch_remove" /\ x \in Tickets
  BY TypeOfLocals, TicketOf DEF CasServerIInv, PunchRemove, At
<1>2. /\ cache' = [cache EXCEPT ![x] = None] /\ spent' = spent \cup {x}
      /\ UNCHANGED <<now, nCounter, handed, reported, accepted, lost>>
  BY DEF PunchRemove
<1>3. d \in Locals
  BY <1>1, LocalRecords DEF RequestOK, Locals
<1>4. /\ call' \in [Requests -> Locals]
      /\ \A q \in Requests \ {r} : call'[q] = call[q]
      /\ call'[r] = Idle \/ (c.wanted = c.service /\ call'[r] = d)
  BY <1>3, IdleCall, BecomeFacts DEF CasServerIInv, PunchRemove, Leave
<1>5. RequestOK(r)'
  <2>1. CASE call'[r] = Idle
    BY <2>1, IdleOK
  <2>2. CASE c.wanted = c.service /\ call'[r] = d
    <3>1. /\ d.pc = "answer" /\ d.user = c.user /\ d.service = c.service /\ d.ms = c.ms
          /\ d.num = c.num /\ d.wanted = c.wanted
      BY <1>1 DEF Locals
    <3> QED
      BY <1>1, <1>2, <2>2, <3>1 DEF RequestOK, Holds
  <2> QED
    BY <1>4, <2>1, <2>2
<1>6. \A q \in Requests : RequestOK(q)'
  BY <1>2, <1>4, <1>5, OthersOK DEF CasServerIInv
<1>7. TypeOK'
  BY <1>1, <1>2, <1>4, TypeOfLocals DEF CasServerIInv, TypeOK, Locals
<1>8. SpentTicketsGone'
  BY <1>1, <1>2 DEF CasServerIInv, SpentTicketsGone, TypeOK
<1>9. ReportedWasHanded' /\ EntriesWereHanded'
  BY <1>1, <1>2 DEF CasServerIInv, ReportedWasHanded, EntriesWereHanded, TypeOK
<1>10. UnsharedTicketRedeemable'
  BY <1>1, <1>2 DEF CasServerIInv, UnsharedTicketRedeemable, TypeOK
<1> QED
  BY <1>6, <1>7, <1>8, <1>9, <1>10 DEF CasServerIInv

\* The answer names what a redirection carried, for the service that asks.
LEMMA AnswerInv ==
  ASSUME CasServerIInv, NEW r \in Requests, Answer(r)
  PROVE  CasServerIInv'
<1> DEFINE c == call[r]
           x == <<c.num, c.ms>>
           p == [ticket |-> x, user |-> c.user, service |-> c.wanted]
<1>1. /\ c \in Locals /\ RequestOK(r) /\ c.pc = "answer" /\ x \in Tickets /\ Leave(r)
  BY TypeOfLocals, TicketOf DEF CasServerIInv, Answer, At
<1>2. /\ reported' \in {reported, reported \cup {p}}
      /\ accepted' \in {accepted, [accepted EXCEPT ![x] = @ + 1]}
      /\ UNCHANGED <<now, nCounter, cache, handed, spent, lost>>
  BY DEF Answer
<1>3. /\ call' \in [Requests -> Locals] /\ call'[r] = Idle
      /\ \A q \in Requests \ {r} : call'[q] = call[q]
  BY <1>1, IdleCall, BecomeFacts DEF CasServerIInv, Leave
<1>4. \A q \in Requests : RequestOK(q)'
  BY <1>2, <1>3, IdleOK, OthersOK DEF CasServerIInv
<1>5. \E h \in handed : h.ticket = p.ticket /\ h.user = p.user /\ h.service = p.service
  BY <1>1 DEF RequestOK, Holds
<1>6. p \in [ticket : Tickets, user : Users, service : Services]
  BY <1>1 DEF RequestOK
<1> HIDE DEF p
<1>7. TypeOK'
  <2>1. /\ reported' \subseteq [ticket : Tickets, user : Users, service : Services]
        /\ accepted' \in [Tickets -> Nat]
    BY <1>1, <1>2, <1>6, TypeOfLocals DEF CasServerIInv
  <2>2. /\ now' \in 0..MaxTime /\ nCounter' \in 0..MaxTickets
        /\ cache' \in [Tickets -> Entry \cup {None}]
        /\ handed' \subseteq [ticket : Tickets, user : Users, service : Services,
                              at : 0..MaxTime]
        /\ spent' \subseteq Tickets /\ lost' \subseteq Tickets
    BY <1>2, TypeOfLocals DEF CasServerIInv
  <2> QED
    BY <1>3, <2>1, <2>2, Zenon DEF TypeOK, Locals
<1>8. ReportedWasHanded'
  BY <1>2, <1>5 DEF CasServerIInv, ReportedWasHanded
<1> QED
  BY <1>2, <1>4, <1>7, <1>8 DEF CasServerIInv, SpentTicketsGone, EntriesWereHanded,
     UnsharedTicketRedeemable

(***************************************************************************)
(* The surroundings, and the theorems                                      *)
(***************************************************************************)

\* An entry the cache drops is lost.
LEMMA EvictInv == CasServerIInv /\ Evict => CasServerIInv'
<1> SUFFICES ASSUME CasServerIInv, NEW x \in Tickets,
                    cache' = [cache EXCEPT ![x] = None], lost' = lost \cup {x},
                    UNCHANGED <<now, nCounter, call, handed, reported, accepted, spent>>
             PROVE  CasServerIInv'
  BY DEF Evict
<1>1. TypeOK'
  BY DEF CasServerIInv, TypeOK
<1>2. \A q \in Requests : RequestOK(q)'
  BY DEF CasServerIInv, RequestOK, Holds
<1>3. SpentTicketsGone' /\ ReportedWasHanded' /\ EntriesWereHanded'
  BY DEF CasServerIInv, SpentTicketsGone, ReportedWasHanded, EntriesWereHanded, TypeOK
<1>4. UnsharedTicketRedeemable'
  BY DEF CasServerIInv, UnsharedTicketRedeemable, TypeOK
<1> QED
  BY <1>1, <1>2, <1>3, <1>4 DEF CasServerIInv

\* A restart loses every entry, and every request with it.
LEMMA RecycleInv == CasServerIInv /\ Recycle => CasServerIInv'
<1> SUFFICES ASSUME CasServerIInv, Recycle PROVE CasServerIInv'
  OBVIOUS
<1> USE DEF Recycle
<1>1. TypeOK'
  BY IdleCall, TypeOfLocals DEF CasServerIInv, TypeOK, Locals
<1>2. \A q \in Requests : RequestOK(q)'
  BY IdleOK
<1>3. SpentTicketsGone' /\ ReportedWasHanded' /\ EntriesWereHanded'
  BY DEF CasServerIInv, SpentTicketsGone, ReportedWasHanded, EntriesWereHanded, TypeOK
<1>4. UnsharedTicketRedeemable'
  <2> SUFFICES ASSUME NEW h \in handed, \A g \in handed : g.ticket = h.ticket => g = h,
                      h.ticket \notin spent \cup lost', now < h.at + StoredMinutes
               PROVE  cache'[h.ticket] = [user |-> h.user, service |-> h.service,
                                          until |-> h.at + StoredMinutes]
    BY DEF UnsharedTicketRedeemable
  <2>1. h.ticket \in Tickets
    BY DEF CasServerIInv, TypeOK
  <2> QED
    BY <2>1 DEF CasServerIInv, UnsharedTicketRedeemable, TypeOK
<1> QED
  BY <1>1, <1>2, <1>3, <1>4 DEF CasServerIInv

\* Time passes; a ticket's time only runs out.
LEMMA TickInv == CasServerIInv /\ Tick => CasServerIInv'
<1> SUFFICES ASSUME CasServerIInv, Tick PROVE CasServerIInv'
  OBVIOUS
<1>1. TypeOK' /\ now' = now + 1 /\ now \in Nat
      /\ handed \subseteq [ticket : Tickets, user : Users, service : Services, at : 0..MaxTime]
  BY DEF CasServerIInv, TypeOK, Tick, told
<1>2. \A h \in handed : now' < h.at + StoredMinutes => now < h.at + StoredMinutes
  BY <1>1
<1>3. UnsharedTicketRedeemable'
  BY <1>2 DEF CasServerIInv, UnsharedTicketRedeemable, Tick, told
<1>4. \A q \in Requests : RequestOK(q)'
  BY DEF CasServerIInv, RequestOK, Holds, Tick, told
<1> QED
  BY <1>1, <1>3, <1>4 DEF CasServerIInv, SpentTicketsGone, ReportedWasHanded,
     EntriesWereHanded, Tick, told

\* Every step of the server, and every step it does not take part in, keeps the
\* invariant.
LEMMA NextInv == CasServerIInv /\ [Next]_vars => CasServerIInv'
<1> SUFFICES ASSUME CasServerIInv, [Next]_vars PROVE CasServerIInv'
  OBVIOUS
<1>1. CASE UNCHANGED vars
  <2> USE <1>1 DEF vars, told
  <2>1. TypeOK'
    BY DEF CasServerIInv, TypeOK
  <2>2. \A r \in Requests : RequestOK(r)'
    BY DEF CasServerIInv, RequestOK, Holds
  <2>3. SpentTicketsGone' /\ ReportedWasHanded' /\ EntriesWereHanded' /\ UnsharedTicketRedeemable'
    BY DEF CasServerIInv, SpentTicketsGone, ReportedWasHanded, EntriesWereHanded,
           UnsharedTicketRedeemable
  <2> QED
    BY <2>1, <2>2, <2>3 DEF CasServerIInv
<1>2. ASSUME NEW r \in Requests, Issue(r) PROVE CasServerIInv'
  BY <1>2, IssueStartInv, IssueReadInv, IssueWriteInv, IssueAddInv DEF Issue
<1>3. ASSUME NEW r \in Requests, ValidateTicket(r) PROVE CasServerIInv'
  BY <1>3, PunchGetInv, PunchRemoveInv, AnswerInv DEF ValidateTicket
<1> QED
  BY <1>1, <1>2, <1>3, EvictInv, RecycleInv, TickInv DEF Next

\* The inductive invariant of the ticket handling of Dev.CasServer.
THEOREM CasServerInvariant == Spec => []CasServerIInv
  BY InitInv, NextInv, PTL DEF Spec

\* CasTicket's fields, the cache and every request's locals have their types.
THEOREM CasServerTypes == Spec => []TypeOK
<1>1. CasServerIInv => TypeOK
  BY DEF CasServerIInv
<1> QED
  BY <1>1, CasServerInvariant, PTL

\* CheckAndPunch: a ticket that was presented is not found again, though it is
\* removed by its name only.
THEOREM PunchedTicketsAreGone == Spec => []SpentTicketsGone
<1>1. CasServerIInv => SpentTicketsGone
  BY DEF CasServerIInv
<1> QED
  BY <1>1, CasServerInvariant, PTL

\* ValidateTicket answers for a user and a service only what a redirection with
\* this ticket string carried.
THEOREM AnswersWereHanded == Spec => []ReportedWasHanded
<1>1. CasServerIInv => ReportedWasHanded
  BY DEF CasServerIInv
<1> QED
  BY <1>1, CasServerInvariant, PTL

\* HttpCacheTicketStorage keeps a ticket string given out once as it was, until
\* it is presented, is dropped, or its time is over.
THEOREM UnsharedTicketsStayGood == Spec => []UnsharedTicketRedeemable
<1>1. CasServerIInv => UnsharedTicketRedeemable
  BY DEF CasServerIInv
<1> QED
  BY <1>1, CasServerInvariant, PTL
=============================================================================
