-------------------------- MODULE CasServerTickets --------------------------
(***************************************************************************)
(* Dev.CasServer, the CAS server the web application runs: CasTicket.Issue *)
(* and CasTicket.CheckAndPunch over the ASP.NET cache, as HandleLoginRequest*)
(* and ValidateTicket of CasServer.cs call them, by concurrent requests.   *)
(* Nothing here takes a lock; only the cache's own operations are atomic.  *)
(* A request that is refused before it has changed anything is no step.    *)
(***************************************************************************)
EXTENDS Integers, FiniteSets

CONSTANTS
  Requests,          \* request threads
  Users, Services,   \* services after TranslateService
  ClientList,        \* services CasCheckPermission finds in the configuration
  Milliseconds,      \* what DateTime.Now.Millisecond, Random's seed, can be
  None,              \* null
  StoredMinutes,     \* the life HttpCacheTicketStorage.Add gives, whatever it
                     \* is asked for (10; Issue asks for 1)
  MaxTickets,        \* bound on the counter
  MaxTime            \* bound on the clock, in minutes

ASSUME CasServerAssumption ==
  /\ ClientList \subseteq Services
  /\ StoredMinutes \in Nat \ {0}
  /\ MaxTickets \in Nat /\ MaxTime \in Nat
  /\ None \notin Users \cup Services

\* A ticket string is a function of the counter and of the random token, and
\* the token of its seed.
Tickets == (1..MaxTickets) \X Milliseconds

Entry == [user : Users, service : Services, until : Nat]

VARIABLES
  now,
  nCounter,  \* CasTicket._nCounter
  cache,     \* HttpContext.Cache, the tickets in it
  call,      \* the local variables of each request
  \* what clients have been told, and what became of the tickets
  handed,    \* tickets in a redirection to their service, with user and time
  reported,  \* user and service of every validation answered with success
  accepted,  \* per ticket, such answers since it was last stored
  spent,     \* tickets punched since they were last stored
  lost       \* tickets the cache dropped since they were last stored

told == <<handed, reported, accepted, spent, lost>>
vars == <<now, nCounter, cache, call, told>>

Idle == [pc |-> "idle", user |-> None, service |-> None, wanted |-> None,
         num |-> 0, ms |-> None]

TypeOK ==
  /\ now \in 0..MaxTime
  /\ nCounter \in 0..MaxTickets
  /\ cache \in [Tickets -> Entry \cup {None}]
  /\ call \in [Requests ->
       [pc : {"idle", "issue_read", "issue_write", "issue_add", "punch_remove", "answer"},
        user : Users \cup {None}, service : Services \cup {None},
        wanted : Services \cup {None}, num : 0..MaxTickets,
        ms : Milliseconds \cup {None}]]
  /\ handed \subseteq [ticket : Tickets, user : Users, service : Services, at : 0..MaxTime]
  /\ reported \subseteq [ticket : Tickets, user : Users, service : Services]
  /\ accepted \in [Tickets -> Nat]
  /\ spent \subseteq Tickets
  /\ lost \subseteq Tickets

Init ==
  /\ now = 0
  /\ nCounter = 0
  /\ cache = [x \in Tickets |-> None]
  /\ call = [r \in Requests |-> Idle]
  /\ handed = {}
  /\ reported = {}
  /\ accepted = [x \in Tickets |-> 0]
  /\ spent = {}
  /\ lost = {}

At(r, pc) == call[r].pc = pc
Become(r, c) == call' = [call EXCEPT ![r] = c]
Leave(r) == Become(r, Idle)

\* The cache: an entry past its absolute expiration is not found.
Get(x) ==
  IF cache[x] # None /\ now < cache[x].until THEN cache[x] ELSE None

\* Variant with a bug: the entry is given no life.
AddExpired(x, user, service) ==
  cache' = [cache EXCEPT ![x] = [user |-> user, service |-> service, until |-> now]]

\* Cache.Add leaves an entry that is already there.
Add(x, user, service) ==
  cache' = IF Get(x) = None
           THEN [cache EXCEPT ![x] = [user |-> user, service |-> service,
                                      until |-> now + StoredMinutes]]
           ELSE cache

(***************************************************************************)
(* CasTicket.Issue, called for a user who has logged in                    *)
(***************************************************************************)

\* The token is drawn before the counter is touched.
IssueStart(r) ==
  \E user \in Users, service \in ClientList, ms \in Milliseconds :
    /\ At(r, "idle")
    /\ Become(r, [Idle EXCEPT !.pc = "issue_read", !.user = user,
                              !.service = service, !.ms = ms])
    /\ UNCHANGED <<now, nCounter, cache, told>>

\* ++_nCounter: a read and a write of a static field.  (MaxTickets bounds the
\* model; the code's uint wraps.)
IssueRead(r) ==
  /\ At(r, "issue_read")
  /\ nCounter < MaxTickets
  /\ Become(r, [call[r] EXCEPT !.pc = "issue_write", !.num = nCounter + 1])
  /\ UNCHANGED <<now, nCounter, cache, told>>

\* Variant with a bug: the counter is read once more when it is written.
IssueWriteReread(r) ==
  /\ At(r, "issue_write")
  /\ nCounter' = nCounter + 1
  /\ Become(r, [call[r] EXCEPT !.pc = "issue_add"])
  /\ UNCHANGED <<now, cache, told>>

IssueWrite(r) ==
  /\ At(r, "issue_write")
  /\ nCounter' = call[r].num
  /\ Become(r, [call[r] EXCEPT !.pc = "issue_add"])
  /\ UNCHANGED <<now, cache, told>>

\* The entry is stored and the ticket string returned, whoever it belongs to.
IssueAdd(r) ==
  LET c == call[r]
      x == <<c.num, c.ms>>
      stored == Get(x) = None
  IN
  /\ At(r, "issue_add")
  /\ Add(x, c.user, c.service)
  /\ handed' = handed \cup {[ticket |-> x, user |-> c.user, service |-> c.service, at |-> now]}
  /\ accepted' = IF stored THEN [accepted EXCEPT ![x] = 0] ELSE accepted
  /\ spent' = IF stored THEN spent \ {x} ELSE spent
  /\ lost' = IF stored THEN lost \ {x} ELSE lost
  /\ Leave(r)
  /\ UNCHANGED <<now, nCounter, reported>>

Issue(r) == IssueStart(r) \/ IssueRead(r) \/ IssueWrite(r) \/ IssueAdd(r)

(***************************************************************************)
(* ValidateTicket: CheckAndPunch, the comparison of the services, and the  *)
(* building of the response, which reads the user's profile                *)
(***************************************************************************)

\* CheckAndPunch reads the entry and then removes it.
PunchGet(r) ==
  \E x \in Tickets, wanted \in Services :
    /\ At(r, "idle")
    /\ Get(x) # None
    /\ Become(r, [pc |-> "punch_remove", user |-> Get(x).user, service |-> Get(x).service,
                  wanted |-> wanted, num |-> x[1], ms |-> x[2]])
    /\ UNCHANGED <<now, nCounter, cache, told>>

\* Variant with a bug: the ticket is not removed.
PunchKeep(r) ==
  LET c == call[r]
      x == <<c.num, c.ms>>
  IN
  /\ At(r, "punch_remove")
  /\ spent' = spent \cup {x}
  /\ IF c.wanted = c.service THEN Become(r, [c EXCEPT !.pc = "answer"]) ELSE Leave(r)
  /\ UNCHANGED <<now, nCounter, cache, handed, reported, accepted, lost>>

\* Variant with a bug: the services are not compared.
PunchForAnyService(r) ==
  LET x == <<call[r].num, call[r].ms>> IN
  /\ At(r, "punch_remove")
  /\ cache' = [cache EXCEPT ![x] = None]
  /\ spent' = spent \cup {x}
  /\ Become(r, [call[r] EXCEPT !.pc = "answer"])
  /\ UNCHANGED <<now, nCounter, handed, reported, accepted, lost>>

PunchRemove(r) ==
  LET c == call[r]
      x == <<c.num, c.ms>>
  IN
  /\ At(r, "punch_remove")
  /\ cache' = [cache EXCEPT ![x] = None]
  /\ spent' = spent \cup {x}
  /\ IF c.wanted = c.service THEN Become(r, [c EXCEPT !.pc = "answer"]) ELSE Leave(r)
  /\ UNCHANGED <<now, nCounter, handed, reported, accepted, lost>>

\* GetExtendProperty may throw; then the client is sent an error page.
Answer(r) ==
  LET c == call[r]
      x == <<c.num, c.ms>>
  IN
  /\ At(r, "answer")
  /\ \/ /\ reported' = reported \cup {[ticket |-> x, user |-> c.user, service |-> c.wanted]}
        /\ accepted' = [accepted EXCEPT ![x] = @ + 1]
     \/ UNCHANGED <<reported, accepted>>
  /\ Leave(r)
  /\ UNCHANGED <<now, nCounter, cache, handed, spent, lost>>

ValidateTicket(r) == PunchGet(r) \/ PunchRemove(r) \/ Answer(r)

(***************************************************************************)
(* The surroundings                                                        *)
(***************************************************************************)

\* ASP.NET may drop an entry of normal priority when memory is short.
Evict ==
  \E x \in Tickets :
    /\ cache[x] # None
    /\ cache' = [cache EXCEPT ![x] = None]
    /\ lost' = lost \cup {x}
    /\ UNCHANGED <<now, nCounter, call, handed, reported, accepted, spent>>

\* The application pool is recycled: statics and cache start anew.
Recycle ==
  /\ nCounter' = 0
  /\ cache' = [x \in Tickets |-> None]
  /\ call' = [r \in Requests |-> Idle]
  /\ lost' = lost \cup {x \in Tickets : cache[x] # None}
  /\ UNCHANGED <<now, handed, reported, accepted, spent>>

Tick ==
  /\ now < MaxTime
  /\ now' = now + 1
  /\ UNCHANGED <<nCounter, cache, call, told>>

Next ==
  \/ \E r \in Requests : Issue(r) \/ ValidateTicket(r)
  \/ Evict \/ Recycle \/ Tick

Spec == Init /\ [][Next]_vars
=============================================================================
