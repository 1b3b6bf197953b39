---------------------------- MODULE SignOnProofs ----------------------------
(***************************************************************************)
(* Proofs about single sign-on, for every number of browsers, tabs, sites  *)
(* and users.  The server's part is carried over from the proofs about it  *)
(* alone: the composition lets it do nothing it could not do before.       *)
(***************************************************************************)
EXTENDS SignOnProperties, CasServerProofs

USE SignOnAssumption

(***************************************************************************)
(* The composition and the server                                          *)
(***************************************************************************)

\* A tab makes its request do a step of the server, or leaves the server alone.
LEMMA StepIsServerStep == [SignOnNext]_signOnVars => [Next]_vars
<1> SUFFICES ASSUME [SignOnNext]_signOnVars PROVE [Next]_vars
  OBVIOUS
<1>1. CASE UNCHANGED signOnVars
  BY <1>1 DEF signOnVars
<1>2. CASE Surroundings
  BY <1>2 DEF Surroundings, Next
<1>3. ASSUME NEW r \in Requests,
             Visit(r) \/ WantLogin(r) \/ Repeat(r) \/ WantLogout(r) \/ LogInAtHome(r)
             \/ State(r) \/ LocalLogOff(r) \/ Refused(r) \/ ServerGaveUp(r) \/ ServerLogout(r)
      PROVE  UNCHANGED vars
  BY <1>3 DEF Visit, WantLogin, Repeat, WantLogout, LogInAtHome, State, LocalLogOff,
     Refused, ServerGaveUp, ServerLogout
<1>4. ASSUME NEW r \in Requests,
             SubmitPassword(r) \/ GoToServer(r) \/ Issuing(r) \/ Redirected(r)
             \/ LogInLocally(r) \/ Presented(r) \/ Validating(r) \/ SignedIn(r)
             \/ AnswerLost(r)
      PROVE  Issue(r) \/ ValidateTicket(r) \/ UNCHANGED vars
  BY <1>4 DEF SubmitPassword, GoToServer, Issuing, Redirected, LogInLocally, Presented,
     Validating, SignedIn, AnswerLost, Issue, ValidateTicket
<1> QED
  BY <1>1, <1>2, <1>3, <1>4 DEF SignOnNext, Proceeds, Next

\* Single sign-on is run by the server of the other proofs: what is proved of its
\* tickets holds whatever browsers and sites ask of it.
THEOREM ServerWithinSignOn == SignOnSpec => Spec
<1>1. SignOnInit => Init
  BY DEF SignOnInit
<1> QED
  BY <1>1, StepIsServerStep, PTL DEF SignOnSpec, Spec

\* What a step of a request's control leaves in the calls, and of what was handed
\* out.
LEMMA CallChange ==
  ASSUME TypeOK, NEW r \in Requests, NEW c, Become(r, c)
  PROVE  call'[r] = c /\ \A q \in Requests \ {r} : call'[q] = call[q]
  BY DEF TypeOK, Become

LEMMA ServerStepFrame ==
  ASSUME TypeOK, NEW r \in Requests, Issue(r) \/ ValidateTicket(r)
  PROVE  /\ \A q \in Requests \ {r} : call'[q] = call[q]
         /\ handed \subseteq handed'
         /\ IssueAdd(r) \/ handed' = handed
  BY CallChange DEF Issue, IssueStart, IssueRead, IssueWrite, IssueAdd, ValidateTicket,
     PunchGet, PunchRemove, Answer, Leave, told

LEMMA IssueStartCall ==
  ASSUME TypeOK, NEW r \in Requests, IssueStart(r)
  PROVE  call'[r].pc = "issue_read"
<1>1. PICK user \in Users, service \in ClientList, ms \in Milliseconds :
        Become(r, [Idle EXCEPT !.pc = "issue_read", !.user = user,
                               !.service = service, !.ms = ms])
  BY DEF IssueStart
<1>2. call'[r] = [Idle EXCEPT !.pc = "issue_read", !.user = user,
                              !.service = service, !.ms = ms]
  BY <1>1, CallChange
<1> QED
  BY <1>2 DEF Idle

LEMMA IssuingCall ==
  ASSUME TypeOK, NEW r \in Requests, IssueRead(r) \/ IssueWrite(r)
  PROVE  call'[r].user = call[r].user /\ call[r].pc \in {"issue_read", "issue_write"}
<1>1. call[r] \in Locals
  BY TypeOfLocals
<1>2. \/ call'[r] = [call[r] EXCEPT !.pc = "issue_write", !.num = nCounter + 1]
      \/ call'[r] = [call[r] EXCEPT !.pc = "issue_add"]
  BY CallChange DEF IssueRead, IssueWrite
<1> QED
  BY <1>1, <1>2 DEF IssueRead, IssueWrite, At, Locals

LEMMA PunchGetCall ==
  ASSUME TypeOK, NEW r \in Requests, PunchGet(r)
  PROVE  /\ call'[r].pc = "punch_remove"
         /\ <<call'[r].num, call'[r].ms>> \in Tickets
         /\ Get(<<call'[r].num, call'[r].ms>>) # None
         /\ call'[r].wanted \in Services
<1>1. PICK x \in Tickets, wanted \in Services :
        /\ Get(x) # None
        /\ call'[r] = [pc |-> "punch_remove", user |-> Get(x).user,
                       service |-> Get(x).service, wanted |-> wanted,
                       num |-> x[1], ms |-> x[2]]
  BY CallChange DEF PunchGet
<1>2. <<x[1], x[2]>> = x
  BY DEF Tickets
<1> QED
  BY <1>1, <1>2

LEMMA PunchRemoveCall ==
  ASSUME TypeOK, NEW r \in Requests, PunchRemove(r)
  PROVE  /\ call[r].pc = "punch_remove"
         /\ \/ call'[r].pc = "idle"
            \/ /\ call'[r].num = call[r].num /\ call'[r].ms = call[r].ms
               /\ call'[r].wanted = call[r].wanted
<1>1. call[r] \in Locals
  BY TypeOfLocals
<1>2. call'[r] = Idle \/ call'[r] = [call[r] EXCEPT !.pc = "answer"]
  BY CallChange DEF PunchRemove, Leave
<1> QED
  BY <1>1, <1>2, IdleCall DEF PunchRemove, At, Locals

(***************************************************************************)
(* Tabs                                                                    *)
(***************************************************************************)

Places == {"away", "page", "leaving", "login", "form", "issuing",
           "ticket", "validating", "locally", "logout", "home", "text"}

\* A tab that goes somewhere keeps its last ticket, and nothing else.
LEMMA TabRecords ==
  ASSUME tab \in [Requests -> Tab], NEW r \in Requests
  PROVE  /\ tab[r] \in Tab
         /\ tab[r].ticket \in Tickets \cup {<<>>}
         /\ Left(r) \in Tab /\ Left(r).ticket = tab[r].ticket /\ Left(r).at = "away"
         /\ \A at \in Places :
              LET t == [Left(r) EXCEPT !.at = at] IN
              t \in Tab /\ t.at = at /\ t.ticket = tab[r].ticket
         /\ \A at \in Places :
              LET t == [Left(r) EXCEPT !.at = at, !.typed = TRUE] IN
              t \in Tab /\ t.at = at /\ t.ticket = tab[r].ticket
         /\ \A at \in Places :
              LET t == [Left(r) EXCEPT !.at = at, !.then = "login"] IN
              t \in Tab /\ t.at = at /\ t.ticket = tab[r].ticket
         /\ \A at \in Places, x \in Tickets :
              LET t == [NewTab EXCEPT !.at = at, !.ticket = x] IN
              t \in Tab /\ t.at = at /\ t.ticket = x
         /\ LET t == [tab[r] EXCEPT !.checked = TRUE] IN
              t \in Tab /\ t.at = tab[r].at /\ t.ticket = tab[r].ticket
<1>1. tab[r] \in Tab
  OBVIOUS
<1>2. /\ Left(r) \in Tab /\ Left(r).ticket = tab[r].ticket /\ Left(r).at = "away"
      /\ NewTab \in Tab
  BY <1>1 DEF Left, NewTab, Tab
<1>3. ASSUME NEW at \in Places, NEW x \in Tickets
      PROVE  LET u == [NewTab EXCEPT !.at = at, !.ticket = x] IN
             u \in Tab /\ u.at = at /\ u.ticket = x
  BY DEF NewTab, Tab, Places
<1>4. LET u == [tab[r] EXCEPT !.checked = TRUE] IN
      u \in Tab /\ u.at = tab[r].at /\ u.ticket = tab[r].ticket
  BY <1>1 DEF Tab
<1>5. tab[r].ticket \in Tickets \cup {<<>>}
  BY <1>1 DEF Tab
<1>6. \A at \in Places :
        /\ LET t == [Left(r) EXCEPT !.at = at] IN
             t \in Tab /\ t.at = at /\ t.ticket = tab[r].ticket
        /\ LET t == [Left(r) EXCEPT !.at = at, !.typed = TRUE] IN
             t \in Tab /\ t.at = at /\ t.ticket = tab[r].ticket
        /\ LET t == [Left(r) EXCEPT !.at = at, !.then = "login"] IN
             t \in Tab /\ t.at = at /\ t.ticket = tab[r].ticket
  <2> DEFINE left == Left(r)
  <2>1. left \in Tab /\ left.ticket = tab[r].ticket
    BY <1>2
  <2> HIDE DEF left
  <2>2. \A at \in Places : LET t == [left EXCEPT !.at = at] IN
          t \in Tab /\ t.at = at /\ t.ticket = tab[r].ticket
    BY <2>1 DEF Tab, Places
  <2>3. \A at \in Places : LET t == [left EXCEPT !.at = at, !.typed = TRUE] IN
          t \in Tab /\ t.at = at /\ t.ticket = tab[r].ticket
    BY <2>1 DEF Tab, Places
  <2>4. \A at \in Places : LET t == [left EXCEPT !.at = at, !.then = "login"] IN
          t \in Tab /\ t.at = at /\ t.ticket = tab[r].ticket
    BY <2>1 DEF Tab, Places
  <2> QED
    BY <2>2, <2>3, <2>4, Zenon DEF left
<1> QED
  BY <1>1, <1>2, <1>3, <1>4, <1>5, <1>6, Zenon

LEMMA GoTab ==
  ASSUME tab \in [Requests -> Tab], NEW r \in Requests, NEW at \in Places, Go(r, at)
  PROVE  \E t \in Tab : GoWith(r, t) /\ t.at = at /\ t.ticket = tab[r].ticket
<1> DEFINE t == [Left(r) EXCEPT !.at = at]
<1>1. t \in Tab /\ t.at = at /\ t.ticket = tab[r].ticket
  BY TabRecords, Zenon
<1>2. GoWith(r, t)
  BY DEF Go
<1> QED
  BY <1>1, <1>2, Zenon

LEMMA RenderedTab ==
  ASSUME tab \in [Requests -> Tab], clientUser' \in [Clients -> Users \cup {None}],
         NEW r \in Requests
  PROVE  /\ Rendered(r) \in Tab /\ Rendered(r).at = "page"
         /\ Rendered(r).ticket = tab[r].ticket
<1>1. Left(r) \in Tab /\ Left(r).ticket = tab[r].ticket
  BY TabRecords
<1>2. clientUser'[Client(r)] \in Users \cup {None}
  BY DEF Client, Clients
<1> QED
  BY <1>1, <1>2 DEF Rendered, Tab

\* What was handed out and what was proven stay so; with them, whoever was given
\* a ticket.
LEMMA GivenGrows ==
  ASSUME handed \subseteq handed', proven \subseteq proven', NEW b
  PROVE  GivenTo(b) \subseteq GivenTo(b)'
  BY DEF GivenTo

\* A step of one tab leaves the others as they were.
LEMMA OtherTabsOK ==
  ASSUME tab \in [Requests -> Tab], NEW r \in Requests, NEW t \in Tab, GoWith(r, t),
         \A q \in Requests : TabOK(q),
         \A q \in Requests \ {r} : call'[q] = call[q],
         handed \subseteq handed', proven \subseteq proven'
  PROVE  /\ tab' \in [Requests -> Tab] /\ tab'[r] = t
         /\ \A q \in Requests \ {r} : tab'[q] = tab[q] /\ TabOK(q)'
<1>1. /\ tab' \in [Requests -> Tab] /\ tab'[r] = t
      /\ \A q \in Requests \ {r} : tab'[q] = tab[q]
  BY DEF GoWith
<1>2. ASSUME NEW q \in Requests \ {r} PROVE TabOK(q)'
  <2>1. TabOK(q) /\ tab'[q] = tab[q] /\ call'[q] = call[q]
    BY <1>1
  <2>2. GivenTo(BrowserOf[q]) \subseteq GivenTo(BrowserOf[q])'
    BY GivenGrows
  <2> QED
    BY <2>1, <2>2 DEF TabOK, In, Validates
<1> QED
  BY <1>1, <1>2

\* Sessions that end, and tickets and proofs that are added, leave every session
\* explained.
LEMMA SessionsKept ==
  ASSUME SessionsWereTickets, handed \subseteq handed', proven \subseteq proven',
         \A c \in Clients : clientUser'[c] \in {None, clientUser[c]}
  PROVE  SessionsWereTickets'
  BY GivenGrows DEF SessionsWereTickets

\* A step of a tab that neither asks for a ticket nor presents one: no session is
\* begun, and nothing is handed out or proven.
LEMMA QuietStep ==
  ASSUME SignOnIInv, TypeOK', NEW r \in Requests, NEW t \in Tab, GoWith(r, t),
         t.at \notin {"issuing", "validating", "locally"}, t.ticket = tab[r].ticket,
         \A q \in Requests \ {r} : call'[q] = call[q],
         serverUser' \in [Browsers -> Users \cup {None}],
         \A b \in Browsers : serverUser'[b] \in {None, serverUser[b]},
         clientUser' \in [Clients -> Users \cup {None}],
         \A c \in Clients : clientUser'[c] \in {None, clientUser[c]},
         UNCHANGED <<handed, proven>>
  PROVE  SignOnIInv'
<1>1. /\ tab' \in [Requests -> Tab] /\ tab'[r] = t
      /\ \A q \in Requests \ {r} : TabOK(q)'
  BY OtherTabsOK DEF SignOnIInv, SignOnTypeOK
<1>2. TabOK(r)'
  <2>1. GivenTo(BrowserOf[r])' = GivenTo(BrowserOf[r])
    BY DEF GivenTo
  <2>2. TabOK(r)
    BY DEF SignOnIInv
  <2> QED
    BY <1>1, <2>1, <2>2 DEF TabOK, In, Validates
<1>3. SignOnTypeOK'
  BY <1>1 DEF SignOnIInv, SignOnTypeOK
<1>4. KnownWereProven' /\ TicketsWereProven' /\ SessionsWereTickets'
  BY SessionsKept DEF SignOnIInv, KnownWereProven, TicketsWereProven
<1> QED
  BY <1>1, <1>2, <1>3, <1>4 DEF SignOnIInv

(***************************************************************************)
(* The invariant: the steps that ask for no ticket and present none        *)
(***************************************************************************)

\* Cookies that are deleted leave the others, and what they name.
LEMMA CookieFacts ==
  ASSUME SignOnTypeOK, NEW r \in Requests
  PROVE  /\ BrowserOf[r] \in Browsers /\ Client(r) \in Clients
         /\ LET c == [clientUser EXCEPT ![Client(r)] = None] IN
              /\ c \in [Clients -> Users \cup {None}]
              /\ \A k \in Clients : c[k] \in {None, clientUser[k]}
         /\ LET s == [serverUser EXCEPT ![BrowserOf[r]] = None] IN
              /\ s \in [Browsers -> Users \cup {None}]
              /\ \A b \in Browsers : s[b] \in {None, serverUser[b]}
  BY DEF SignOnTypeOK, Client, Clients

\* A step of CheckAndPunch is a step of the server.
LEMMA PunchGetMoves ==
  ASSUME TypeOK, NEW r \in Requests, PunchGet(r)
  PROVE  ~ UNCHANGED vars
<1>1. call'[r].pc = "punch_remove"
  BY PunchGetCall
<1>2. call[r].pc = "idle"
  BY DEF PunchGet, At
<1> QED
  BY <1>1, <1>2 DEF vars

\* Visit and Repeat, the links of a page, a local log-in that asks nobody,
\* CasSdk.State, and what sends a tab to a text or to the form.
LEMMA TabOnlyInv ==
  ASSUME SignOnIInv, TypeOK', NEW r \in Requests, UNCHANGED <<vars, cookies, proven>>,
         Visit(r) \/ WantLogin(r) \/ Repeat(r) \/ LogInLocally(r) \/ State(r)
         \/ GoToServer(r) \/ Refused(r) \/ ServerGaveUp(r)
  PROVE  SignOnIInv'
<1>1. SignOnTypeOK
  BY DEF SignOnIInv
<1>2. \E t \in Tab : /\ GoWith(r, t) /\ t.ticket = tab[r].ticket
                     /\ t.at \notin {"issuing", "validating", "locally"}
  <2>0. tab \in [Requests -> Tab]
    BY <1>1 DEF SignOnTypeOK
  <2>1. CASE Visit(r)
    <3>1. clientUser' \in [Clients -> Users \cup {None}]
      BY <1>1 DEF SignOnTypeOK, cookies
    <3>2. Rendered(r) \in Tab /\ Rendered(r).at = "page" /\ Rendered(r).ticket = tab[r].ticket
      BY <2>0, <3>1, RenderedTab
    <3>3. GoWith(r, Rendered(r))
      BY <2>1 DEF Visit
    <3> QED
      BY <3>2, <3>3
  <2>2. CASE WantLogin(r) \/ Repeat(r) \/ Refused(r) \/ ServerGaveUp(r)
    <3>1. \E at \in {"login", "ticket", "text"} : Go(r, at)
      BY <2>2 DEF WantLogin, Repeat, Refused, ServerGaveUp
    <3> QED
      BY <2>0, <3>1, GoTab DEF Places
  <2>3. CASE State(r)
    <3>1. CASE \E at \in {"leaving", "login"} : Go(r, at)
      BY <2>0, <3>1, GoTab DEF Places
    <3>2. CASE GoWith(r, [tab[r] EXCEPT !.checked = TRUE])
      <4> DEFINE t == [tab[r] EXCEPT !.checked = TRUE]
      <4>1. t \in Tab /\ t.at = tab[r].at /\ t.ticket = tab[r].ticket
        BY <2>0, TabRecords, Zenon
      <4>2. tab[r].at = "page"
        BY <2>3 DEF State, In
      <4> HIDE DEF t
      <4> QED
        BY <3>2, <4>1, <4>2 DEF t
    <3>3. CASE GoWith(r, [Left(r) EXCEPT !.at = "leaving", !.then = "login"])
      <4>1. "leaving" \in Places
        BY DEF Places
      <4> DEFINE t == [Left(r) EXCEPT !.at = "leaving", !.then = "login"]
      <4>2. t \in Tab /\ t.at = "leaving" /\ t.ticket = tab[r].ticket
        BY <2>0, <4>1, TabRecords, Zenon
      <4> HIDE DEF t
      <4> QED
        BY <3>3, <4>2 DEF t
    <3> QED
      BY <2>3, <3>1, <3>2, <3>3 DEF State
  <2>4. CASE GoToServer(r)
    <3>1. ~IssueStart(r)
      BY <1>1, IssueStartCall DEF IssueStart, At, vars, SignOnTypeOK
    <3>2. \E at \in {"form", "text"} : Go(r, at)
      BY <2>4, <3>1 DEF GoToServer
    <3> QED
      BY <2>0, <3>2, GoTab DEF Places
  <2>5. CASE LogInLocally(r)
    <3>1. ~PunchGet(r)
      BY <1>1, PunchGetMoves DEF SignOnTypeOK
    <3>2. Go(r, "text")
      BY <2>5, <3>1 DEF LogInLocally
    <3> QED
      BY <2>0, <3>2, GoTab DEF Places
  <2> QED
    BY <2>1, <2>2, <2>3, <2>4, <2>5
<1>3. /\ \A q \in Requests \ {r} : call'[q] = call[q]
      /\ serverUser' = serverUser /\ clientUser' = clientUser
      /\ UNCHANGED <<handed, proven>>
  BY DEF vars, told, cookies
<1> QED
  BY <1>1, <1>2, <1>3, QuietStep DEF SignOnTypeOK

\* Logging off at the site, whether the server is told or not, and whether the
\* script that asked for it hears of it or not.
LEMMA SiteLogOffInv ==
  ASSUME SignOnIInv, TypeOK', NEW r \in Requests, WantLogout(r) \/ LocalLogOff(r)
  PROVE  SignOnIInv'
<1>1. SignOnTypeOK
  BY DEF SignOnIInv
<1>2. /\ clientUser' \in {clientUser, [clientUser EXCEPT ![Client(r)] = None]}
      /\ serverUser' \in {serverUser, [serverUser EXCEPT ![BrowserOf[r]] = None]}
      /\ UNCHANGED <<vars, proven>>
  BY DEF WantLogout, LocalLogOff, cookies
<1>3. /\ clientUser' \in [Clients -> Users \cup {None}]
      /\ \A c \in Clients : clientUser'[c] \in {None, clientUser[c]}
      /\ serverUser' \in [Browsers -> Users \cup {None}]
      /\ \A b \in Browsers : serverUser'[b] \in {None, serverUser[b]}
  BY <1>1, <1>2, CookieFacts DEF SignOnTypeOK
<1>4. \E t \in Tab : /\ GoWith(r, t) /\ t.ticket = tab[r].ticket
                     /\ t.at \notin {"issuing", "validating", "locally"}
  <2>1. tab \in [Requests -> Tab]
    BY <1>1 DEF SignOnTypeOK
  <2>2. CASE \E at \in {"logout", "login", "text"} : Go(r, at)
    BY <2>1, <2>2, GoTab DEF Places
  <2>3. CASE GoWith(r, Rendered(r))
    BY <1>3, <2>1, <2>3, RenderedTab
  <2>4. CASE GoWith(r, [Left(r) EXCEPT !.at = "page", !.checked = TRUE])
    <3> DEFINE left == Left(r)
               t == [left EXCEPT !.at = "page", !.checked = TRUE]
    <3>1. left \in Tab /\ left.ticket = tab[r].ticket
      BY <2>1, TabRecords
    <3> HIDE DEF left
    <3>2. t \in Tab /\ t.at = "page" /\ t.ticket = tab[r].ticket
      BY <3>1 DEF Tab
    <3>3. GoWith(r, t)
      BY <2>4 DEF left
    <3> QED
      BY <3>2, <3>3
  <2> QED
    BY <2>2, <2>3, <2>4 DEF WantLogout, LocalLogOff
<1>5. /\ \A q \in Requests \ {r} : call'[q] = call[q]
      /\ UNCHANGED <<handed, proven>>
  BY <1>2 DEF vars, told
<1> QED
  BY <1>1, <1>3, <1>4, <1>5, QuietStep

\* HandleLogoutRequest deletes the server's cookie, and no other.
LEMMA ServerLogoutInv ==
  ASSUME SignOnIInv, TypeOK', NEW r \in Requests, ServerLogout(r)
  PROVE  SignOnIInv'
<1>1. SignOnTypeOK
  BY DEF SignOnIInv
<1>2. /\ serverUser' \in [Browsers -> Users \cup {None}]
      /\ \A b \in Browsers : serverUser'[b] \in {None, serverUser[b]}
  BY <1>1, CookieFacts DEF ServerLogout
<1>3. \E t \in Tab : /\ GoWith(r, t) /\ t.ticket = tab[r].ticket
                     /\ t.at \notin {"issuing", "validating", "locally"}
  <2>1. Go(r, "home") /\ "home" \in Places
    BY DEF ServerLogout, Places
  <2> QED
    BY <1>1, <2>1, GoTab DEF SignOnTypeOK
<1>4. /\ \A q \in Requests \ {r} : call'[q] = call[q]
      /\ clientUser' = clientUser /\ UNCHANGED <<handed, proven>>
  BY DEF ServerLogout, vars, told
<1> QED
  BY <1>1, <1>2, <1>3, <1>4, QuietStep DEF SignOnTypeOK

\* The answer to a validation is lost.
LEMMA AnswerLostInv ==
  ASSUME SignOnIInv, TypeOK', NEW r \in Requests, AnswerLost(r)
  PROVE  SignOnIInv'
<1>1. SignOnTypeOK /\ TypeOK /\ Answer(r) /\ UNCHANGED <<cookies, proven>>
  BY DEF SignOnIInv, SignOnTypeOK, AnswerLost
<1>2. \E t \in Tab : /\ GoWith(r, t) /\ t.ticket = tab[r].ticket
                     /\ t.at \notin {"issuing", "validating", "locally"}
  <2>1. Go(r, "text") /\ "text" \in Places
    BY DEF AnswerLost, Places
  <2> QED
    BY <1>1, <2>1, GoTab DEF SignOnTypeOK
<1>3. /\ \A q \in Requests \ {r} : call'[q] = call[q]
      /\ handed' = handed
  BY <1>1, ServerStepFrame DEF ValidateTicket, Answer
<1> QED
  BY <1>1, <1>2, <1>3, QuietStep DEF SignOnTypeOK, cookies

(***************************************************************************)
(* The invariant: passwords and tickets                                    *)
(***************************************************************************)

\* A step that proves a user in the tab's browser, or none, and begins no
\* session at a site.
LEMMA ProvingStep ==
  ASSUME SignOnIInv, TypeOK', NEW r \in Requests, NEW t \in Tab, GoWith(r, t),
         TabOK(r)',
         \A q \in Requests \ {r} : call'[q] = call[q],
         NEW user \in Users,
         proven' \in {proven, proven \cup {<<BrowserOf[r], user>>}},
         \/ serverUser' = serverUser
         \/ /\ serverUser' = [serverUser EXCEPT ![BrowserOf[r]] = user]
            /\ <<BrowserOf[r], user>> \in proven',
         UNCHANGED <<handed, clientUser>>
  PROVE  SignOnIInv'
<1>1. SignOnTypeOK /\ BrowserOf[r] \in Browsers
  BY CookieFacts DEF SignOnIInv
<1>2. /\ tab' \in [Requests -> Tab]
      /\ \A q \in Requests \ {r} : TabOK(q)'
  BY OtherTabsOK DEF SignOnIInv, SignOnTypeOK
<1>3. SignOnTypeOK'
  BY <1>1, <1>2 DEF SignOnTypeOK
<1>4. KnownWereProven'
  BY <1>1 DEF SignOnIInv, SignOnTypeOK, KnownWereProven
<1>5. TicketsWereProven' /\ SessionsWereTickets'
  BY SessionsKept DEF SignOnIInv, TicketsWereProven
<1> QED
  BY <1>2, <1>3, <1>4, <1>5 DEF SignOnIInv

\* A ticket that was given to a tab's browser stays so.
LEMMA TicketStaysGiven ==
  ASSUME NEW r \in Requests, TabOK(r), handed \subseteq handed', proven \subseteq proven',
         tab[r].ticket # <<>>
  PROVE  \E g \in GivenTo(BrowserOf[r])' : g.ticket = tab[r].ticket
<1>1. GivenTo(BrowserOf[r]) \subseteq GivenTo(BrowserOf[r])'
  BY GivenGrows
<1> QED
  BY <1>1 DEF TabOK

\* A password is typed, for a site or at the server's own page.
LEMMA PasswordInv ==
  ASSUME SignOnIInv, TypeOK', NEW r \in Requests, SubmitPassword(r) \/ LogInAtHome(r)
  PROVE  SignOnIInv'
<1>1. SignOnTypeOK /\ TypeOK /\ TabOK(r)
  BY DEF SignOnIInv, SignOnTypeOK
<1>2. PICK user \in Users :
        /\ proven' = proven \cup {<<BrowserOf[r], user>>}
        /\ UNCHANGED clientUser
        /\ \/ /\ IssueStart(r) /\ call'[r].user = user
              /\ GoWith(r, [Left(r) EXCEPT !.at = "issuing", !.typed = TRUE])
              /\ UNCHANGED serverUser
           \/ /\ serverUser' \in {serverUser, [serverUser EXCEPT ![BrowserOf[r]] = user]}
              /\ Go(r, "text") \/ Go(r, "away")
              /\ UNCHANGED vars
  BY DEF SubmitPassword, LogInAtHome
<1>3. proven \subseteq proven' /\ <<BrowserOf[r], user>> \in proven'
  BY <1>2
<1>4. /\ \A q \in Requests \ {r} : call'[q] = call[q]
      /\ handed' = handed
  BY <1>1, <1>2, ServerStepFrame DEF Issue, IssueStart, vars, told
<1>5. tab[r].ticket # <<>> => \E g \in GivenTo(BrowserOf[r])' : g.ticket = tab[r].ticket
  BY <1>1, <1>3, <1>4, TicketStaysGiven
<1>6. CASE IssueStart(r) /\ call'[r].user = user
           /\ GoWith(r, [Left(r) EXCEPT !.at = "issuing", !.typed = TRUE])
           /\ UNCHANGED serverUser
  <2> DEFINE t == [Left(r) EXCEPT !.at = "issuing", !.typed = TRUE]
  <2>1. t \in Tab /\ t.at = "issuing" /\ t.ticket = tab[r].ticket
    <3>1. "issuing" \in Places
      BY DEF Places
    <3> QED
      BY <1>1, <3>1, TabRecords, Zenon DEF SignOnTypeOK
  <2>2. tab'[r] = t
    BY <1>1, <1>6 DEF GoWith, SignOnTypeOK
  <2> HIDE DEF t
  <2>3. TabOK(r)'
    BY <1>3, <1>5, <1>6, <2>1, <2>2 DEF TabOK, In, Validates
  <2> QED
    BY <1>2, <1>3, <1>4, <1>6, <2>1, <2>3, ProvingStep DEF t
<1>7. CASE /\ serverUser' \in {serverUser, [serverUser EXCEPT ![BrowserOf[r]] = user]}
           /\ Go(r, "text") \/ Go(r, "away")
  <2>1. PICK t \in Tab : GoWith(r, t) /\ t.at \in {"text", "away"} /\ t.ticket = tab[r].ticket
    BY <1>1, <1>7, GoTab DEF SignOnTypeOK, Places
  <2>2. tab'[r] = t
    BY <1>1, <2>1 DEF GoWith, SignOnTypeOK
  <2>3. TabOK(r)'
    BY <1>5, <2>1, <2>2 DEF TabOK, In, Validates
  <2> QED
    BY <1>2, <1>3, <1>4, <1>7, <2>1, <2>3, ProvingStep
<1> QED
  BY <1>2, <1>6, <1>7

\* A step of a request of a tab that leaves the cookies and what was handed out.
LEMMA WorkingStep ==
  ASSUME SignOnIInv, TypeOK', NEW r \in Requests, NEW t \in Tab, GoWith(r, t),
         TabOK(r)',
         \A q \in Requests \ {r} : call'[q] = call[q],
         UNCHANGED <<handed, cookies, proven>>
  PROVE  SignOnIInv'
<1>1. SignOnTypeOK
  BY DEF SignOnIInv
<1>2. /\ tab' \in [Requests -> Tab]
      /\ \A q \in Requests \ {r} : TabOK(q)'
  BY <1>1, OtherTabsOK DEF SignOnIInv, SignOnTypeOK
<1>3. SignOnTypeOK'
  BY <1>1, <1>2 DEF SignOnTypeOK, cookies
<1>4. KnownWereProven' /\ TicketsWereProven' /\ SessionsWereTickets'
  BY SessionsKept DEF SignOnIInv, KnownWereProven, TicketsWereProven, cookies
<1> QED
  BY <1>2, <1>3, <1>4 DEF SignOnIInv

\* A tab that stays as it is, is written as it was.
LEMMA SameTab ==
  ASSUME tab \in [Requests -> Tab], NEW r \in Requests, UNCHANGED tab
  PROVE  tab[r] \in Tab /\ GoWith(r, tab[r])
  BY DEF GoWith

\* The server knows the browser, and a ticket is asked of it.
LEMMA AskInv ==
  ASSUME SignOnIInv, TypeOK', NEW r \in Requests, GoToServer(r), IssueStart(r)
  PROVE  SignOnIInv'
<1>1. SignOnTypeOK /\ TypeOK /\ TabOK(r) /\ BrowserOf[r] \in Browsers
  BY CookieFacts DEF SignOnIInv, SignOnTypeOK
<1>2. call'[r].pc = "issue_read"
  BY <1>1, IssueStartCall
<1>3. UNCHANGED vars => call[r].pc = "issue_read"
  BY <1>2 DEF vars
<1>4. ~ UNCHANGED vars
  BY <1>3 DEF IssueStart, At
<1>5. /\ call'[r].user = serverUser[BrowserOf[r]] /\ serverUser[BrowserOf[r]] # None
      /\ Go(r, "issuing") /\ UNCHANGED <<cookies, proven>>
  BY <1>4 DEF GoToServer
<1>6. <<BrowserOf[r], call'[r].user>> \in proven'
  BY <1>1, <1>5 DEF SignOnIInv, KnownWereProven
<1>7. /\ \A q \in Requests \ {r} : call'[q] = call[q]
      /\ handed' = handed
  BY <1>1, ServerStepFrame DEF Issue, IssueStart, told
<1>8. PICK t \in Tab : GoWith(r, t) /\ t.at = "issuing" /\ t.ticket = tab[r].ticket
  BY <1>1, <1>5, GoTab DEF SignOnTypeOK, Places
<1>9. tab'[r] = t
  BY <1>1, <1>8 DEF GoWith, SignOnTypeOK
<1>10. tab[r].ticket # <<>> => \E g \in GivenTo(BrowserOf[r])' : g.ticket = tab[r].ticket
  BY <1>1, <1>5, <1>7, TicketStaysGiven
<1>11. TabOK(r)'
  BY <1>6, <1>8, <1>9, <1>10 DEF TabOK, In, Validates
<1> QED
  BY <1>5, <1>7, <1>8, <1>11, WorkingStep

\* The server works on a ticket: it counts, or removes the one presented.
LEMMA ServerWorksInv ==
  ASSUME SignOnIInv, TypeOK', NEW r \in Requests, Issuing(r) \/ Validating(r)
  PROVE  SignOnIInv'
<1>1. /\ SignOnTypeOK /\ TypeOK /\ TabOK(r) /\ BrowserOf[r] \in Browsers
      /\ UNCHANGED <<cookies, tab, proven>>
      /\ Issue(r) \/ ValidateTicket(r)
  BY CookieFacts DEF SignOnIInv, SignOnTypeOK, Issuing, Validating, Issue, ValidateTicket
<1>2. /\ \A q \in Requests \ {r} : call'[q] = call[q]
      /\ handed' = handed
  BY <1>1, ServerStepFrame
     DEF Issuing, Validating, IssueRead, IssueWrite, IssueAdd, PunchRemove, At, told
<1>3. tab[r] \in Tab /\ GoWith(r, tab[r]) /\ tab' = tab
  BY <1>1, SameTab DEF SignOnTypeOK
<1>4. tab[r].ticket # <<>> => \E g \in GivenTo(BrowserOf[r])' : g.ticket = tab[r].ticket
  BY <1>1, <1>2, TicketStaysGiven
<1>5. TabOK(r)'
  <2>1. CASE Issuing(r)
    <3>1. /\ call'[r].user = call[r].user /\ call[r].pc \in {"issue_read", "issue_write"}
          /\ tab[r].at = "issuing"
      BY <1>1, <2>1, IssuingCall DEF Issuing, In
    <3> QED
      BY <1>1, <1>3, <1>4, <3>1 DEF TabOK, In, Validates
  <2>2. CASE Validating(r)
    <3>1. /\ call[r].pc = "punch_remove" /\ Validates(r)
          /\ \/ call'[r].pc = "idle"
             \/ /\ call'[r].num = call[r].num /\ call'[r].ms = call[r].ms
                /\ call'[r].wanted = call[r].wanted
      BY <1>1, <2>2, PunchRemoveCall DEF Validating
    <3>2. GivenTo(BrowserOf[r])' = GivenTo(BrowserOf[r])
      BY <1>1, <1>2 DEF GivenTo
    <3> QED
      BY <1>1, <1>3, <1>4, <3>1, <3>2 DEF TabOK, In, Validates
  <2> QED
    BY <1>1, <2>1, <2>2
<1> QED
  BY <1>1, <1>2, <1>3, <1>5, WorkingStep

\* A tab presents its ticket, or a local log-in presents one of its browser.
LEMMA PresentedInv ==
  ASSUME SignOnIInv, TypeOK', NEW r \in Requests, Presented(r) \/ LogInLocally(r),
         PunchGet(r)
  PROVE  SignOnIInv'
<1> DEFINE x == <<call'[r].num, call'[r].ms>>
<1>1. SignOnTypeOK /\ TypeOK /\ TabOK(r) /\ UNCHANGED <<cookies, proven>>
  BY DEF SignOnIInv, SignOnTypeOK, Presented, LogInLocally
<1>2. /\ \A q \in Requests \ {r} : call'[q] = call[q]
      /\ handed' = handed
  BY <1>1, ServerStepFrame DEF ValidateTicket, PunchGet, told
<1>3. PICK q \in Requests : BrowserOf[q] = BrowserOf[r] /\ x = tab[q].ticket
  <2>1. ~ UNCHANGED vars
    BY <1>1, PunchGetMoves
  <2> QED
    BY <2>1 DEF Presented, LogInLocally
<1>4. PICK t \in Tab : /\ GoWith(r, t) /\ t.ticket = tab[r].ticket
                      /\ \/ t.at = "validating" /\ call'[r].wanted = SiteOf[r]
                         \/ t.at = "locally"
  <2>1. ~ UNCHANGED vars
    BY <1>1, PunchGetMoves
  <2>2. \/ Go(r, "validating") /\ call'[r].wanted = SiteOf[r]
        \/ Go(r, "locally")
    BY <2>1 DEF Presented, LogInLocally
  <2>3. "validating" \in Places /\ "locally" \in Places
    BY DEF Places
  <2> QED
    BY <1>1, <2>2, <2>3, GoTab DEF SignOnTypeOK
<1>5. tab'[r] = t
  BY <1>1, <1>4 DEF GoWith, SignOnTypeOK
<1>6. tab[r].ticket # <<>> => \E g \in GivenTo(BrowserOf[r])' : g.ticket = tab[r].ticket
  BY <1>1, <1>2, TicketStaysGiven
<1>7. \E g \in GivenTo(BrowserOf[r])' : g.ticket = x
  <2>1. TabOK(q)
    BY DEF SignOnIInv
  <2>2. \A m, n : <<m, n>> # <<>>
    OBVIOUS
  <2>3. PICK g \in GivenTo(BrowserOf[q])' : g.ticket = tab[q].ticket
    <3>1. tab[q].ticket # <<>>
      BY <1>3, <2>2
    <3> QED
      BY <1>1, <1>2, <2>1, <3>1, TicketStaysGiven
  <2> QED
    BY <1>3, <2>3
<1>8. TabOK(r)'
  BY <1>4, <1>5, <1>6, <1>7 DEF TabOK, In, Validates
<1> QED
  BY <1>1, <1>2, <1>4, <1>8, WorkingStep

\* The browser is redirected with a ticket for a user proven in it.
LEMMA RedirectedInv ==
  ASSUME SignOnIInv, CasServerIInv, TypeOK', NEW r \in Requests, Redirected(r)
  PROVE  SignOnIInv'
<1> DEFINE b == BrowserOf[r]
           x == <<call[r].num, call[r].ms>>
           h0 == [ticket |-> x, user |-> call[r].user, service |-> call[r].service, at |-> now]
           t == [NewTab EXCEPT !.at = "ticket", !.ticket = x]
<1>1. /\ SignOnTypeOK /\ TypeOK /\ TabOK(r) /\ b \in Browsers
      /\ In(r, "issuing") /\ IssueAdd(r) /\ UNCHANGED <<clientUser, proven>>
      /\ serverUser' \in {serverUser, [serverUser EXCEPT ![b] = call[r].user]}
      /\ GoWith(r, t)
  BY CookieFacts DEF SignOnIInv, SignOnTypeOK, Redirected
<1>2. /\ call[r].pc = "issue_add" /\ RequestOK(r)
      /\ call[r].user \in Users /\ x \in Tickets
  BY <1>1, TicketOf DEF CasServerIInv, RequestOK, IssueAdd, At
<1>3. <<b, call[r].user>> \in proven /\ proven' = proven
  BY <1>1, <1>2 DEF TabOK
<1>4. handed' = handed \cup {h0}
  BY <1>1 DEF IssueAdd
<1>5. \A q \in Requests \ {r} : call'[q] = call[q]
  BY <1>1, ServerStepFrame DEF Issue
<1>6. t \in Tab /\ t.at = "ticket" /\ t.ticket = x
  BY <1>2 DEF NewTab, Tab
<1> HIDE DEF t
<1>7. /\ tab' \in [Requests -> Tab] /\ tab'[r] = t
      /\ \A q \in Requests \ {r} : TabOK(q)'
  BY <1>1, <1>3, <1>4, <1>5, <1>6, OtherTabsOK DEF SignOnIInv, SignOnTypeOK
<1>8. h0 \in GivenTo(b)' /\ h0.ticket = x
  BY <1>3, <1>4 DEF GivenTo
<1>9. TabOK(r)'
  BY <1>6, <1>7, <1>8 DEF TabOK, In, Validates
<1>10. SignOnTypeOK'
  BY <1>1, <1>2, <1>7 DEF SignOnTypeOK
<1>11. KnownWereProven'
  BY <1>1, <1>3 DEF SignOnIInv, SignOnTypeOK, KnownWereProven
<1>12. TicketsWereProven'
  BY <1>1, <1>3, <1>4 DEF SignOnIInv, TicketsWereProven
<1>13. SessionsWereTickets'
  BY <1>1, <1>3, <1>4, SessionsKept DEF SignOnIInv
<1> QED
  BY <1>7, <1>9, <1>10, <1>11, <1>12, <1>13 DEF SignOnIInv

\* An answer that arrives was for a ticket of this string and user, and for the
\* service the site asked for: its own, or the one the local log-in names.
LEMMA SignedInFacts ==
  ASSUME SignOnIInv, CasServerIInv, NEW r \in Requests, SignedIn(r)
  PROVE  /\ call[r].user \in Users
         /\ SiteOf[r] = call[r].wanted \/ LogsInLocally(r)
         /\ \E h \in handed, g \in GivenTo(BrowserOf[r]) :
              h.user = call[r].user /\ h.service = call[r].wanted /\ g.ticket = h.ticket
<1>1. /\ TabOK(r) /\ RequestOK(r) /\ Validates(r) /\ call[r].pc = "answer"
      /\ TypeOK
  BY DEF SignOnIInv, CasServerIInv, SignedIn, Answer, At
<1>2. /\ call[r].user \in Users /\ call[r].service = call[r].wanted
      /\ Holds(call[r]) # {}
  BY <1>1 DEF RequestOK
<1>3. PICK h \in handed : /\ h.ticket = <<call[r].num, call[r].ms>>
                          /\ h.user = call[r].user /\ h.service = call[r].wanted
  BY <1>2 DEF Holds
<1>4. PICK g \in GivenTo(BrowserOf[r]) : g.ticket = <<call[r].num, call[r].ms>>
  BY <1>1 DEF TabOK
<1>5. SiteOf[r] = call[r].wanted \/ LogsInLocally(r)
  BY <1>1 DEF TabOK, Validates, In, LogsInLocally, At
<1> QED
  BY <1>2, <1>3, <1>4, <1>5

\* The site signs the browser in as the answer says.
LEMMA SignedInInv ==
  ASSUME SignOnIInv, CasServerIInv, TypeOK', NEW r \in Requests, SignedIn(r)
  PROVE  SignOnIInv'
<1>1. /\ SignOnTypeOK /\ TypeOK /\ TabOK(r) /\ Client(r) \in Clients /\ Answer(r)
      /\ clientUser' = [clientUser EXCEPT ![Client(r)] = call[r].user]
      /\ UNCHANGED <<serverUser, proven>>
      /\ Go(r, "text") \/ GoWith(r, Rendered(r))
  BY CookieFacts DEF SignOnIInv, SignOnTypeOK, SignedIn
<1>2. /\ call[r].user \in Users
      /\ \E h \in handed, g \in GivenTo(BrowserOf[r]) :
           h.user = call[r].user /\ g.ticket = h.ticket
  BY SignedInFacts
<1>3. /\ \A q \in Requests \ {r} : call'[q] = call[q]
      /\ handed' = handed
  BY <1>1, ServerStepFrame DEF ValidateTicket, Answer
<1>4. clientUser' \in [Clients -> Users \cup {None}]
  BY <1>1, <1>2 DEF SignOnTypeOK
<1>5. PICK t \in Tab : GoWith(r, t) /\ t.at \in {"page", "text"} /\ t.ticket = tab[r].ticket
  <2>1. tab \in [Requests -> Tab] /\ "text" \in Places
    BY <1>1 DEF SignOnTypeOK, Places
  <2>2. Rendered(r) \in Tab /\ Rendered(r).at = "page" /\ Rendered(r).ticket = tab[r].ticket
    BY <1>4, <2>1, RenderedTab
  <2> QED
    BY <1>1, <2>1, <2>2, GoTab
<1>6. /\ tab' \in [Requests -> Tab] /\ tab'[r] = t
      /\ \A q \in Requests \ {r} : TabOK(q)'
  BY <1>1, <1>3, <1>5, OtherTabsOK DEF SignOnIInv, SignOnTypeOK
<1>7. tab[r].ticket # <<>> => \E g \in GivenTo(BrowserOf[r])' : g.ticket = tab[r].ticket
  BY <1>1, <1>3, TicketStaysGiven
<1>8. TabOK(r)'
  BY <1>5, <1>6, <1>7 DEF TabOK, In, Validates
<1>9. SignOnTypeOK'
  BY <1>1, <1>4, <1>6 DEF SignOnTypeOK
<1>10. KnownWereProven' /\ TicketsWereProven'
  BY <1>1, <1>3 DEF SignOnIInv, KnownWereProven, TicketsWereProven
<1>11. SessionsWereTickets'
  <2> SUFFICES ASSUME NEW c \in Clients, clientUser'[c] # None
               PROVE  \E h \in handed, g \in GivenTo(c[1]) :
                        h.user = clientUser'[c] /\ g.ticket = h.ticket
    <3>1. \A b : GivenTo(b)' = GivenTo(b)
      BY <1>1, <1>3 DEF GivenTo
    <3> QED
      BY <1>3, <3>1 DEF SessionsWereTickets
  <2>0. clientUser'[c] = IF c = Client(r) THEN call[r].user ELSE clientUser[c]
    BY <1>1 DEF SignOnTypeOK
  <2>1. CASE c = Client(r)
    <3>1. c[1] = BrowserOf[r]
      BY <2>1 DEF Client
    <3>2. clientUser'[c] = call[r].user
      BY <2>0, <2>1
    <3> QED
      BY <1>2, <3>1, <3>2
  <2>2. CASE c # Client(r)
    BY <2>0, <2>2 DEF SignOnIInv, SessionsWereTickets
  <2> QED
    BY <2>1, <2>2
<1> QED
  BY <1>6, <1>8, <1>9, <1>10, <1>11 DEF SignOnIInv

(***************************************************************************)
(* The invariant: the surroundings, and all steps together                 *)
(***************************************************************************)

\* A ticket dropped, a restarted server or the passing of time: a restart only
\* ends what the server was doing.
LEMMA SurroundingsInv ==
  ASSUME SignOnIInv, TypeOK', Surroundings
  PROVE  SignOnIInv'
<1>1. /\ UNCHANGED <<handed, serverUser, clientUser, tab, proven>>
      /\ call' = call \/ call' = [r \in Requests |-> Idle]
  BY DEF Surroundings, Evict, Recycle, Tick, cookies, told
<1>2. SignOnTypeOK'
  BY <1>1 DEF SignOnIInv, SignOnTypeOK
<1>3. KnownWereProven' /\ TicketsWereProven' /\ SessionsWereTickets'
  BY <1>1, SessionsKept DEF SignOnIInv, KnownWereProven, TicketsWereProven
<1>4. \A b : GivenTo(b)' = GivenTo(b)
  BY <1>1 DEF GivenTo
<1>5. ASSUME NEW r \in Requests PROVE TabOK(r)'
  <2>1. TabOK(r) /\ (call'[r] = call[r] \/ call'[r].pc = "idle")
    BY <1>1, IdleCall DEF SignOnIInv
  <2> QED
    BY <1>1, <1>4, <2>1 DEF TabOK, In, Validates
<1> QED
  BY <1>2, <1>3, <1>5 DEF SignOnIInv

\* Nobody is known before anyone has logged in.
LEMMA SignOnInitInv == SignOnInit => SignOnIInv
<1> SUFFICES ASSUME SignOnInit PROVE SignOnIInv
  OBVIOUS
<1>1. TypeOK /\ handed = {} /\ call = [r \in Requests |-> Idle]
  BY InitInv DEF SignOnInit, CasServerIInv, Init
<1>2. NewTab \in Tab /\ NewTab.at = "away" /\ NewTab.ticket = <<>>
  BY DEF NewTab, Tab
<1>3. SignOnTypeOK
  BY <1>1, <1>2 DEF SignOnInit, SignOnTypeOK
<1>4. KnownWereProven /\ TicketsWereProven /\ SessionsWereTickets
  BY <1>1 DEF SignOnInit, KnownWereProven, TicketsWereProven, SessionsWereTickets
<1>5. \A r \in Requests : TabOK(r)
  BY <1>2 DEF SignOnInit, TabOK, In, Validates
<1> QED
  BY <1>3, <1>4, <1>5 DEF SignOnIInv

\* Every step of a browser, a site or the server keeps the invariant.
LEMMA SignOnNextInv ==
  ASSUME SignOnIInv, CasServerIInv, TypeOK', [SignOnNext]_signOnVars
  PROVE  SignOnIInv'
<1>1. CASE UNCHANGED signOnVars
  <2> USE <1>1 DEF signOnVars, vars, told, cookies
  <2>1. SignOnTypeOK'
    BY DEF SignOnIInv, SignOnTypeOK
  <2>2. KnownWereProven' /\ TicketsWereProven' /\ SessionsWereTickets'
    BY SessionsKept DEF SignOnIInv, KnownWereProven, TicketsWereProven
  <2>3. \A r \in Requests : TabOK(r)'
    BY DEF SignOnIInv, TabOK, In, Validates, GivenTo
  <2> QED
    BY <2>1, <2>2, <2>3 DEF SignOnIInv
<1>2. CASE Surroundings
  BY <1>2, SurroundingsInv
<1>3. ASSUME NEW r \in Requests,
             Visit(r) \/ WantLogin(r) \/ Repeat(r) \/ State(r) \/ Refused(r) \/ ServerGaveUp(r)
      PROVE  SignOnIInv'
  <2>1. UNCHANGED <<vars, cookies, proven>>
    BY <1>3 DEF Visit, WantLogin, Repeat, State, Refused, ServerGaveUp
  <2> QED
    BY <1>3, <2>1, TabOnlyInv
<1>4. ASSUME NEW r \in Requests, GoToServer(r) PROVE SignOnIInv'
  <2>1. CASE IssueStart(r)
    BY <1>4, <2>1, AskInv
  <2>2. CASE ~IssueStart(r)
    <3>1. UNCHANGED <<vars, cookies, proven>>
      BY <1>4, <2>2 DEF GoToServer
    <3> QED
      BY <1>4, <3>1, TabOnlyInv
  <2> QED
    BY <2>1, <2>2
<1>5. ASSUME NEW r \in Requests, LogInLocally(r) PROVE SignOnIInv'
  <2>1. CASE PunchGet(r)
    BY <1>5, <2>1, PresentedInv
  <2>2. CASE ~PunchGet(r)
    <3>1. UNCHANGED <<vars, cookies, proven>>
      BY <1>5, <2>2 DEF LogInLocally
    <3> QED
      BY <1>5, <3>1, TabOnlyInv
  <2> QED
    BY <2>1, <2>2
<1>6. ASSUME NEW r \in Requests,
             \/ WantLogout(r) \/ LocalLogOff(r) \/ ServerLogout(r)
             \/ SubmitPassword(r) \/ LogInAtHome(r)
      PROVE  SignOnIInv'
  BY <1>6, SiteLogOffInv, ServerLogoutInv, PasswordInv
<1>7. ASSUME NEW r \in Requests,
             \/ Issuing(r) \/ Redirected(r) \/ Presented(r) \/ Validating(r)
             \/ SignedIn(r) \/ AnswerLost(r)
      PROVE  SignOnIInv'
  BY <1>7, ServerWorksInv, RedirectedInv, PresentedInv, SignedInInv, AnswerLostInv
     DEF Presented
<1> QED
  BY <1>1, <1>2, <1>3, <1>4, <1>5, <1>6, <1>7 DEF SignOnNext, Proceeds

(***************************************************************************)
(* The theorems                                                            *)
(***************************************************************************)

\* The server's invariant holds within single sign-on.
LEMMA ServerInvariant == SignOnSpec => []CasServerIInv
  BY ServerWithinSignOn, CasServerInvariant, PTL

\* The inductive invariant of single sign-on.
THEOREM SignOnInvariant == SignOnSpec => []SignOnIInv
<1>1. SignOnInit => SignOnIInv
  BY SignOnInitInv
<1>2. SignOnIInv /\ CasServerIInv /\ CasServerIInv' /\ [SignOnNext]_signOnVars => SignOnIInv'
  BY SignOnNextInv DEF CasServerIInv
<1> QED
  BY <1>1, <1>2, ServerInvariant, PTL DEF SignOnSpec

\* Cookies, pages and tabs have their types, whoever logs in where.
THEOREM SignOnTypes == SignOnSpec => []SignOnTypeOK
<1>1. SignOnIInv => SignOnTypeOK
  BY DEF SignOnIInv
<1> QED
  BY <1>1, SignOnInvariant, PTL

\* CasClient.Login signs a browser in as someone who never logged in there only
\* with a ticket that shares its string with one of that browser.
THEOREM ForeignSessionsShareTickets == SignOnSpec => []ForeignSessionNeedsSharedTicket
<1>1. SignOnIInv => ForeignSessionNeedsSharedTicket
  <2> SUFFICES ASSUME SignOnIInv, NEW c \in Clients, clientUser[c] # None,
                      <<c[1], clientUser[c]>> \notin proven
               PROVE  \E g, h \in handed :
                        /\ g.ticket = h.ticket /\ g # h
                        /\ h.user = clientUser[c] /\ <<c[1], g.user>> \in proven
    BY DEF ForeignSessionNeedsSharedTicket
  <2>1. PICK h \in handed, g \in GivenTo(c[1]) :
          h.user = clientUser[c] /\ g.ticket = h.ticket
    BY DEF SignOnIInv, SessionsWereTickets
  <2>2. g \in handed /\ <<c[1], g.user>> \in proven
    BY DEF GivenTo
  <2>3. g # h
    BY <2>1, <2>2
  <2> QED
    BY <2>1, <2>2, <2>3
<1> QED
  BY <1>1, SignOnInvariant, PTL

\* A tab comes to a validation only by presenting a ticket.
LEMMA OnlyPresenting ==
  ASSUME SignOnIInv, [SignOnNext]_signOnVars, NEW r \in Requests,
         ~Validates(r), Validates(r)'
  PROVE  PunchGet(r)
<1>1. TypeOK /\ tab \in [Requests -> Tab]
  BY DEF SignOnIInv, SignOnTypeOK
<1>2. ASSUME NEW q \in Requests, NEW t, GoWith(q, t), t.at \notin {"validating", "locally"}
      PROVE  FALSE
  BY <1>1, <1>2 DEF GoWith, Validates
<1>3. tab' # tab
  BY DEF Validates
<1>4. PICK q \in Requests :
        \/ Visit(q) \/ WantLogin(q) \/ Repeat(q) \/ LogInLocally(q) \/ WantLogout(q)
        \/ SubmitPassword(q) \/ LogInAtHome(q) \/ Proceeds(q)
  BY <1>3 DEF SignOnNext, Surroundings, signOnVars
<1>5. \A at \in Places \ {"validating", "locally"} : ~Go(q, at)
  BY <1>1, <1>2, GoTab
<1>6. ~GoWith(q, Rendered(q))
  BY <1>2 DEF Rendered, Left, NewTab
<1>7. Presented(q) \/ LogInLocally(q)
  <2>1. "away" \in Places /\ "login" \in Places /\ "form" \in Places /\ "issuing" \in Places
        /\ "ticket" \in Places /\ "logout" \in Places /\ "home" \in Places
        /\ "text" \in Places /\ "leaving" \in Places
    BY DEF Places
  <2>2. ~(Visit(q) \/ WantLogin(q) \/ Repeat(q) \/ WantLogout(q) \/ LogInAtHome(q))
    BY <1>5, <1>6, <2>1 DEF Visit, WantLogin, Repeat, WantLogout, LogInAtHome
  <2>3. ~(Refused(q) \/ AnswerLost(q) \/ ServerGaveUp(q) \/ ServerLogout(q) \/ GoToServer(q))
    BY <1>5, <2>1 DEF Refused, AnswerLost, ServerGaveUp, ServerLogout, GoToServer
  <2>4. ~(SignedIn(q) \/ Issuing(q) \/ Validating(q))
    BY <1>3, <1>5, <1>6, <2>1 DEF SignedIn, Issuing, Validating
  <2>5. ~SubmitPassword(q)
    <3>1. [Left(q) EXCEPT !.at = "issuing", !.typed = TRUE].at = "issuing"
      BY DEF Left, NewTab
    <3> QED
      BY <1>2, <1>5, <2>1, <3>1 DEF SubmitPassword
  <2>6. ~State(q)
    <3>1. [Left(q) EXCEPT !.at = "leaving", !.then = "login"].at = "leaving"
      BY DEF Left, NewTab
    <3>2. ASSUME In(q, "page"), GoWith(q, [tab[q] EXCEPT !.checked = TRUE]) PROVE FALSE
      <4>1. tab[q] \in Tab /\ tab[q].at = "page"
        BY <1>1, <3>2 DEF In
      <4>2. [tab[q] EXCEPT !.checked = TRUE].at = "page"
        BY <4>1 DEF Tab
      <4> QED
        BY <1>2, <3>2, <4>2
    <3> QED
      BY <1>2, <1>5, <2>1, <3>1, <3>2 DEF State
  <2>7. ~Redirected(q)
    <3>1. \A x : [NewTab EXCEPT !.at = "ticket", !.ticket = x].at = "ticket"
      BY DEF NewTab
    <3> QED
      BY <1>2, <3>1 DEF Redirected
  <2>8. ~LocalLogOff(q)
    <3>1. [Left(q) EXCEPT !.at = "page", !.checked = TRUE].at = "page"
      BY DEF Left, NewTab
    <3> QED
      BY <1>2, <1>5, <1>6, <2>1, <3>1 DEF LocalLogOff
  <2> QED
    BY <1>4, <2>2, <2>3, <2>4, <2>5, <2>6, <2>7, <2>8 DEF Proceeds
<1>8. PunchGet(q)
  <2>1. "text" \in Places
    BY DEF Places
  <2> QED
    BY <1>5, <1>7, <2>1 DEF Presented, LogInLocally
<1>9. q = r
  <2>1. \E t : GoWith(q, t)
    BY <1>5, <1>7 DEF Presented, LogInLocally, Go
  <2> QED
    BY <1>1, <2>1 DEF GoWith, Validates
<1> QED
  BY <1>8, <1>9

\* CheckAndPunch finds no ticket that was presented before.
LEMMA RetryStep ==
  ASSUME SignOnIInv, CasServerIInv, [SignOnNext]_signOnVars, NEW r \in Requests,
         ~Validates(r), Validates(r)'
  PROVE  <<call'[r].num, call'[r].ms>> \notin spent
<1>1. TypeOK /\ SpentTicketsGone
  BY DEF CasServerIInv
<1>2. /\ <<call'[r].num, call'[r].ms>> \in Tickets
      /\ Get(<<call'[r].num, call'[r].ms>>) # None
  BY <1>1, OnlyPresenting, PunchGetCall
<1> QED
  BY <1>1, <1>2 DEF Get, SpentTicketsGone

\* CasClient asks for a new ticket to retry: one that was presented is refused.
THEOREM RetriesNeedNewTickets == SignOnSpec => RetryNeedsNewTicket
<1> DEFINE Retry == \A r \in Requests :
             ~Validates(r) /\ Validates(r)' => <<call'[r].num, call'[r].ms>> \notin spent
<1>1. SignOnIInv /\ CasServerIInv /\ [SignOnNext]_signOnVars => [Retry]_signOnVars
  BY RetryStep
<1>2. SignOnSpec => [][Retry]_signOnVars
  BY <1>1, SignOnInvariant, ServerInvariant, PTL DEF SignOnSpec
<1> QED
  BY <1>2 DEF RetryNeedsNewTicket

(***************************************************************************)
(* The server and the sites implement SignOnService                        *)
(***************************************************************************)

\* What the server has vouched for, as the tickets it has handed out say.
Vouched == {<<h.user, h.service>> : h \in handed}

\* A step of one tab names or withdraws only what that tab's local log-in names.
LEMMA NamedStep ==
  ASSUME tab \in [Requests -> Tab], NEW r \in Requests, NEW t, GoWith(r, t),
         \A q \in Requests \ {r} : call'[q] = call[q]
  PROVE  /\ ~LogsInLocally(r)' => Named' \subseteq Named
         /\ LogsInLocally(r) /\ call'[r].wanted = call[r].wanted => Named' \subseteq Named
         /\ ~LogsInLocally(r) /\ ~LogsInLocally(r)' => Named' = Named
         /\ ~LogsInLocally(r) /\ LogsInLocally(r)' =>
              Named' = Named \cup {<<Client(r), call'[r].wanted>>}
<1> DEFINE Names(q) == <<Client(q), call[q].wanted>>
<1>1. \A n : n \in Named <=> \E q \in Requests : LogsInLocally(q) /\ n = Names(q)
  BY DEF Named
<1>2. \A n : n \in Named' <=> \E q \in Requests : LogsInLocally(q)' /\ n = Names(q)'
  BY DEF Named
<1>3. \A q \in Requests \ {r} : LogsInLocally(q)' = LogsInLocally(q) /\ Names(q)' = Names(q)
  BY DEF GoWith, LogsInLocally, In, At, Client
<1>4. Names(r)' = <<Client(r), call'[r].wanted>>
  BY DEF Client
<1>5. call'[r].wanted = call[r].wanted => Names(r)' = Names(r)
  BY DEF Client
<1> HIDE DEF Names
<1>6. ~LogsInLocally(r)' => Named' \subseteq Named
  BY <1>1, <1>2, <1>3
<1>7. LogsInLocally(r) /\ call'[r].wanted = call[r].wanted => Named' \subseteq Named
  BY <1>1, <1>2, <1>3, <1>5
<1>8. ~LogsInLocally(r) => Named \subseteq Named'
  BY <1>1, <1>2, <1>3
<1>9. LogsInLocally(r)' => Named' \subseteq Named \cup {Names(r)'} /\ Names(r)' \in Named'
  BY <1>1, <1>2, <1>3
<1> QED
  BY <1>4, <1>6, <1>7, <1>8, <1>9

\* Where a tab goes to.
LEMMA Destination ==
  ASSUME NEW r \in Requests
  PROVE  /\ \A at : Go(r, at) => \E t : GoWith(r, t) /\ t.at = at
         /\ [Left(r) EXCEPT !.at = "page", !.checked = TRUE].at = "page"
         /\ [Left(r) EXCEPT !.at = "leaving", !.then = "login"].at = "leaving"
         /\ [Left(r) EXCEPT !.at = "issuing", !.typed = TRUE].at = "issuing"
         /\ \A x : [NewTab EXCEPT !.at = "ticket", !.ticket = x].at = "ticket"
         /\ Rendered(r).at = "page"
<1>1. \A at : [Left(r) EXCEPT !.at = at].at = at
  BY DEF Left, NewTab
<1>2. ASSUME NEW at, Go(r, at) PROVE \E t : GoWith(r, t) /\ t.at = at
  <2> DEFINE t == [Left(r) EXCEPT !.at = at]
  <2>1. GoWith(r, t) /\ t.at = at
    BY <1>1, <1>2 DEF Go
  <2> QED
    BY <2>1
<1>3. /\ [Left(r) EXCEPT !.at = "page", !.checked = TRUE].at = "page"
      /\ [Left(r) EXCEPT !.at = "leaving", !.then = "login"].at = "leaving"
      /\ [Left(r) EXCEPT !.at = "issuing", !.typed = TRUE].at = "issuing"
      /\ \A x : [NewTab EXCEPT !.at = "ticket", !.ticket = x].at = "ticket"
      /\ Rendered(r).at = "page"
  BY DEF Rendered, Left, NewTab
<1> QED
  BY <1>2, <1>3, Zenon

\* A tab that goes elsewhere from elsewhere has to do with no local log-in.
LEMMA NotLocally ==
  ASSUME tab \in [Requests -> Tab], NEW r \in Requests, NEW t, GoWith(r, t),
         t.at # "locally", \A q \in Requests \ {r} : call'[q] = call[q]
  PROVE  Named' \subseteq Named /\ (~LogsInLocally(r) => Named' = Named)
<1>1. ~LogsInLocally(r)'
  BY DEF GoWith, LogsInLocally, In
<1> QED
  BY <1>1, NamedStep

\* A step that hands out nothing, begins no session and proves nobody does
\* nothing the service would see, unless it ends sessions or local log-ins.
LEMMA QuietStepMaps ==
  ASSUME UNCHANGED <<handed, proven>>,
         \/ UNCHANGED clientUser /\ Named' \subseteq Named
         \/ /\ \E c \in Clients : clientUser' = [clientUser EXCEPT ![c] = None]
            /\ UNCHANGED Named
  PROVE  [SignOn!Next]_SignOn!vars
<1>1. Vouched' = Vouched
  BY DEF Vouched
<1>2. CASE UNCHANGED clientUser /\ Named' \subseteq Named
  BY <1>1, <1>2 DEF SignOn!Next, SignOn!GiveUp, Vouched
<1>3. CASE /\ \E c \in Clients : clientUser' = [clientUser EXCEPT ![c] = None]
           /\ UNCHANGED Named
  BY <1>1, <1>3 DEF SignOn!Next, SignOn!SignOut, Vouched, Clients
<1> QED
  BY <1>2, <1>3

\* Nobody is vouched for when the server starts, and no log-in is under way.
LEMMA InitMaps == SignOnInit => SignOn!Init
<1> SUFFICES ASSUME SignOnInit PROVE SignOn!Init
  OBVIOUS
<1>1. \A r \in Requests : ~LogsInLocally(r)
  BY DEF SignOnInit, LogsInLocally, In, NewTab
<1>2. Named = {}
  BY <1>1 DEF Named
<1> QED
  BY <1>2 DEF SignOnInit, Init, SignOn!Init, Clients

\* A password typed proves its user, even when no ticket comes of it.
LEMMA PasswordMaps ==
  ASSUME SignOnIInv, NEW r \in Requests, SubmitPassword(r) \/ LogInAtHome(r)
  PROVE  [SignOn!Next]_SignOn!vars
<1>1. SignOnTypeOK /\ TypeOK /\ BrowserOf[r] \in Browsers
  BY CookieFacts DEF SignOnIInv, SignOnTypeOK
<1>2. PICK user \in Users : /\ proven' = proven \cup {<<BrowserOf[r], user>>}
                            /\ UNCHANGED clientUser
                            /\ IssueStart(r) \/ UNCHANGED vars
  BY DEF SubmitPassword, LogInAtHome
<1>3. /\ handed' = handed
      /\ \A q \in Requests \ {r} : call'[q] = call[q]
  BY <1>1, <1>2, ServerStepFrame DEF Issue, IssueStart, vars, told
<1>4. Vouched' = Vouched
  BY <1>3 DEF Vouched
<1>5. UNCHANGED Named
  <2>1. ~LogsInLocally(r)
    BY DEF SubmitPassword, LogInAtHome, LogsInLocally, In
  <2>2. \E t : GoWith(r, t) /\ t.at # "locally"
    <3>1. \/ \E at \in {"text", "away"} : Go(r, at)
          \/ GoWith(r, [Left(r) EXCEPT !.at = "issuing", !.typed = TRUE])
      BY DEF SubmitPassword, LogInAtHome
    <3>2. \A at \in {"text", "away"} : Go(r, at) => \E t : GoWith(r, t) /\ t.at # "locally"
      BY Destination
    <3>3. [Left(r) EXCEPT !.at = "issuing", !.typed = TRUE].at # "locally"
      BY Destination
    <3> QED
      BY <3>1, <3>2, <3>3, Zenon
  <2> QED
    BY <1>1, <1>3, <2>1, <2>2, NotLocally DEF SignOnTypeOK
<1> QED
  BY <1>1, <1>2, <1>4, <1>5 DEF SignOn!Next, SignOn!Prove, Vouched

\* The redirection with a ticket vouches for a user who was proven.
LEMMA RedirectedMaps ==
  ASSUME SignOnIInv, CasServerIInv, NEW r \in Requests, Redirected(r)
  PROVE  [SignOn!Next]_SignOn!vars
<1> DEFINE c == call[r]
           h0 == [ticket |-> <<c.num, c.ms>>, user |-> c.user, service |-> c.service, at |-> now]
<1>1. /\ SignOnTypeOK /\ TabOK(r) /\ RequestOK(r) /\ BrowserOf[r] \in Browsers
      /\ In(r, "issuing") /\ IssueAdd(r) /\ UNCHANGED <<clientUser, proven>>
  BY CookieFacts DEF SignOnIInv, CasServerIInv, Redirected
<1>2. c.user \in Users /\ c.service \in Services /\ <<BrowserOf[r], c.user>> \in proven
  BY <1>1 DEF RequestOK, TabOK, IssueAdd, At
<1>3. handed' = handed \cup {h0}
  BY <1>1 DEF IssueAdd
<1>4. PICK user \in Users, service \in Services : user = c.user /\ service = c.service
  BY <1>2
<1>5. Vouched' = Vouched \cup {<<user, service>>}
  <2>1. \A h : h \in handed' <=> h \in handed \/ h = h0
    BY <1>3
  <2>2. h0.user = user /\ h0.service = service
    BY <1>4
  <2> HIDE DEF h0
  <2>3. <<user, service>> \in Vouched'
    BY <2>1, <2>2 DEF Vouched
  <2>4. Vouched \subseteq Vouched'
    BY <2>1 DEF Vouched
  <2>5. Vouched' \subseteq Vouched \cup {<<user, service>>}
    BY <2>1, <2>2 DEF Vouched
  <2> QED
    BY <2>3, <2>4, <2>5
<1>6. UNCHANGED Named
  <2>1. ~LogsInLocally(r)
    BY <1>1 DEF LogsInLocally, In
  <2>2. \E t : GoWith(r, t) /\ t.at = "ticket"
    BY Destination DEF Redirected
  <2>3. \A q \in Requests \ {r} : call'[q] = call[q]
    BY <1>1, ServerStepFrame DEF Issue, SignOnTypeOK
  <2> QED
    BY <1>1, <2>1, <2>2, <2>3, NotLocally DEF SignOnTypeOK
<1>7. SignOn!Vouch(user, service)
  BY <1>1, <1>2, <1>4, <1>5, <1>6 DEF SignOn!Vouch, Vouched
<1> QED
  BY <1>7 DEF SignOn!Next

\* A site signs a browser in as someone the server vouched for to this site, or to
\* the service its local log-in names.
LEMMA SignedInMaps ==
  ASSUME SignOnIInv, CasServerIInv, NEW r \in Requests, SignedIn(r)
  PROVE  [SignOn!Next]_SignOn!vars
<1>1. /\ SignOnTypeOK /\ TypeOK /\ Client(r) \in Clients /\ Answer(r)
      /\ clientUser' = [clientUser EXCEPT ![Client(r)] = call[r].user]
      /\ UNCHANGED <<handed, proven>>
  BY CookieFacts DEF SignOnIInv, SignOnTypeOK, SignedIn, Answer
<1>2. /\ call[r].user \in Users
      /\ SiteOf[r] = call[r].wanted \/ LogsInLocally(r)
      /\ \E h \in handed : h.user = call[r].user /\ h.service = call[r].wanted
  BY SignedInFacts
<1>3. Vouched' = Vouched /\ <<call[r].user, call[r].wanted>> \in Vouched
  BY <1>1, <1>2 DEF Vouched
<1>4. call[r].wanted = Client(r)[2] \/ <<Client(r), call[r].wanted>> \in Named
  BY <1>2 DEF Named, Client
<1>5. call[r].wanted \in Services
  BY <1>1, <1>2 DEF TypeOK
<1>6. Named' \subseteq Named
  <2>1. \E t : GoWith(r, t) /\ t.at # "locally"
    BY Destination DEF SignedIn
  <2>2. \A q \in Requests \ {r} : call'[q] = call[q]
    BY <1>1, ServerStepFrame DEF ValidateTicket
  <2> QED
    BY <1>1, <2>1, <2>2, NotLocally DEF SignOnTypeOK
<1>7. SignOn!SignIn(Client(r), call[r].user)
  BY <1>1, <1>3, <1>4, <1>5, <1>6 DEF SignOn!SignIn, Vouched
<1> QED
  BY <1>1, <1>2, <1>7 DEF SignOn!Next, Clients

\* A local log-in names its service to the site, or comes to nothing.
LEMMA LogInLocallyMaps ==
  ASSUME SignOnIInv, NEW r \in Requests, LogInLocally(r)
  PROVE  [SignOn!Next]_SignOn!vars
<1>1. /\ SignOnTypeOK /\ TypeOK /\ Client(r) \in Clients
      /\ UNCHANGED <<clientUser, proven>> /\ ~LogsInLocally(r)
  BY CookieFacts DEF SignOnIInv, SignOnTypeOK, LogInLocally, cookies, LogsInLocally, In
<1>2. CASE PunchGet(r) /\ Go(r, "locally")
  <2> DEFINE c == Client(r)
             s == call'[r].wanted
  <2>1. /\ handed' = handed
        /\ \A q \in Requests \ {r} : call'[q] = call[q]
    BY <1>1, <1>2, ServerStepFrame DEF ValidateTicket, PunchGet, told
  <2>2. s \in Services /\ LogsInLocally(r)'
    <3>1. call'[r].pc = "punch_remove" /\ s \in Services
      BY <1>1, <1>2, PunchGetCall
    <3>2. \E t : GoWith(r, t) /\ t.at = "locally"
      BY <1>2, Destination
    <3>3. tab'[r].at = "locally"
      BY <1>1, <3>2 DEF GoWith, SignOnTypeOK
    <3> QED
      BY <3>1, <3>3 DEF LogsInLocally, In, At
  <2>3. Named' = Named \cup {<<c, s>>}
    BY <1>1, <1>2, <2>1, <2>2, NamedStep DEF Go, SignOnTypeOK
  <2>4. Vouched' = Vouched
    BY <2>1 DEF Vouched
  <2>5. c \in Clients
    BY <1>1
  <2> HIDE DEF c, s
  <2>6. SignOn!Name(c, s)
    BY <1>1, <2>3, <2>4 DEF SignOn!Name, Vouched
  <2> QED
    BY <2>2, <2>5, <2>6 DEF SignOn!Next, Clients
<1>3. CASE Go(r, "text") /\ UNCHANGED vars
  <2>1. \E t : GoWith(r, t) /\ t.at # "locally"
    BY <1>3, Destination
  <2>2. Named' \subseteq Named /\ handed' = handed
    BY <1>1, <1>3, <2>1, NotLocally DEF SignOnTypeOK, vars, told
  <2> QED
    BY <1>1, <2>2, QuietStepMaps
<1> QED
  BY <1>2, <1>3 DEF LogInLocally

\* A tab moves, and the service sees nothing of it, or the end of a session or of
\* a local log-in.
LEMMA TabOnlyMaps ==
  ASSUME SignOnIInv, NEW r \in Requests, UNCHANGED vars,
         \/ Visit(r) \/ WantLogin(r) \/ Repeat(r) \/ WantLogout(r) \/ State(r)
         \/ LocalLogOff(r) \/ Refused(r) \/ ServerGaveUp(r) \/ ServerLogout(r)
  PROVE  [SignOn!Next]_SignOn!vars
<1>1. SignOnTypeOK /\ Client(r) \in Clients
  BY CookieFacts DEF SignOnIInv
<1>2. PICK t : GoWith(r, t) /\ t.at # "locally"
  <2>1. CASE State(r)
    <3>1. tab[r] \in Tab /\ tab[r].at = "page"
      BY <1>1, <2>1 DEF State, In, SignOnTypeOK
    <3>2. [tab[r] EXCEPT !.checked = TRUE].at = "page"
      BY <3>1 DEF Tab
    <3>3. \/ \E at \in {"leaving", "login"} : Go(r, at)
          \/ GoWith(r, [tab[r] EXCEPT !.checked = TRUE])
          \/ GoWith(r, [Left(r) EXCEPT !.at = "leaving", !.then = "login"])
      BY <2>1 DEF State
    <3>4. \A at \in {"leaving", "login"} : Go(r, at) => \E t : GoWith(r, t) /\ t.at # "locally"
      BY Destination
    <3>5. /\ [tab[r] EXCEPT !.checked = TRUE].at # "locally"
          /\ [Left(r) EXCEPT !.at = "leaving", !.then = "login"].at # "locally"
      BY <3>2, Destination
    <3> QED
      BY <3>3, <3>4, <3>5, Zenon
  <2>2. CASE LocalLogOff(r)
    <3>1. \/ GoWith(r, Rendered(r)) \/ Go(r, "login")
          \/ GoWith(r, [Left(r) EXCEPT !.at = "page", !.checked = TRUE])
      BY <2>2, Zenon DEF LocalLogOff
    <3>2. /\ Rendered(r).at # "locally"
          /\ [Left(r) EXCEPT !.at = "page", !.checked = TRUE].at # "locally"
      BY Destination
    <3>3. Go(r, "login") => \E t : GoWith(r, t) /\ t.at # "locally"
      BY Destination
    <3> QED
      BY <3>1, <3>2, <3>3, Zenon
  <2>3. CASE Visit(r)
    BY <2>3, Destination, Zenon DEF Visit
  <2>4. ASSUME WantLogin(r) \/ Repeat(r) \/ WantLogout(r) \/ Refused(r)
               \/ ServerGaveUp(r) \/ ServerLogout(r)
        PROVE  \E t : GoWith(r, t) /\ t.at # "locally"
    <3>1. PICK at \in {"login", "ticket", "logout", "text", "home"} : Go(r, at)
      BY <2>4 DEF WantLogin, Repeat, WantLogout, Refused, ServerGaveUp, ServerLogout
    <3>2. PICK t : GoWith(r, t) /\ t.at = at
      BY <3>1, Destination, Zenon
    <3> QED
      BY <3>1, <3>2
  <2> QED
    BY <2>1, <2>2, <2>3, <2>4
<1>3. Named' \subseteq Named /\ (~LogsInLocally(r) => Named' = Named)
  BY <1>1, <1>2, NotLocally DEF SignOnTypeOK, vars
<1>4. UNCHANGED <<handed, proven>>
  BY DEF vars, told, Visit, WantLogin, Repeat, WantLogout, State, LocalLogOff, Refused,
     ServerGaveUp, ServerLogout
<1>5. CASE WantLogout(r) \/ LocalLogOff(r)
  <2>1. ~LogsInLocally(r)
    BY <1>5 DEF WantLogout, LocalLogOff, LogsInLocally, In
  <2>2. clientUser' \in {clientUser, [clientUser EXCEPT ![Client(r)] = None]}
    BY <1>5 DEF WantLogout, LocalLogOff, cookies
  <2> QED
    BY <1>1, <1>3, <1>4, <2>1, <2>2, QuietStepMaps
<1>6. CASE ~(WantLogout(r) \/ LocalLogOff(r))
  <2>1. UNCHANGED clientUser
    BY <1>6 DEF Visit, WantLogin, Repeat, State, Refused, ServerGaveUp, ServerLogout,
       cookies
  <2> QED
    BY <1>3, <1>4, <2>1, QuietStepMaps
<1> QED
  BY <1>5, <1>6

\* The server works for a tab, and hands out nothing yet.
LEMMA ServerWorksMaps ==
  ASSUME SignOnIInv, NEW r \in Requests,
         \/ GoToServer(r) \/ Issuing(r) \/ Presented(r) \/ Validating(r)
         \/ AnswerLost(r)
  PROVE  [SignOn!Next]_SignOn!vars
<1>1. SignOnTypeOK /\ TypeOK
  BY DEF SignOnIInv, SignOnTypeOK
<1>2. UNCHANGED <<handed, clientUser, proven>>
  BY DEF GoToServer, Issuing, Presented, Validating, AnswerLost, IssueStart,
     IssueRead, IssueWrite, PunchGet, PunchRemove, Answer, vars, told, cookies
<1>3. \A q \in Requests \ {r} : call'[q] = call[q]
  BY <1>1, ServerStepFrame DEF GoToServer, Issuing, Presented, Validating, AnswerLost,
     Issue, ValidateTicket, vars
<1>4. CASE GoToServer(r) \/ Presented(r) \/ AnswerLost(r)
  <2>1. \E t : GoWith(r, t) /\ t.at # "locally"
    BY <1>4, Destination DEF GoToServer, Presented, AnswerLost
  <2> QED
    BY <1>1, <1>2, <1>3, <2>1, NotLocally, QuietStepMaps DEF SignOnTypeOK
<1>5. CASE Issuing(r) \/ Validating(r)
  <2>1. GoWith(r, tab[r]) /\ tab' = tab
    BY <1>1, <1>5, SameTab DEF Issuing, Validating, SignOnTypeOK
  <2>2. Named' \subseteq Named
    <3>1. CASE ~LogsInLocally(r)'
      BY <1>1, <1>3, <2>1, <3>1, NamedStep DEF SignOnTypeOK
    <3>2. CASE LogsInLocally(r)'
      <4>1. Validating(r) /\ call'[r].pc # "idle"
        BY <1>5, <2>1, <3>2 DEF LogsInLocally, In, At, Issuing
      <4>2. call[r].pc = "punch_remove" /\ call'[r].wanted = call[r].wanted
        BY <1>1, <4>1, PunchRemoveCall DEF Validating
      <4>3. LogsInLocally(r)
        BY <2>1, <3>2, <4>2 DEF LogsInLocally, In, At
      <4> QED
        BY <1>1, <1>3, <2>1, <4>2, <4>3, NamedStep DEF SignOnTypeOK
    <3> QED
      BY <3>1, <3>2
  <2> QED
    BY <1>2, <2>2, QuietStepMaps
<1> QED
  BY <1>4, <1>5

\* A ticket dropped, a restarted server, the passing of time.
LEMMA SurroundingsMap ==
  ASSUME SignOnIInv, Surroundings
  PROVE  [SignOn!Next]_SignOn!vars
<1>1. /\ UNCHANGED <<handed, clientUser, tab, proven>>
      /\ call' = call \/ call' = [r \in Requests |-> Idle]
  BY DEF Surroundings, Evict, Recycle, Tick, cookies, told
<1>2. ASSUME NEW q \in Requests, LogsInLocally(q)'
      PROVE  LogsInLocally(q) /\ call'[q] = call[q]
  BY <1>1, <1>2, IdleCall DEF LogsInLocally, In, At
<1>3. Named' \subseteq Named
  BY <1>2 DEF Named, Client
<1> QED
  BY <1>1, <1>3, QuietStepMaps

\* Every step maps to a step of the service or to none.
LEMMA StepMaps ==
  ASSUME SignOnIInv, CasServerIInv, [SignOnNext]_signOnVars
  PROVE  [SignOn!Next]_SignOn!vars
<1>1. CASE UNCHANGED signOnVars
  <2>1. Named' = Named
    BY <1>1 DEF signOnVars, vars, Named, LogsInLocally, In, At, Client
  <2> QED
    BY <1>1, <2>1, QuietStepMaps DEF signOnVars, vars, told, cookies
<1>2. CASE Surroundings
  BY <1>2, SurroundingsMap
<1>3. ASSUME NEW r \in Requests,
             \/ Visit(r) \/ WantLogin(r) \/ Repeat(r) \/ WantLogout(r) \/ State(r)
             \/ LocalLogOff(r) \/ Refused(r) \/ ServerGaveUp(r) \/ ServerLogout(r)
      PROVE  [SignOn!Next]_SignOn!vars
  <2>1. UNCHANGED vars
    BY <1>3 DEF Visit, WantLogin, Repeat, WantLogout, State, LocalLogOff, Refused,
       ServerGaveUp, ServerLogout
  <2> QED
    BY <1>3, <2>1, TabOnlyMaps
<1>4. ASSUME NEW r \in Requests,
             \/ GoToServer(r) \/ Issuing(r) \/ Presented(r) \/ Validating(r)
             \/ AnswerLost(r)
      PROVE  [SignOn!Next]_SignOn!vars
  BY <1>4, ServerWorksMaps
<1>5. ASSUME NEW r \in Requests,
             \/ SubmitPassword(r) \/ LogInAtHome(r) \/ Redirected(r) \/ SignedIn(r)
             \/ LogInLocally(r)
      PROVE  [SignOn!Next]_SignOn!vars
  BY <1>5, PasswordMaps, RedirectedMaps, SignedInMaps, LogInLocallyMaps
<1> QED
  BY <1>1, <1>2, <1>3, <1>4, <1>5 DEF SignOnNext, Proceeds

\* The server and the sites implement what SignOnService promises: CasClient
\* signs in only whom CasServer vouched for, after it saw a password.
THEOREM SignOnIsImplemented == SignOnSpec => ImplementsSignOn
<1>1. SignOnInit => SignOn!Init
  BY InitMaps
<1>2. SignOnIInv /\ CasServerIInv /\ [SignOnNext]_signOnVars => [SignOn!Next]_SignOn!vars
  BY StepMaps
<1>3. SignOnSpec => SignOn!Spec
  BY <1>1, <1>2, SignOnInvariant, ServerInvariant, PTL DEF SignOnSpec, SignOn!Spec
<1> QED
  BY <1>3 DEF ImplementsSignOn
=============================================================================
