---------------------------- MODULE SingleSignOn ----------------------------
(***************************************************************************)
(* Browsers, the sites that use Dev.CasClient, and the CAS server.  A tab  *)
(* of a browser shows a site.  Its requests to the server, made by the     *)
(* browser or by the site on its behalf, are run by a thread of its own,   *)
(* so a tab and its thread share a name.                                   *)
(***************************************************************************)
EXTENDS CasServerTickets

CONSTANTS
  Browsers,
  BrowserOf,         \* of a tab
  SiteOf             \* of a tab, the service its site logs in for

ASSUME SignOnAssumption ==
  /\ BrowserOf \in [Requests -> Browsers]
  /\ SiteOf \in [Requests -> Services]

VARIABLES
  serverUser,  \* the server's forms cookie in each browser
  clientUser,  \* each site's forms cookie in each browser; its name cookie, which
               \* is only read beside a forms cookie, is set with it
  tab,
  proven       \* the log-ins with a password: browser and user

cookies == <<serverUser, clientUser>>
signOnVars == <<vars, cookies, tab, proven>>

Client(r) == <<BrowserOf[r], SiteOf[r]>>
Clients == Browsers \X Services

\* at says where a tab is: a text is what is shown without a page, an error or the
\* answer to a URL with local=true; shown and checked belong to the page it shows,
\* the user rendered into it and whether it has called CasSdk.State; then is where
\* the tab goes after a local log-off; typed tells that a password was typed for
\* the ticket being issued; ticket is the last one in the tab's history.
Tab == [at : {"away", "page", "leaving", "login", "form", "issuing",
              "ticket", "validating", "locally", "logout", "home", "text"},
        shown : Users \cup {None}, checked : BOOLEAN, then : {"reload", "login"},
        typed : BOOLEAN, ticket : Tickets \cup {<<>>}]

SignOnTypeOK ==
  /\ TypeOK
  /\ serverUser \in [Browsers -> Users \cup {None}]
  /\ clientUser \in [Clients -> Users \cup {None}]
  /\ tab \in [Requests -> Tab]
  /\ proven \subseteq Browsers \X Users

NewTab == [at |-> "away", shown |-> None, checked |-> FALSE, then |-> "reload",
           typed |-> FALSE, ticket |-> <<>>]

SignOnInit ==
  /\ Init
  /\ serverUser = [b \in Browsers |-> None]
  /\ clientUser = [c \in Clients |-> None]
  /\ tab = [r \in Requests |-> NewTab]
  /\ proven = {}

In(r, at) == tab[r].at = at
Validates(r) == tab[r].at \in {"validating", "locally"}
GoWith(r, t) == tab' = [tab EXCEPT ![r] = t]
Left(r) == [NewTab EXCEPT !.ticket = tab[r].ticket]
Go(r, at) == GoWith(r, [Left(r) EXCEPT !.at = at])

\* The page shows the user the site finds its visitor authenticated as.
Rendered(r) == [Left(r) EXCEPT !.at = "page", !.shown = clientUser'[Client(r)]]

(***************************************************************************)
(* What the user does                                                      *)
(***************************************************************************)

\* A page is opened or loaded again.
Visit(r) ==
  /\ tab[r].at \in {"away", "page", "text", "form", "home"}
  /\ UNCHANGED <<vars, cookies, proven>>
  /\ GoWith(r, Rendered(r))

\* The login link of the page.
WantLogin(r) ==
  /\ In(r, "page")
  /\ Go(r, "login")
  /\ UNCHANGED <<vars, cookies, proven>>

\* The URL with the ticket is opened once more from the history.
Repeat(r) ==
  /\ tab[r].at \in {"page", "text"}
  /\ tab[r].ticket # <<>>
  /\ Go(r, "ticket")
  /\ UNCHANGED <<vars, cookies, proven>>

\* The site's login URL is opened with local=true: the site takes the service to
\* ask for from the URL, not from itself, and answers with a text.
LogInLocally(r) ==
  /\ tab[r].at \in {"page", "text"}
  /\ UNCHANGED <<cookies, proven>>
  /\ \/ /\ PunchGet(r)
        /\ \E q \in Requests :
             /\ BrowserOf[q] = BrowserOf[r]
             /\ <<call'[r].num, call'[r].ms>> = tab[q].ticket
        /\ Go(r, "locally")
     \* Without a ticket nobody is asked; or the server does not find the ticket,
     \* or can not be reached.
     \/ Go(r, "text") /\ UNCHANGED vars

\* LoginOut at the site, which redirects to the server's logout, or with local=true
\* says that it is done.
WantLogout(r) ==
  /\ In(r, "page")
  /\ clientUser' = [clientUser EXCEPT ![Client(r)] = None]
  /\ Go(r, "logout") \/ Go(r, "text")
  /\ UNCHANGED <<vars, serverUser, proven>>

\* Variant with a bug: the password is not looked at.
SubmitAnyPassword(r) ==
  \E user \in Users :
    /\ In(r, "form")
    /\ IssueStart(r)
    /\ call'[r].user = user
    /\ call'[r].service = SiteOf[r]
    /\ GoWith(r, [Left(r) EXCEPT !.at = "issuing", !.typed = TRUE])
    /\ UNCHANGED <<cookies, proven>>

\* The password typed in the server's form is right.  The cookie comes with the
\* response, which waits for the ticket.
SubmitPassword(r) ==
  \E user \in Users :
    /\ In(r, "form")
    /\ proven' = proven \cup {<<BrowserOf[r], user>>}
    /\ UNCHANGED clientUser
    /\ \/ /\ IssueStart(r)
          /\ call'[r].user = user
          /\ call'[r].service = SiteOf[r]
          /\ GoWith(r, [Left(r) EXCEPT !.at = "issuing", !.typed = TRUE])
          /\ UNCHANGED serverUser
       \* The site is no client: an exception, after the cookie was added.
       \/ /\ SiteOf[r] \notin ClientList
          /\ serverUser' \in {serverUser, [serverUser EXCEPT ![BrowserOf[r]] = user]}
          /\ Go(r, "text")
          /\ UNCHANGED vars

\* In the form a logout ends at, which names no service.
LogInAtHome(r) ==
  \E user \in Users :
    /\ In(r, "home")
    /\ proven' = proven \cup {<<BrowserOf[r], user>>}
    /\ serverUser' = [serverUser EXCEPT ![BrowserOf[r]] = user]
    /\ Go(r, "away")
    /\ UNCHANGED <<vars, clientUser>>

(***************************************************************************)
(* CasSdk.State, the script every page of a site may call when it is loaded*)
(***************************************************************************)

\* Variant with a bug: a page of another user than the server's is kept.
StateByPresence(r) ==
  LET known == serverUser[BrowserOf[r]]
      t == tab[r]
  IN
  /\ In(r, "page")
  /\ ~t.checked
  /\ UNCHANGED <<vars, cookies, proven>>
  /\ \/ (known = None) = (t.shown = None) /\ GoWith(r, [t EXCEPT !.checked = TRUE])
     \/ known = None /\ t.shown # None /\ Go(r, "leaving")
     \/ known # None /\ t.shown = None /\ Go(r, "login")

\* What State does of the server's answer is settled by the page it runs in.
State(r) ==
  LET known == serverUser[BrowserOf[r]]
      t == tab[r]
  IN
  /\ In(r, "page")
  /\ ~t.checked
  /\ UNCHANGED <<vars, cookies, proven>>
  /\ \/ known = t.shown /\ GoWith(r, [t EXCEPT !.checked = TRUE])
     \/ known = None /\ t.shown # None /\ Go(r, "leaving")
     \/ known # None /\ t.shown = None /\ Go(r, "login")
     \/ /\ known \notin {None, t.shown} /\ t.shown # None
        /\ GoWith(r, [Left(r) EXCEPT !.at = "leaving", !.then = "login"])

\* locallogoff: LoginOut at the site, asked for by the script.  The page's author
\* chose IsLocalLoginoff and the URL.
LocalLogOff(r) ==
  LET CallBack == IF tab[r].then = "reload" THEN GoWith(r, Rendered(r)) ELSE Go(r, "login")
      loggedOff == [clientUser EXCEPT ![Client(r)] = None]
  IN
  /\ In(r, "leaving")
  /\ UNCHANGED <<vars, proven>>
     \* With local=true in the URL the site answers itself.  Without, it redirects
     \* the script to the server's logout.
  /\ \/ /\ clientUser' = loggedOff
        /\ serverUser' \in {serverUser, [serverUser EXCEPT ![BrowserOf[r]] = None]}
        /\ CallBack
     \* The browser keeps the script from the server's answer: no callback, and the
     \* page stays, its check done.
     \/ /\ clientUser' = loggedOff
        /\ UNCHANGED serverUser
        /\ GoWith(r, [Left(r) EXCEPT !.at = "page", !.checked = TRUE])
     \* IsLocalLoginoff is false: nobody is logged off.
     \/ Go(r, "login") /\ UNCHANGED cookies

(***************************************************************************)
(* The site's login URL and the server's login page                        *)
(***************************************************************************)

\* Without a ticket CasClient.Login redirects to the server, which asks for a
\* password or, knowing the visitor, issues a ticket at once.
GoToServer(r) ==
  LET user == serverUser[BrowserOf[r]] IN
  /\ In(r, "login")
  /\ UNCHANGED <<cookies, proven>>
  /\ \/ /\ user = None
        /\ Go(r, "form")
        /\ UNCHANGED vars
     \/ /\ user # None /\ SiteOf[r] \notin ClientList
        /\ Go(r, "text")
        /\ UNCHANGED vars
     \/ /\ user # None
        /\ IssueStart(r)
        /\ call'[r].user = user
        /\ call'[r].service = SiteOf[r]
        /\ Go(r, "issuing")

Issuing(r) ==
  /\ In(r, "issuing")
  /\ IssueRead(r) \/ IssueWrite(r)
  /\ UNCHANGED <<cookies, tab, proven>>

\* Variant with a bug: the server keeps its visitor in a static field.
RedirectedToAll(r) ==
  /\ In(r, "issuing")
  /\ IssueAdd(r)
  /\ serverUser' = IF tab[r].typed THEN [b \in Browsers |-> call[r].user] ELSE serverUser
  /\ GoWith(r, [NewTab EXCEPT !.at = "ticket", !.ticket = <<call[r].num, call[r].ms>>])
  /\ UNCHANGED <<clientUser, proven>>

\* The redirection to the site, with the ticket; after a password it also brings
\* the server's cookie.
Redirected(r) ==
  /\ In(r, "issuing")
  /\ IssueAdd(r)
  /\ serverUser' = IF tab[r].typed
                   THEN [serverUser EXCEPT ![BrowserOf[r]] = call[r].user]
                   ELSE serverUser
  /\ GoWith(r, [NewTab EXCEPT !.at = "ticket", !.ticket = <<call[r].num, call[r].ms>>])
  /\ UNCHANGED <<clientUser, proven>>

(***************************************************************************)
(* The site's login URL with a ticket: CasClient.Login asks the server     *)
(***************************************************************************)

Presented(r) ==
  /\ In(r, "ticket")
  /\ PunchGet(r)
  /\ <<call'[r].num, call'[r].ms>> = tab[r].ticket
  /\ call'[r].wanted = SiteOf[r]
  /\ Go(r, "validating")
  /\ UNCHANGED <<cookies, proven>>

\* The server does not find the ticket, or can not be reached.
Refused(r) ==
  /\ In(r, "ticket")
  /\ Go(r, "text")
  /\ UNCHANGED <<vars, cookies, proven>>

Validating(r) ==
  /\ Validates(r)
  /\ PunchRemove(r)
  /\ UNCHANGED <<cookies, tab, proven>>

SignedIn(r) ==
  /\ Validates(r)
  /\ Answer(r) /\ accepted' # accepted
  /\ clientUser' = [clientUser EXCEPT ![Client(r)] = call[r].user]
  /\ UNCHANGED <<serverUser, proven>>
  /\ IF In(r, "locally") THEN Go(r, "text") ELSE GoWith(r, Rendered(r))

\* No answer arrives, although one may have been sent.
AnswerLost(r) ==
  /\ Validates(r)
  /\ Answer(r)
  /\ Go(r, "text")
  /\ UNCHANGED <<cookies, proven>>

\* The server refused the ticket for this service, or lost the thread.
ServerGaveUp(r) ==
  /\ In(r, "issuing") \/ Validates(r)
  /\ At(r, "idle")
  /\ Go(r, "text")
  /\ UNCHANGED <<vars, cookies, proven>>

\* HandleLogoutRequest.  No site is told.
ServerLogout(r) ==
  /\ In(r, "logout")
  /\ serverUser' = [serverUser EXCEPT ![BrowserOf[r]] = None]
  /\ Go(r, "home")
  /\ UNCHANGED <<vars, clientUser, proven>>

(***************************************************************************)
(* The composition                                                         *)
(***************************************************************************)

\* What goes on once the user has clicked.
Proceeds(r) ==
  \/ State(r) \/ LocalLogOff(r)
  \/ GoToServer(r) \/ Issuing(r) \/ Redirected(r)
  \/ Presented(r) \/ Refused(r) \/ Validating(r) \/ SignedIn(r) \/ AnswerLost(r)
  \/ ServerGaveUp(r) \/ ServerLogout(r)

Surroundings == (Evict \/ Recycle \/ Tick) /\ UNCHANGED <<cookies, tab, proven>>

SignOnNext ==
  \/ \E r \in Requests :
       \/ Visit(r) \/ WantLogin(r) \/ Repeat(r) \/ LogInLocally(r) \/ WantLogout(r)
       \/ SubmitPassword(r) \/ LogInAtHome(r)
       \/ Proceeds(r)
  \/ Surroundings

SignOnSpec == SignOnInit /\ [][SignOnNext]_signOnVars

FairSignOn == SignOnSpec /\ \A r \in Requests : WF_signOnVars(Proceeds(r))
=============================================================================
