-------------------------- MODULE SignOnProperties --------------------------
(***************************************************************************)
(* What holds of single sign-on as the server, the sites and the browsers  *)
(* play it together.                                                       *)
(***************************************************************************)
EXTENDS SingleSignOn

\* The local log-ins that are being validated.
LogsInLocally(r) == In(r, "locally") /\ ~At(r, "idle")
Named == {<<Client(r), call[r].wanted>> : r \in {q \in Requests : LogsInLocally(q)}}

\* The server and the sites together keep the promise of SignOnService.
SignOn == INSTANCE SignOnService
            WITH Sites <- Services,
                 vouched <- {<<h.user, h.service>> : h \in handed},
                 named <- Named,
                 session <- clientUser

\* A site signs a browser in only as a user for whom the server has issued a
\* ticket to this site, or to the service a local log-in under way names, and the
\* server issues tickets only for users whose password it has seen: across lost
\* answers, repeated URLs, evicted tickets, recycled servers and tickets that
\* share a string.
ImplementsSignOn == SignOn!Spec

\* When a browser is signed in as a user who never typed a password in it, the
\* user's ticket has the string of a ticket issued to someone who did: nothing
\* but the race on the counter mixes browsers up.
ForeignSessionNeedsSharedTicket ==
  \A c \in Clients :
    clientUser[c] # None /\ <<c[1], clientUser[c]>> \notin proven =>
      \E g, h \in handed :
        /\ g.ticket = h.ticket /\ g # h
        /\ h.user = clientUser[c] /\ <<c[1], g.user>> \in proven

\* A ticket that was presented, and whose answer then was an error or got lost,
\* is never taken up again, nor by a local log-in: to retry is to ask the server
\* for a new ticket.
RetryNeedsNewTicket ==
  [][\A r \in Requests :
       ~Validates(r) /\ Validates(r)' => <<call'[r].num, call'[r].ms>> \notin spent]_signOnVars

\* While the server knows the visitor as someone else, or not at all, and goes on
\* doing so, a page that calls CasSdk.State does not stay signed in as it is.
StrangerIsSignedOut ==
  \A r \in Requests : \A u \in Users :
    [](/\ In(r, "page") /\ ~tab[r].checked /\ tab[r].shown = u
       /\ [](serverUser[BrowserOf[r]] # u)
       => <>(clientUser[Client(r)] # u \/ tab[r].at \notin {"page", "leaving"}))

\* The inductive invariant, beside the server's own.  Cookies and tickets name
\* users who were proven; a tab's ticket has the string of one for a user proven
\* in its browser; what the server does for a tab is about such a user, or about
\* such a ticket, and for the tab's site unless the log-in is local; and a session
\* is of a user some ticket was for that shares its string with one of the browser.
KnownWereProven ==
  \A b \in Browsers : serverUser[b] # None => <<b, serverUser[b]>> \in proven

TicketsWereProven == \A h \in handed : \E b \in Browsers : <<b, h.user>> \in proven

GivenTo(b) == {g \in handed : <<b, g.user>> \in proven}

SessionsWereTickets ==
  \A c \in Clients : clientUser[c] # None =>
    \E h \in handed, g \in GivenTo(c[1]) :
      h.user = clientUser[c] /\ g.ticket = h.ticket

TabOK(r) ==
  /\ tab[r].ticket # <<>> => \E g \in GivenTo(BrowserOf[r]) : g.ticket = tab[r].ticket
  /\ In(r, "issuing") /\ call[r].pc \in {"issue_read", "issue_write", "issue_add"} =>
       <<BrowserOf[r], call[r].user>> \in proven
  /\ Validates(r) /\ call[r].pc \in {"punch_remove", "answer"} =>
       /\ \E g \in GivenTo(BrowserOf[r]) : g.ticket = <<call[r].num, call[r].ms>>
       /\ In(r, "validating") => call[r].wanted = SiteOf[r]

SignOnIInv ==
  /\ SignOnTypeOK
  /\ KnownWereProven
  /\ TicketsWereProven
  /\ SessionsWereTickets
  /\ \A r \in Requests : TabOK(r)
=============================================================================
