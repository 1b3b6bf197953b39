------------------------ MODULE CasServerProperties ------------------------
(***************************************************************************)
(* What Dev.CasServer's tickets promise, and what its comments promise of  *)
(* them that the code does not keep when requests overlap.                 *)
(***************************************************************************)
EXTENDS CasServerTickets

\* A ticket that has been presented once, for the right service or not, can not
\* be found by any later validation, although a validation removes by name and
\* the same ticket string may have been stored again in between.
SpentTicketsGone == \A x \in spent : cache[x] = None

\* A ticket string that was given out once only stays good until it is
\* presented, its time is over, or the cache loses it: no other request can use
\* it up, overwrite it or remove it.
UnsharedTicketRedeemable ==
  \A h \in handed :
    (/\ \A g \in handed : g.ticket = h.ticket => g = h
     /\ h.ticket \notin spent \cup lost
     /\ now < h.at + StoredMinutes)
    => cache[h.ticket] = [user |-> h.user, service |-> h.service,
                          until |-> h.at + StoredMinutes]

\* A service is told of a user only what some redirection carried: this ticket
\* string, for this user and this service, even when requests share a string.
ReportedWasHanded ==
  \A p \in reported : \E h \in handed :
    h.ticket = p.ticket /\ h.user = p.user /\ h.service = p.service

\* CheckAndPunch: read a ticket from the cache, check and immediately
\* invalidate it; so one validation of it succeeds.
PunchedOnce == \A x \in Tickets : accepted[x] <= 1

\* The inductive invariant.  An entry of the cache is what some redirection
\* carried, and lives as long as every entry does from the time of that one; a
\* request holds a ticket number of the counter's range and, once it has read
\* an entry, what that entry said, and answers only for the service it said.
EntriesWereHanded ==
  \A x \in Tickets : cache[x] # None =>
    \E h \in handed :
      /\ h.ticket = x /\ h.user = cache[x].user /\ h.service = cache[x].service
      /\ cache[x].until = h.at + StoredMinutes

Holds(c) == {h \in handed : h.ticket = <<c.num, c.ms>> /\ h.user = c.user /\ h.service = c.service}

RequestOK(r) ==
  LET c == call[r] IN
  /\ c.pc # "idle" => c.user \in Users /\ c.service \in Services /\ c.ms \in Milliseconds
  /\ c.pc \in {"issue_write", "issue_add", "punch_remove", "answer"} => c.num \in 1..MaxTickets
  /\ c.pc \in {"punch_remove", "answer"} => c.wanted \in Services /\ Holds(c) # {}
  /\ c.pc = "answer" => c.wanted = c.service

CasServerIInv ==
  /\ TypeOK
  /\ SpentTicketsGone
  /\ UnsharedTicketRedeemable
  /\ ReportedWasHanded
  /\ EntriesWereHanded
  /\ \A r \in Requests : RequestOK(r)
=============================================================================
