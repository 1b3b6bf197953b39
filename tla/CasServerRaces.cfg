SPECIFICATION Spec
CONSTANTS
  None = None
  Requests = {r1,r2,r3}
  Users = {u1}
  Services = {web,api}
  ClientList = {web}
  Milliseconds = {0}
  StoredMinutes = 1
  MaxTickets = 2
  MaxTime = 1
INVARIANT TypeOK
INVARIANT CasServerIInv
INVARIANT SpentTicketsGone
INVARIANT ReportedWasHanded
INVARIANT UnsharedTicketRedeemable
SYMMETRY Symmetric
CHECK_DEADLOCK FALSE
VIEW View
