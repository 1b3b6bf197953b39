SPECIFICATION Spec
CONSTANTS
  None = None
  Requests = {r1,r2}
  Users = {u1,u2}
  Services = {web,api}
  ClientList = {web}
  Milliseconds = {0}
  StoredMinutes = 2
  MaxTickets = 1
  MaxTime = 0
INVARIANT PunchedOnce
CHECK_DEADLOCK FALSE
