SPECIFICATION SignOnSpec
CONSTANTS
  None = None
  r1 = r1
  r2 = r2
  b1 = b1
  b2 = b2
  web = web
  api = api
  Requests = {r1,r2}
  Browsers = {b1,b2}
  BrowserOf <- TabBrowser
  SiteOf <- TabSite
  Users = {u1,u2}
  Services = {web}
  ClientList = {web}
  Milliseconds = {0}
  StoredMinutes = 1
  MaxTickets = 1
  MaxTime = 0
INVARIANT SignOnTypeOK
INVARIANT SignOnIInv
INVARIANT ForeignSessionNeedsSharedTicket
PROPERTY ImplementsSignOn
PROPERTY RetryNeedsNewTicket
SYMMETRY Symmetric
VIEW View
