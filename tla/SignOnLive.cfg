SPECIFICATION FairSignOn
CONSTANTS
  None = None
  r1 = r1
  r2 = r2
  b1 = b1
  b2 = b2
  web = web
  api = api
  Requests = {r1,r2}
  Browsers = {b1}
  BrowserOf <- OneBrowser
  SiteOf <- TwoSites
  Users = {u1,u2}
  Services = {web,api}
  ClientList = {web}
  Milliseconds = {0}
  StoredMinutes = 1
  MaxTickets = 1
  MaxTime = 0
PROPERTY StrangerIsSignedOut
PROPERTY ImplementsSignOn
