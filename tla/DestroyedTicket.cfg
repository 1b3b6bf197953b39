SPECIFICATION Spec
CONSTANTS
  None = None
  Users = {u1}
  NumberOfUses = 1
  STTimeToKill = 1
  TGTMaxTimeToLive = 2
  TGTTimeToKill = 1
  MaxTime = 0
  TGTs = {t1}
  STs = {s1}
  Services = {web,api}
  Enabled = {web,api}
  SsoEnabled = {web}
  ProxyAllowed = {web}
  Requests = {r1,r2}
INVARIANT DestroyInvalidatesDerivedTickets
CHECK_DEADLOCK FALSE
