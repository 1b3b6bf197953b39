SPECIFICATION FairSpec
CONSTANTS
  None = None
  Users = {u1}
  NumberOfUses = 1
  STTimeToKill = 1
  TGTMaxTimeToLive = 2
  TGTTimeToKill = 1
  MaxTime = 2
  TGTs = {t1}
  STs = {s1}
  Services = {web,api}
  Enabled = {web,api}
  SsoEnabled = {web}
  ProxyAllowed = {web}
  Requests = {r1,r2}
INVARIANT DestroyedNotRegistered
PROPERTY ExpiryIsFinal
PROPERTY CallsReturn
PROPERTY ExpiredTicketsLeave
CHECK_DEADLOCK FALSE
