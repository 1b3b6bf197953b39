SPECIFICATION Spec
CONSTANTS
  None = None
  Users = {u1}
  NumberOfUses = 2
  STTimeToKill = 1
  TGTMaxTimeToLive = 2
  TGTTimeToKill = 1
  MaxTime = 0
  TGTs = {t1,t2}
  STs = {s1,s2}
  Services = {web}
  Enabled = {web}
  SsoEnabled = {web}
  ProxyAllowed = {web}
  Requests = {r1,r2}
INVARIANT IInv
INVARIANT DestroyIInv
INVARIANT AtMostNumberOfUses
PROPERTY ImplementsLedger
SYMMETRY Symmetric
CHECK_DEADLOCK FALSE
