SPECIFICATION Spec
CONSTANTS
  None = None
  Threads = {r1,r2,r3}
  Names = {web,api}
  MaxSaves = 4
INVARIANT ServicesTypeOK
INVARIANT RegisteredStays
INVARIANT IdsAreFresh
INVARIANT ServicesIInv
SYMMETRY Symmetric
CHECK_DEADLOCK FALSE
CONSTRAINT ShortOnceCollided
VIEW View
