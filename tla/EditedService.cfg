SPECIFICATION Spec
CONSTANTS
  None = None
  Threads = {r1,r2}
  Names = {web,api}
  MaxSaves = 2
PROPERTY EditsShowAfterReload
SYMMETRY Symmetric
CHECK_DEADLOCK FALSE
