SPECIFICATION Spec
CONSTANTS
  None = None
  Scopes = {s1,s2,s3}
  Transactions = {t1,t2,t3}
  Sessions = {x,y}
  MaxChanges = 2
INVARIANT UnitIInv
INVARIANT NothingLeftOpen
PROPERTY ImplementsAtomicWork
PROPERTY TransactionScopesNest
SYMMETRY Symmetric
CHECK_DEADLOCK FALSE
