SPECIFICATION Spec
CONSTANTS
  None = None
  Requests = {r1,r2}
  Accounts = {u1,u2}
  WithPhone = {u1}
  Nicks = {ann,bob}
  MaxResend = 2
  Hour = 2
  TokenLife = 2
  MaxCodes = 3
  MaxTime = 3
INVARIANT AccountsIInv
INVARIANT DuplicateNickNeedsOverlap
INVARIANT MissingUidNeedsFailure
INVARIANT LastMessageWorks
PROPERTY CodesAreLimited
CONSTRAINT ClockFromFirstCode
CONSTRAINT FailuresOfPhones
CONSTRAINT RacesOfOneKind
SYMMETRY Symmetric
CHECK_DEADLOCK FALSE
