SPECIFICATION Spec
CONSTANTS
  d1 = d1
  d2 = d2
  v1 = v1
  v2 = v2
  Ids = {d1, d2}
  Values = {v1, v2}
  Keys = {k1, k2}
  Fields <- OwnIds
  NoDict = NoDict
  FooterSize = 3
  Unreadable = Unreadable
  MaxChunks = 3
  MaxSessions = 2
  MaxFaults = 1
  Stops = {0, 1, 2}
  RetryAfterError = FALSE
INVARIANTS IInv FooterReadsBack OnlyEarlyRefusalsLose
PROPERTY FileIsAtomic
CHECK_DEADLOCK FALSE
