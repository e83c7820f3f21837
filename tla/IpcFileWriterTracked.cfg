SPECIFICATION Spec
CONSTANTS
  d1 = d1
  d2 = d2
  v1 = v1
  v2 = v2
  Ids = {d1, d2}
  Values = {v1, v2}
  Keys = {k1}
  Fields <- OwnIds
  NoDict = NoDict
  FooterSize = 1
  Unreadable = Unreadable
  MaxChunks = 1
  MaxSessions = 0
  MaxFaults = 0
  Stops = {1}
  RetryAfterError = FALSE
INVARIANT TrackedIsWritten
CHECK_DEADLOCK FALSE
