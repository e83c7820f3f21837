SPECIFICATION ReadersSpec
CONSTANTS
  d1 = d1
  d2 = d2
  v1 = v1
  v2 = v2
  v3 = v3
  Ids = {d1, d2}
  Values = {v1, v2}
  Keys = {k1}
  Fields <- OwnIds
  NoDict = NoDict
  FooterSize = 1
  MaxChunks = 1
  MaxControls = 1
INVARIANT WaitingLosesNothing
CHECK_DEADLOCK FALSE
