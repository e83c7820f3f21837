SPECIFICATION SinksSpec
CONSTANTS
  d1 = d1
  d2 = d2
  v1 = v1
  v2 = v2
  Ids = {d1, d2}
  Values = {v1, v2}
  Keys = {k1, k2}
  Fields <- OwnIds
  NoDict = NoDict
  FooterSize = 2
  NoPages = NoPages
  NoColumn = NoColumn
  Entries = {k1, k2}
  Width = 2
  Stops = {1, 2}
  MaxChunks = 3
  MaxFaults = 1
INVARIANTS WritersAreKept ClosesAreFinal
PROPERTIES SinkIsFileWriter SinkIsStreamWriter ClosesReturn
CHECK_DEADLOCK FALSE
