SPECIFICATION AsyncSpec
CONSTANTS
  d1 = d1
  v1 = v1
  Ids = {d1}
  Values = {v1}
  Keys = {k1, k2}
  Fields <- NoIds
  NoDict = NoDict
  FooterSize = 1
  MaxChunks = 2
  MaxControls = 2
PROPERTIES AsyncStreamIsChannel EverythingIsYielded
CHECK_DEADLOCK FALSE
