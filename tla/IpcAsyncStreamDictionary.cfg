SPECIFICATION AsyncSpec
CONSTANTS
  d1 = d1
  v1 = v1
  Ids = {d1}
  Values = {v1}
  Keys = {k1}
  Fields <- OneId
  NoDict = NoDict
  FooterSize = 1
  MaxChunks = 1
  MaxControls = 2

PROPERTY EverythingIsYielded
CHECK_DEADLOCK FALSE
