SPECIFICATION BitmapsSpec
CONSTANTS
  SomeSources <- GrowableSources
  s1 = s1
  s2 = s2
  Slots = {s1, s2}
  Given <- NoBytes
  W = 2
  ByteBits = 3
  ChunkBytes = 1
  MaxBits = 5
  MaxSteps = 5
  SpareBytes = TRUE
  Null = Null
  NoValidity = NoValidity
  Items = {0, 1}
  Strings <- SomeStrings
  Size = 2
  MaxOffset = 3
  MaxKey = 1
  MaxLength = 3
  NoOwner = NoOwner
  h1 = h1
  h2 = h2
  Handles = {h1, h2}
  SomeArrays <- SharedStarts
  MaxTurns = 4
PROPERTY BitmapsAreVectors
SYMMETRY Symmetry
CHECK_DEADLOCK FALSE
