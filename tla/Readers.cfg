SPECIFICATION ReadersSpec
CONSTANTS
  Usize = 32
  Schemas <- AllSchemas
  Batches <- TwoBatches
  Versions = {"V4", "V5"}
  Projections <- AllProjections
  NoProjection = NoProjection
  Limits = {0, 1, 3, 31}
  MaxFaults = 1
  Everything = 100
  Blank = 0
  Files <- SomeFiles
  Wanted <- SomeWanted
  ChunkSizes = {1, 2, 3, 100}
  RowLimits = {0, 1, 4, 7, 100}
  MaxErrors = 1
  Missing = Missing
  NestedTypes <- AllNestedTypes
  NestedEntries = 3
  NestedLimit = 2
  NestedChunks = {1, 2}
INVARIANTS ReadersInv ChunksAreFirstRows ErrorsHaveAReason ChunksAreConsecutive NothingLeftOut NestedColumnsReadBack
PROPERTY ReadersEnd
CHECK_DEADLOCK FALSE
