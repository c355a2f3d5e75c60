SPECIFICATION PowerSpec
CONSTANTS
  InodeCount = 4
  DataBlocks = 4
  DIRECT_BLOCKS = 2
  EntriesPerBlock = 1
  Path <- PathDef
  Seed <- SeedDef
  Version = {v1, v2}
  MaxLen = 3
  MaxFaults = 1
  CutReclaims = TRUE
INVARIANT ReadBack
SYMMETRY ContentsAreEqual
