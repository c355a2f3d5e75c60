SPECIFICATION SpaceSpec
CONSTANTS
  FRAME_SIZE = 4
  Boundary = {b1, b2}
  LEVELS = 2
  ENTRIES = 2
  MemoryMap <- MemoryMapDef
  ReservedBelow = 6
  Window <- WindowDef
  MaxCount = 2
  Ring = 2
INVARIANT DataFramesReclaimed
SYMMETRY Boundaries
CHECK_DEADLOCK FALSE
