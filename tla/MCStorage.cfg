SPECIFICATION StorageSpec
CONSTANTS
  InodeCount = 4
  DataBlocks = 3
  DIRECT_BLOCKS = 2
  EntriesPerBlock = 1
  Path <- PathDef
  Seed <- SeedDef
  Version = {v1, v2}
  MaxLen = 3
  MaxFaults = 1
  CutReclaims = FALSE
  NSectors = 3
  CHUNK = 2
  Values = {"a", "b"}
  MaxCount = 3
  MaxCalls = 2
  Packages <- PackagesDef
  UserPaths <- UserPathsDef
  UserData <- UserDataDef
  Dates = {"d"}
  Names = {"n", " "}
  Room = 8
  MaxLines = 2
INVARIANTS ReadBack FsIsSound  FilesComeBack 
CONSTRAINT FewFiles
SYMMETRY ContentsAreEqual
