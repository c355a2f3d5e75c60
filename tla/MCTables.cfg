SPECIFICATION TablesSpec
CONSTANTS
    l1 = l1
    l2 = l2
    l3 = l3
    c1 = c1
    Lane = {l1, l2, l3}
    Channel = {c1}
    Contexts = 2
    Compute = TRUE
    MaxTime = 2
    Class = {"User"}
    Weight = {0}
    Delta = {1, 2}
    FRAME_SIZE = 4
    Boundary = {b1, b2}
    LEVELS = 2
    ENTRIES = 2
    MemoryMap <- MemoryMapDef
    ReservedBelow = 6
    Window <- WindowDef
    MaxCount = 2
    Ring = 2
    Archs = {"x86_64", "aarch64", "riscv64"}
    DataFrames = {20}
    MaxMaps = 2
    Ids = {0, 1}
    LaneIds = {"l", "m"}
    ChannelIds = {"c", "d"}
    MaxWord = 7
    Limits <- LimitsDef
    Requests = {2, 7}
    TotalUsable = 5
INVARIANTS OnePlace TranslatesWhatWasMapped Isolated WalksAsAsked WithinLimits ReservationsAddUp
PROPERTIES TimersFollowClock WorkConserving
CONSTRAINTS Apart OneWeighed
SYMMETRY Alike
CHECK_DEADLOCK FALSE
