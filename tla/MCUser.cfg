CONSTANTS
    la = la
    lb = lb
    lk = lk
    bnd1 = bnd1
    bnd2 = bnd2
    c1 = c1
    g1 = g1
    Lane = {la, lb, lk}
    Boundary = {bnd1, bnd2}
    BoundaryOf <- Residence
    Channel = {c1}
    Gate = {g1}
    Contexts = 1
    Compute = TRUE
    MaxTime = 4
    Capacity <- OneSlot
    MaxRequests = 1
    MaxMessages = 1
    SeedLanes = {la, lb}
    ParkStep = 2
    Guard = 14
    MaxParks = 1
    FRAME_SIZE = 2
    TableSpan = 4
    NFrames = 14
    KernelPages = 3
    AppBase = 8
    StackOffset = 14
    HeapOffset = 16
    HEAP_PAGES = 2
    HEADER_LEN = 1
    SEGMENT_LEN = 1
    MAX_SEGMENTS = 2
    SpawnStack = 30
    MaxSpawns = 2
    Elfs <- ElfsDef
    Segments <- SegmentsDef
    HeapBase = 16
    HeapWords = 22
    Sizes = {0, 2, 3}
    Aligns = {1, 4}
    Scancodes = {14, 28, 30, 42, 170}
    MaxBytes = 3
    QUEUE_CAP = 2
    MaxSpurious = 1
    ArmTicks = 1
    KeyTicks = 1
    SleepTicks = 1
    Names <- NamesDef
    Data <- DataDef
    MAX_LOG_LEN = 1
    MAX_PATH_LEN = 2
    MAX_FS_IO_LEN = 4
    BufLen = 4
    MAX_FILE_SIZE = 2
    chan_capacity = 1
    max_message_bytes = 2
SPECIFICATION UserSpec
INVARIANTS LanesAreKept RunsWhatWasLinked  TypedKeysArrive TimedWaitsWake
PROPERTIES LoopCompletes 
CONSTRAINT FilesOrMessages
