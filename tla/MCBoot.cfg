CONSTANTS
    snd = snd
    rcv = rcv
    oth = oth
    c1 = c1
    Lane = {snd, rcv, oth}
    Channel = {c1}
    Contexts = 2
    Compute = FALSE
    MaxTime = 2
    Capacity <- OneSlot
    SendersOf <- SenderOnly
    ReceiversOf <- ReceiverOnly
    ClosersOf <- ClosedByOther
    InitialLanes = {snd, rcv}
    MaxLanes = 3
    SleepLanes = {snd, rcv, oth}
    Duration = {1}
    MaxTimed = 2
    TryLanes = {snd, rcv}
    MaxMessages = 3
    FRAME_SIZE = 4
    CAP = 2
    SLOT = 2
    PL011_LEN = 4
    Boards <- BoardsDef
    MAX_COMPONENTS = 2
    MAX_E820 = 3
    SECTOR = 2
    CHUNK_SECTORS = 2
    LowTop = 4
    MemTop = 32
    RootKey = "root"
    Machines <- MachinesDef
    Builds <- BuildsDef
    WORD = 4
    MaxKids = 3
    Cells = {1, 2}
    Kids <- KidsDef
    ProfileNames = {"ann", "bob"}
    Boundaries = {1, 2}
    Passwords <- PasswordsDef
    Keys = {"k"}
    Salts = {"s"}
    MaxAttempts = {0, 2}
    MaxEnrolled = 2
SPECIFICATION BootSpec
INVARIANTS NoLostWakeup StoppedIsIdle MapFollowsPlatform  BootsAsBuilt 
INVARIANTS OpensForTheEnrolled AttemptsAreCounted
PROPERTY IsBoundedFifo
CONSTRAINT ShortEntries
