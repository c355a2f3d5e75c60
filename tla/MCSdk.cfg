CONSTANTS
    lp = lp
    lw = lw
    lv = lv
    lq = lq
    bx = bx
    by = by
    r1 = r1
    r2 = r2
    Lane = {lp, lw, lv, lq}
    Boundary = {bx, by}
    Home <- HomeDef
    Channel <- ChannelDef
    Request = {r1, r2}
    Requesters = {lp, lq}
    Listeners = {lq}
    max_lanes = 2
    max_channels = 1
    Contexts = 1
    Compute = FALSE
    MaxTime = 1
    Capacity <- OneSlot
    SendersOf <- Nobody
    ReceiversOf <- Nobody
    ClosersOf <- Nobody
    InitialLanes = {lp, lq}
    MaxLanes = 3
    SleepLanes = {}
    Duration = {1}
    MaxTimed = 0
    TryLanes = {}
    MaxMessages = 2
SPECIFICATION SdkSpec
INVARIANTS HandlesAreAccounted NobodyForgotten
SYMMETRY Alike
