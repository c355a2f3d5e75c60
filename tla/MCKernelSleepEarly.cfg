CONSTANTS
    snd = snd
    rcv = rcv
    oth = oth
    c1 = c1
    Lane = {snd, rcv, oth}
    Channel = {c1}
    Contexts = 2
    Compute = FALSE
    MaxTime = 2
    Capacity <- OneSlot
    SendersOf <- SenderOnly
    ReceiversOf <- ReceiverOnly
    ClosersOf <- ClosedByOther
    InitialLanes = {snd, rcv}
    MaxLanes = 3
    SleepLanes = {snd, rcv, oth}
    Duration = {1}
    MaxTimed = 1
    TryLanes = {}
    MaxMessages = 3
SPECIFICATION Spec
PROPERTY SleepNotEarly
