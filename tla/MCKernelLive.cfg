CONSTANTS
    snd = snd
    rcv = rcv
    oth = oth
    c1 = c1
    Lane = {snd, rcv, oth}
    Channel = {c1}
    Contexts = 1
    Compute = FALSE
    MaxTime = 3
    Capacity <- OneSlot
    SendersOf <- SenderOnly
    ReceiversOf <- ReceiverOnly
    ClosersOf <- ClosedByOther
    InitialLanes = {rcv, oth}
    MaxLanes = 2
    SleepLanes = {oth}
    Duration = {1, 2}
    MaxTimed = 1
    TryLanes = {snd, rcv}
    MaxMessages = 3
SPECIFICATION FairSpec
PROPERTIES Served SleepEnds 
