CONSTANTS
    lx = lx
    ly = ly
    lz = lz
    x = x
    y = y
    z = z
    Lane = {lx, ly}
    Boundary = {x, y}
    BoundaryOf <- TwoLanes
    c1 = c1
    c2 = c2
    Channel = {c1}
    g1 = g1
    Gate = {g1}
    Contexts = 1
    Compute = TRUE
    MaxTime = 1
    Capacity <- OneSlot
    MaxRequests = 0
    MaxMessages = 1
SPECIFICATION TableSpec
PROPERTIES PeerReceives
