CONSTANTS
    lx = lx
    ly = ly
    lz = lz
    x = x
    y = y
    z = z
    Lane = {lx, ly, lz}
    Boundary = {x, y, z}
    BoundaryOf <- OneLaneEach
    c1 = c1
    c2 = c2
    Channel = {c1, c2}
    g1 = g1
    Gate = {g1}
    Contexts = 1
    Compute = TRUE
    MaxTime = 1
    Capacity <- OneSlot
    MaxRequests = 2
    MaxMessages = 1
    WebGate = 80
    MailGate = 25
    InboxGate = 26
    Browsers = {"l1", "l2"}
    Splitters = {"s"}
    Paths <- PathsDef
    Bodies <- BodiesDef
    BellCap = 1
    MaxMail = 1
    MaxPages = 1
    SIZE = 2
    IDX = 8
    MaxSent = 3
    MaxArrived = 3
    OnLink = {"gw", "b", "c"}
    Gateway = "gw"
    OffLink = {"far"}
    Macs = {"m1", "m2"}
    CAP = 2
    Budget = 2
    NicLen = 1
    MaxMoves = 1
SPECIFICATION NetworkSpec
INVARIANTS OnlyTheParties AnswersAreTrue BrowsersAreServed  RingsAreFaithful GoesToTheHop
CONSTRAINT MailOrWeb
SYMMETRY Exchanges
