\* A walk between three places, an application of three packets, two devices in
\* motion; two sinks, two ports and three flows; a user, two LiFi and two WiFi
\* access points; an uplink of two packets with slots of two microseconds and a
\* queue that is offered four; two networks that register two users, who have
\* three routes.
SPECIFICATION UserSpec
CONSTANTS
    Place <- Places
    m_coherenceTime = 2
    MaxSetPosition = 2
    m_nPackets = 3
    MaxStarts = 3
    MaxDrops = 2
    Where <- Whereabouts
    Speed <- Speeds
    Acceleration <- Accelerations
    MaxTime = 3
    Sink = {"n1", "n2"}
    Key = {"k1", "k2"}
    Flow <- Flows
    MaxHanded = 2
    MaxSwitches = 2
    MaxPackets = 2
    User = {"u1"}
    LiFiAp = {"a1", "a2"}
    WifiAp = {"w1", "w2"}
    Csma = "csma"
    NoAddress = "none"
    TxTimes = {1}
    Us = 1
    SlotTime = 2
    GuardTime = 2
    MaxDelay = 2
    MaxPacketNumber = 2
    NewSizes = {1}
    Times = {1}
    OldAps = 1
    MaxLoops = 1
    MaxChains = 3
    MaxUplink = 2
    MaxOffered = 4
    Network = {"lifi", "hybrid"}
    BookUser = {"v1", "v2"}
    RouteTable <- Table
    Protocols <- NodeProtocols
    ListRouting = TRUE
    DeviceKinds <- NodeDevices
    ApId = {1, 2}
    MaxReports = 2
    Sampled <- SampledModels
    MaxRx = 2
INVARIANTS
    PlacesTrue
    SendingSound
    SinksKept
    CachesAgree
    ChainPerCaller
    BooksBalance
    DropsAccounted
PROPERTIES
    ForkHeals
    NoJump
    FlowsKept
CHECK_DEADLOCK FALSE
