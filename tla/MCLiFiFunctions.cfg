\* The constructor's max_slots, three devices of any service type or unknown,
\* and up to 150 devices present; tags with up to two slots in each direction,
\* uplink lists skipped from two on; reports of two devices; two WiFi devices;
\* two ids listed twice at most, two MACs of two helpers, three candidates;
\* two data models and three packets; a signal of three samples;
\* one access point and two users to wire, whose ids are also positions.  A script may
\* end after any call.
SPECIFICATION FunctionsSpec
CONSTANTS
    Dev = {3, 5, 8}
    MaxSlots = 50
    Services = {0, 1, 2}
    MaxPresent = 150
    SlotNumbers = {1, 2}
    MaxSlotList = 2
    MaxUplinkRead = 2
    Garbage = {0, 1, 2}
    Snr = {0, 11}
    ReportedId = {1, 2}
    Drops = {1, 2}
    WifiNode = {"w1", "w2"}
    Standard = {0, 1, 2, 3}
    Ht = 1
    He = 3
    Vht = {2}
    Takes <- StreamsTaken
    MaxCalls = 2
    DeviceId = {1, 2}
    MaxListed = 2
    MacHelper = {"h1", "h2"}
    MaxMacs = 2
    Candidate = {"c1", "c2"}
    Level = {0, 1, 2}
    MaxCandidates = 4
    SlotPosition = {0, 1}
    Category = {1, 2, 3}
    MaxSlotUsers = 3
    DataModel = {"d1", "d2"}
    PacketSize = {1, 2}
    MaxReceived = 3
    Sample = {0, 2, 3}
    Bias <- Biases
    TMAX = 2
    MaxSamples = 3
    Ap = {3}
    User = {1, 2}
    MaxDevices = 2
    MaxPairs = 3
    MaxOthers = 1
    MaxAssociations = 2
INVARIANTS
    TableSound
    TagsSurvive
    DevicesKeep
    StreamsDisjoint
    FrontIsStrongest
    ListsServe
    WiringSound
PROPERTIES
    SlotsSurvive
    StaysUntilMarked
CHECK_DEADLOCK FALSE
