\* Two access points and two stations, associated at most twice in all and
\* put on a channel that does not list them at most once; one station and
\* one access point have a device that sends no data.
SPECIFICATION MCPathSpec
CONSTANTS
    a1 = a1
    a2 = a2
    s1 = s1
    s2 = s2
    Ap = {a1, a2}
    Sta = {s1, s2}
    Broadcast = all
    TxDevices = {a2}
    RxDevices = {s1}
    Lengths = {20}
    MaxPackets = 2
    MaxListings = 2
    MaxStrayed = 1
INVARIANTS
    InOrderPerListing
    DownlinkHeard
PROPERTIES
    DatagramService
