\* One physical layer, one receiver and one transmitter; periods of 1 and 2.
SPECIFICATION ReceiverSpec
CONSTANTS
    Phy = {p1}
    Rx = {r1}
    Tx = {t1}
    Value = {v1}
    MaxCalls = 2
    Power = {w1, w2}
    Scheme = {"OOK", "VPPM", "PSK4"}
    DeviceType = {"UD"}
    PhyPeriod = 1
    ChannelPeriod = 2
    MaxReceptions = 2
SYMMETRY PowerSymmetry
INVARIANTS
    LossModelWasSet
    OwnReception
    ReportedOnce
CHECK_DEADLOCK FALSE
