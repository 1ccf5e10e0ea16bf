\* Slots of three microseconds of two ticks each; packets that take a part of
\* a microsecond, most of a slot, and more than a slot.  A packet expires
\* within the second slot after its arrival.  The queue may be enlarged.
SPECIFICATION FairSpec
CONSTANTS
    TxTimes = {1, 3, 7}
    Us = 2
    SlotTime = 3
    GuardTime = 1
    MaxDelay = 9
    MaxPacketNumber = 2
    NewSizes = {3}
INVARIANTS
    QueueSound
    ChainInSlot
PROPERTIES
    PacketHasItsTime
    EveryPacketLeaves
