\* Both kinds of packet fit in a slot; a short one expires after the rest of
\* the slot was found long enough for it, with a longer one behind it.
SPECIFICATION Spec
CONSTANTS
    TxTimes = {1, 3}
    Us = 2
    SlotTime = 3
    GuardTime = 1
    MaxDelay = 9
    MaxPacketNumber = 3
    NewSizes = {}
PROPERTIES
    LongPacketWaits
