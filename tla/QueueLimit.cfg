\* The queue's limit is lowered while it holds more packets.
SPECIFICATION Spec
CONSTANTS
    TxTimes = {1}
    Us = 2
    SlotTime = 3
    GuardTime = 1
    MaxDelay = 9
    MaxPacketNumber = 2
    NewSizes = {1}
PROPERTIES
    QueueLimit
