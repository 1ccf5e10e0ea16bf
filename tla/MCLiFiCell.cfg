\* Two stations that walk in and out of the light, two frames in a superframe;
\* one of them among other cells, up to two of whose beacons it answers at once;
\* and one of them while the helper lists each of the two once.
SPECIFICATION MCCellSpec
CONSTANTS
    Dev = {1, 2}
    MaxSlots = 9
    SuperFrame = 2
    Services = {1, 2}
    MaxAssociations = 1
    ControlBudget = 3
    MaxAnswers = 2
INVARIANTS
    CellSound
PROPERTIES
    InRangeServed
