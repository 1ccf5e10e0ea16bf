\* Three stations: the middle one is neither the first nor the last of a pass.
\* A superframe has one frame.
SPECIFICATION QuietSpec
CONSTANTS
    Dev = {1, 2, 3}
    MaxSlots = 9
    SuperFrame = 1
    Services = {2}
    MaxAssociations = 1
INVARIANTS
    FrameSound
PROPERTIES
    FrameFits
