\* Two stations share nine slots, one entry of each by the helper, under the
\* fairness of the simulator's scheduler; a superframe has two frames.
SPECIFICATION MCFairSpec
CONSTANTS
    Dev = {1, 2}
    MaxSlots = 9
    SuperFrame = 2
    Services = {0}
    MaxAssociations = 1
INVARIANTS
    ChainSound
PROPERTIES
    RosterSpec
    AnswerServed
