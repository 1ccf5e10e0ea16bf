\* One station; the BeaconGeneration attribute is turned off and on.
SPECIFICATION Spec
CONSTANTS
    Dev = {1}
    MaxSlots = 3
    SuperFrame = 1
    Services = {2}
    MaxAssociations = 0
PROPERTIES
    BeaconsOnlyWhenEnabled
