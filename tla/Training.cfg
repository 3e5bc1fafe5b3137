SPECIFICATION Spec
CONSTANTS
    Configs <- MCConfigs
    Epochs = 2
    BatchesPerEpoch = 3
    Turns = 2
    MaxLaunches = 3
INVARIANTS EngineFresh OnPolicy RoomForCache NoStageStarved ResumesExactly SavesInTime
PROPERTIES RunsToTotal
CHECK_DEADLOCK FALSE
