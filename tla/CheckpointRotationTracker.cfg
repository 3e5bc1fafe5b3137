SPECIFICATION Spec
CONSTANTS
    r1 = r1
    Ranks = {r1}
    UseCritic = FALSE
    TotalSteps = 4
    SaveFreq = 1
    MaxKeep = 1
    MaxLaunches = 2
INVARIANTS TrackerComplete
CHECK_DEADLOCK FALSE
