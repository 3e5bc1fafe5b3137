SPECIFICATION Spec
CONSTANTS
    r1 = r1
    Ranks = {r1}
    UseCritic = FALSE
    TotalSteps = 4
    SaveFreq = 1
    MaxKeep = 2
    MaxLaunches = 2
INVARIANTS TrackerAtomic
CHECK_DEADLOCK FALSE
