SPECIFICATION FairSpec
CONSTANTS
    r1 = r1
    r2 = r2
    Ranks = {r1, r2}
    UseCritic = TRUE
    TotalSteps = 5
    SaveFreq = 2
    MaxKeep = 2
    MaxLaunches = 3
INVARIANTS TypeOK TrackerComplete LaunchKeepsAtMost
PROPERTIES Finishes
CHECK_DEADLOCK FALSE
