SPECIFICATION FairSpec
CONSTANTS
    pick = pick
    heat = heat
    GroupN = 2
    Configs <- Jobs
INVARIANTS OutputWhole SuccessLabelled GroupsWhole TargetMet
PROPERTIES Ends
CHECK_DEADLOCK FALSE
