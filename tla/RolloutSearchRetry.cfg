SPECIFICATION Spec
CONSTANTS
    pick = pick
    heat = heat
    GroupN = 2
    Configs <- SearchRetry
INVARIANTS NeverRaises
CHECK_DEADLOCK FALSE
