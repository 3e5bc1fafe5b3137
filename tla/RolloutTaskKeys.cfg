SPECIFICATION Spec
CONSTANTS
    pick = pick
    heat = heat
    GroupN = 2
    Configs <- TaskKeys
INVARIANTS NeverRaises
CHECK_DEADLOCK FALSE
