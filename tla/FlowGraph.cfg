SPECIFICATION Spec
CONSTANTS
    Places <- MCPlaces
    Start <- MCStart
    Won <- MCWon
    Final <- MCFinal
    Admissible <- MCAdmissible
    Result <- MCResult
    Reward <- MCReward
    ObsWords <- MCObsWords
    ActionWords <- MCActionWords
    TaskWords <- MCTaskWords
    StateWords <- MCStateWords
    Decompositions <- MCDecompositions
    Responses <- MCResponses
    Checks <- MCChecks
    Managers <- MCManagers
    MaxSteps = 4
INVARIANTS TypeOK PotentialKept NoHindsight EffectUsed BlameOnce InvalidNoopPaid CompletedCounts
CHECK_DEADLOCK FALSE
