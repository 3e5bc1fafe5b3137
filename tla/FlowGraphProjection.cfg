SPECIFICATION Spec
CONSTANTS
    Places <- MCPlaces
    Start <- MCStart
    Won <- MCWon
    Final <- MCFinal
    Admissible <- MCAdmissible
    Result <- MCResult
    Reward <- MCReward
    ObsWords <- MCObsWords
    ActionWords <- MCActionWords
    TaskWords <- MCTaskWords
    StateWords <- MCStateWords
    Decompositions <- MCDecompositions
    Responses <- MCResponses
    Checks <- MCChecks
    Managers <- OnlyAlfworld
    MaxSteps = 2
INVARIANTS AcceptedIsValid
CHECK_DEADLOCK FALSE
