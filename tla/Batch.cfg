SPECIFICATION Spec
CONSTANTS
    World = 2
    Batches <- MCBatches
    Configs <- MCConfigs
    Alpha = 1
    Beta = 3
    StepWeight = 1
    EpisodeWeight = 1
    HistoryLength = 2
    Penalty = 1
INVARIANTS RowsKeepTheirOwn CallsFit CopiesNotCounted BetterPaysMore OnlyFirstPenalty TrainedOnceOrTwice EvenWeights RanksInStep Balanced AlignedGoesThrough
CHECK_DEADLOCK FALSE
