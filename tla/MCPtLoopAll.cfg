CONSTANTS
    i1 = i1
    i2 = i2
    Instances <- TwoInstances
    ProbesPerRound <- OneEach
    MaxRounds = 2
    HasMaxTime = TRUE
    MaxSignals = 1
    MayLose = TRUE
    MayFail = TRUE
SPECIFICATION Spec
INVARIANTS
    ReadsNeverBlock
    AnswersAccounted
