CONSTANTS
    i1 = i1
    i2 = i2
    Instances <- OneInstance
    ProbesPerRound <- TwoAndOne
    MaxRounds = 1
    HasMaxTime = TRUE
    MaxSignals = 0
    MayLose = FALSE
    MayFail = FALSE
SPECIFICATION Spec
INVARIANTS
    NoAnswerAfterTerm
