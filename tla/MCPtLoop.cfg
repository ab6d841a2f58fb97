CONSTANTS
    i1 = i1
    i2 = i2
    Instances <- TwoInstances
    ProbesPerRound <- TwoAndOne
    MaxRounds = 1
    HasMaxTime = FALSE
    MaxSignals = 1
    MayLose = TRUE
    MayFail = FALSE
SPECIFICATION FairSpec
INVARIANTS
    NoFault
    CounterExact
    NoAnswerAfterTerm
PROPERTIES
    Ends
