CONSTANTS
    OptionSets <- ManyOptions
    TtlMod = 6
    MayFail = TRUE
    MayLose = TRUE
    MaxRaised = 3
SPECIFICATION FairSpec
CHECK_DEADLOCK FALSE
INVARIANTS
    RightVerdict
PROPERTIES
    ImplementsHopByHop
    Concludes
