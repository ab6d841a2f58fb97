CONSTANTS
    Second = 2
    FracDiv = 2
    Delays <- DelaysOf
    DblMax = 100
    MaxWaiting = 4
    NetTimeout = 6
    OptionSets <- WholeSeconds
    MayLose = TRUE
    MaxTerms = 2
SPECIFICATION FairSpec
CHECK_DEADLOCK FALSE
INVARIANTS
    TimerArmed
    InFlightExact
    WindowRespected
    StatisticsRight
PROPERTIES
    FiringsSpaced
    Ends
