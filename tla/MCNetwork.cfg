CONSTANTS
    p1 = p1
    p2 = p2
    p3 = p3
    Probes <- ThreeProbes
    TagMod = 4
    Timeout = 3
    ExtraDelay = 1
    Lag = 1
    Second = 3
    FracDiv = 3
    MaxInbox = 1
SPECIFICATION Spec
SYMMETRY ProbeSymmetry
INVARIANTS
    TypeInv
    Accounted
    OldestFirst
    TagsDistinct
    TimerRight
PROPERTIES
    RightReply
    NoEarlyTimeout
    DropKeepsTimer
