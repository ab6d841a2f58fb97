CONSTANTS
    a = a
    b = b
    c = c
    d = d
    e = e
    Dst = Dst
    None = None
    StoppingPoints <- Points
    Networks <- SilentBranch
    MaxUndiscovered = 2
    MaxTtls = 5
    FlowIdWidth = 16
    MaxTerms = 0
SPECIFICATION Spec
CHECK_DEADLOCK FALSE
INVARIANTS
    TestsInFlight
