CONSTANTS
    a = a
    b = b
    c = c
    d = d
    e = e
    Dst = Dst
    None = None
    StoppingPoints <- Points
    Networks <- SomeNetworks
    MaxUndiscovered = 2
    MaxTtls = 5
    FlowIdWidth = 16
    MaxTerms = 1
SPECIFICATION Spec
CHECK_DEADLOCK FALSE
INVARIANTS
    InFlightExact
    TestsInFlight
    NeverStranded
    FlowsRight
    LinksRight
    StoppingRule
    NoLateDiscovery
    StoppingPointsRight
