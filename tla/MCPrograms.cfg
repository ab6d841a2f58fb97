\* 2 packets are enough for an answer to find another probe than its own,
\* before or after it in the list; the tags start at 0 or wrap on the way.
CONSTANTS
    W = 256
    Local = 200
    FlowBase = 150
    UdpPort = 28
    TcpPorts <- MCTcpPorts
    StartTags = {0, 254}
    Router = 91
    MaxProbes = 2
    Lines <- MCLines
    Numbers <- MCNumbers
    Triples <- MCTriples
    MaxPort = 255
    Hosts <- MCHosts
    DefaultPorts <- MCPorts
    ExamplePort = 103
SPECIFICATION Spec
CHECK_DEADLOCK FALSE
INVARIANT Tiled
INVARIANT WellFormed
INVARIANT PathKept
INVARIANT Remembered
INVARIANT DestinationIsOperand
INVARIANT AsAsked
INVARIANT BitsRight
PROPERTY RightProbe
