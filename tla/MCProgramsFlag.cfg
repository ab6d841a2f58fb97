CONSTANTS
    W = 256
    Local = 200
    FlowBase = 150
    UdpPort = 28
    TcpPorts <- MCTcpPorts
    StartTags = {0}
    Router = 91
    MaxProbes = 1
    Lines <- FlagLines
    Numbers <- MCNumbers
    Triples <- MCTriples
    MaxPort = 255
    Hosts <- MCHosts
    DefaultPorts <- MCPorts
    ExamplePort = 103
SPECIFICATION Spec
CHECK_DEADLOCK FALSE
INVARIANT NoAssertionFails
