SPECIFICATION MonitorFairSpec
CONSTANTS
    Ifaces = {wan, lte}
    Counters = {0, 2}
    MbpsPerUnit = 500
    Pings <- MCPings
    WeightChoices <- MCWeights
    Full = 4
    AlphaNum = 1
    AlphaDen = 2
    HysteresisThreshold = 1
    PingTicks = {1, 2}
    Horizon = 3
    NoUpdate = NoUpdate
INVARIANTS
    MonitorTypeOK
PROPERTIES
    ThroughputNotUnderstated
    UpInterfaceReported
