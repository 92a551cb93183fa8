SPECIFICATION FairSpec
CONSTANTS
    Ifaces = {wan, lte}
    Counters = {0}
    MbpsPerUnit = 1
    Pings <- MCPings
    WeightChoices <- MCWeights
    Full = 2
    AlphaNum = 1
    AlphaDen = 2
    HysteresisThreshold = 1
    PingTicks = {1}
    Horizon = 1
    NoUpdate = NoUpdate
    MinViable = 1
    Hysteresis = 0
    Cooldown = 1
    AutoFailoverModes = {TRUE}
    NoIface = NoIface
    MaxPending = 1
PROPERTY
    DownPathAbandoned
