SPECIFICATION Spec
CONSTANTS
    wan = wan
    lte = lte
    vpn = vpn
    Ifaces = {wan, lte, vpn}
    Modes = {"ecmp", "weighted"}
    Scores = {0, 60}
    MinHealths = {0, 50}
    HostTables <- MCHostTables
    LastMark = 3
    MaxSetups = 2
    NoSet = NoSet
INVARIANTS
    TypeOK
    BalancedSetPreferred
    TeardownRemovesSet
    RulesTakenBack
PROPERTY
    SharesFair
