SPECIFICATION FairSpec
CONSTANTS
    Ifaces = {wan, lte, wifi}
    Scores = {2, 3, 4, 6}
    MinViable = 3
    Hysteresis = 1
    Cooldown = 2
    AutoFailoverModes = {TRUE, FALSE}
    NoIface = NoIface
INVARIANTS
    DecisionMatchesPath
    DegradedCountConsecutive
PROPERTIES
    SwitchJustified
    NoEndlessFlapping
    DegradedPathAbandoned
