SPECIFICATION FairSpec
CONSTANTS
    Devices = {1, 2, 3}
    NameOf <- MCNameOf
    StatesOf <- MCStatesOf
    Ignored = {}
    Nobody = Nobody
INVARIANTS
    TypeOK
    NoInheritedCounters
PROPERTY
    ListConverges
