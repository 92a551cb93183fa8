SPECIFICATION FairSpec
CONSTANTS
    Routes = {viaEth, viaLte}
    Rules = {prio100}
    MaxChanges = 3
INVARIANTS
    ManagedInKernel
    AddedRoutesRemoved
    UntouchedRoutesSurvive
PROPERTIES
    ExecuteEnds
