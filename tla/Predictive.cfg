SPECIFICATION PredictiveSpec
CONSTANTS
    Readings = {0, 1, 3}
    Unit = 25
    MinSamples = 4
    ActionTenths = 6
    RecentWindows = {2, 10}
    MaxReadings = 11
INVARIANTS
    PredictiveTypeOK
    FitIsLeastSquares
    ActsOnConfirmedDecline
