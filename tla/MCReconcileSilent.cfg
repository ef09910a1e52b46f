SPECIFICATION Spec
CONSTANTS
    MaxOps = 2
    MaxPages = 1
    Intervals = 1
    SilentPaths = TRUE
INVARIANTS
    ReportsAreReal
    NobodyWaitsInVain
    AbandonedNeverConfirms
PROPERTIES
    AbandonedStops
