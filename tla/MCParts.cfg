SPECIFICATION PartsSpec
CONSTANTS
    Parts = {"pages", "lbrule", "readback", "logs", "recovery", "rates", "results", "idle", "confirm"}
    PageRows = {r1, r2}
    MaxPageWrites = 2
    MaxLBSubmits = 2
    MaxLBOthers = 1
    MaxChanges = 2
    MaxChangesByOthers = 2
    LogViews = {v1, v2}
    MaxLogLines = 3
    LogPageSize = 1
    MaxLogClicks = 3
    RecoveryRuns = {run1, run2}
    RecoveryNames = {n1, n2}
    RateInstances = {i1, i2}
    RateSeries = {s1, s2}
    MaxTraffic = 3
    MaxRateClock = 3
    MaxGap = 2
    MaxOps = 2
    IdleTabs = {t1, t2}
    IdleLimit = 2
    MaxIdleClock = 5
    MaxIdleTokens = 3
    MaxAskedFields = 2
SYMMETRY PartsSymmetry
INVARIANTS
    PartsTypeOK
    ListCatchesUp
    NothingRidesAlong
    LBSaysWhatHeld
    SaysWhatItRead
    OneStretch
    KeysQuarantined
    RatesAreTraffic
    RefusedIsNotDone
    ConfirmsExactly
PROPERTIES
    KeepsOthersWork
    KeepsThePromise
    IdleIsTimely
CHECK_DEADLOCK FALSE
