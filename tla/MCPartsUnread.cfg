SPECIFICATION PartsSpec
CONSTANTS
    Parts = {"pages"}
    PageRows = {r1, r2}
    MaxPageWrites = 2
    MaxLBSubmits = 0
    MaxLBOthers = 0
    MaxChanges = 0
    MaxChangesByOthers = 0
    LogViews = {v1, v2}
    MaxLogLines = 0
    LogPageSize = 1
    MaxLogClicks = 0
    RecoveryRuns = {run1, run2}
    RecoveryNames = {n1, n2}
    RateInstances = {i1, i2}
    RateSeries = {s1, s2}
    MaxTraffic = 0
    MaxRateClock = 0
    MaxGap = 1
    MaxOps = 0
    IdleTabs = {t1, t2}
    IdleLimit = 1
    MaxIdleClock = 0
    MaxIdleTokens = 1
    MaxAskedFields = 1
SYMMETRY PartsSymmetry
INVARIANTS
    UnknownIsReadBack
CHECK_DEADLOCK FALSE
