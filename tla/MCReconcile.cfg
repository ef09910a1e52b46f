SPECIFICATION FairSpec
CONSTANTS
    MaxOps = 2
    MaxPages = 2
    Intervals = 1
    SilentPaths = FALSE
INVARIANTS
    TypeOK
    DialogStaysUp
    ToldUnlessLeft
    PlainInv
PROPERTIES
    ReportsStayHome
    EveryWriteSettles
