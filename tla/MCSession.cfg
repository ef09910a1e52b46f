SPECIFICATION Spec
CONSTANTS
    Tabs = {a, b}
    Tokens = {k1, k2}
    NoToken = NoToken
    MaxRequests = 1
    MaxReloads = 1
    Scenarios = {}
SYMMETRY Symmetry
INVARIANTS
    TypeOK
    NoForeignData
    NoResidue
    SessionIsWatched
    SessionInv
