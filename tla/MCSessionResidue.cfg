SPECIFICATION Spec
CONSTANTS
    Tabs = {a}
    Tokens = {k1}
    NoToken = NoToken
    MaxRequests = 1
    MaxReloads = 0
    Scenarios = {"selfRename"}
INVARIANTS
    NoResidue
