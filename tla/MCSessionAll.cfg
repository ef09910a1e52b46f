SPECIFICATION Spec
CONSTANTS
    Tabs = {a}
    Tokens = {k1, k2}
    NoToken = NoToken
    MaxRequests = 2
    MaxReloads = 1
    Scenarios = {"selfRename", "loginOverLive", "slowTabs"}
SYMMETRY Symmetry
INVARIANTS
    EndedPageStaysEmpty
