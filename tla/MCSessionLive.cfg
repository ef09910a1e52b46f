SPECIFICATION FairSpec
CONSTANTS
    Tabs = {a, b}
    Tokens = {k1}
    NoToken = NoToken
    MaxRequests = 1
    MaxReloads = 1
    Scenarios = {"slowTabs"}
PROPERTIES
    EndedSessionLeavesBrowser
    EveryTabFollows
