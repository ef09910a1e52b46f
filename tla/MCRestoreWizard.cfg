SPECIFICATION Spec
CONSTANTS
    Domains = {d1, d2}
    MaxRuns = 2
    MaxPicks = 1
    Scenarios = {}
SYMMETRY Symmetry
INVARIANTS
    TypeOK
    OutcomeIsHonest
    UndoAimsAtItsRestore
PROPERTIES
    UndoKeepsToItsDomains
