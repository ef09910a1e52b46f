SPECIFICATION Spec
CONSTANTS
    Domains = {d1, d2}
    MaxRuns = 1
    MaxPicks = 1
    Scenarios = {"unreadableAnswers"}
SYMMETRY Symmetry
INVARIANTS
    OutcomeIsHonest
