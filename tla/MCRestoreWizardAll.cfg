SPECIFICATION FairSpec
CONSTANTS
    Domains = {d1, d2}
    MaxRuns = 1
    MaxPicks = 2
    Scenarios = {"partialSnapshots", "unreadableAnswers"}
INVARIANTS
    ReplacesWhatIsTicked
    RestoreInv
PROPERTIES
    KeepsPromise
    CommittingEnds
    DryRunSettles
