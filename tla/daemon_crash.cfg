CONSTANTS
    Subs = {s1}
    Files = {f1, f2}
    UIs = {1, 2}
    JobIds = {1, 2}
    None = None
    SubThreads = 2
    JobThreads = 2
    MaxRetries = 1
    NoTimeout = FALSE
    LongDay = FALSE
    MaxFaults = 2
SPECIFICATION Spec
SYMMETRY Symmetry
INVARIANTS TypeOK OneJobPerImage TasksOwnTheirImage HasJobIsTrue
PROPERTIES EndedStays FinishedNotRestarted KeepsLedger
