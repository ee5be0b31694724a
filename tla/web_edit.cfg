CONSTANTS
    Subs = {s1}
    Files = {f1, f2}
    UIs = {1, 2}
    JobIds = {1, 2, 3, 4}
    None = None
    MaxEdits = 2
    SubThreads = 1
    JobThreads = 2
    MaxRetries = 1
    NoTimeout = FALSE
    LongDay = FALSE
    MaxFaults = 0
SPECIFICATION WebSpec
SYMMETRY Symmetry
INVARIANTS ExtraJobsAreEdits JobSlots
PROPERTIES EndedStaysInWeb
