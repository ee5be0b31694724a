CONSTANTS
    Subs = {s1}
    Files = {f1, f2}
    UIs = {1, 2}
    JobIds = {1, 2}
    None = None
    SubThreads = 2
    JobThreads = 1
    MaxRetries = 1
    NoTimeout = FALSE
    LongDay = TRUE
    MaxFaults = 1
SPECIFICATION FairSpec
PROPERTIES EnqueuedOnce EverySubmissionFinishes
