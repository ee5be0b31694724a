CONSTANTS
    Subs = {s1}
    Files = {f1, f2}
    UIs = {1, 2, 3}
    JobIds = {1, 2, 3}
    None = None
    SubThreads = 1
    JobThreads = 2
    MaxRetries = 1
    NoTimeout = FALSE
    LongDay = TRUE
    MaxFaults = 1
SPECIFICATION FairSpec
PROPERTIES EveryImageGetsAnswer
