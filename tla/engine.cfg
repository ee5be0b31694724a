SPECIFICATION FairSpec
CONSTANTS
    Indexes <- FourIndexes
    Jobs <- AllJobs
    WideMin = 1
    WideMax = 9
    QuadMin = 1
    QuadMax = 2
    StartTime = 0
    MaxTime = 3
INVARIANTS
    SearchesEverything
    SolvedHasWcs
    ChoosesAsked
PROPERTIES
    SolvedNotSearched
    CancelledTriesNoIndex
    JobEnds
