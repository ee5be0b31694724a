SPECIFICATION Spec
CONSTANTS
    NRows = 5
    Skies <- AllSkies
    Mag <- Magnitudes
    Params <- Options
    MaxPos = 7
    CellWidth = 2
    BigCells = 2
    HpWidth = 2
    QLo = 2
    QHi = 5
    Shuffles <- ThreeShuffles
INVARIANTS
    NoCloseStars
    KeepsBrightest
    ReuseBounded
    NoQuadTwice
    PassesMadeUp
    MergedIndexIsRight
PROPERTIES
    MakesBrightest
CHECK_DEADLOCK FALSE
