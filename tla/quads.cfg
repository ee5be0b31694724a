SPECIFICATION QuadsSpec
CONSTANTS
    NumStars = 8
    FieldXY <- EightStars
    Indexes <- ThreeIndexes
    Slices <- ThreeDepths
    MinAB2 = 0
    MaxAB2 = 120
    Fudge = 1
    MaxObjs = 7
    MaxQuads = 16
    MaxMatches = 3
    MatchBound = 2
INVARIANTS
    CacheIsRight
    TriesAllQuads
    EachQuadOnce
PROPERTIES
    BrightFirst
