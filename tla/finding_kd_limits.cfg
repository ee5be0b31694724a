SPECIFICATION QuadSpec
CONSTANTS
    Clouds <- SomeClouds
    NDim = 4
    TMax = 7
    NLeaf = 2
    Unit = 14
    Garbage = {0, 7}
    Queries <- Asked
    Radii = {0, 3, 5}
    FieldCodes <- SomeQuads
    Tol = 3
INVARIANTS
    FindsAllInRange
