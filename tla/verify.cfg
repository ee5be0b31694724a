SPECIFICATION Spec
CONSTANTS
    NTall = 6
    NRall = 5
    QuadField <- Quad1
    QuadStar <- Quad2
    LogD <- Distractors
    Fg <- Odds
    LogBail <- Bail
    LogAccept = 20
    LogStop = 50
    RefOrders <- TwoRefOrders
    TestOrders <- TwoTestOrders
    MaxDropped = 3
    MaxTests = 3
    MaxRefs = 2
INVARIANTS
    OneMatchPerReference
    LogOddsCoverScore
    AcceptedCorrespond
CHECK_DEADLOCK FALSE
