SPECIFICATION AllSpec
CONSTANTS
    Group = 8
    Word = 256
    MaxLen = 3
    InitialRto = 12
    MinRto = 4
    MaxRto = 30
    Widest = 32
    RoundTrips <- EveryRoundTrip
INVARIANTS
    DecodedAsEncoded
    EstimateCovers
    Adapts
CHECK_DEADLOCK FALSE
