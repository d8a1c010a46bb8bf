SPECIFICATION FairSpec
CONSTANTS
    Addrs = {a1, a2}
    Nobody = Nobody
    Movers = {0}
    MaxMoves = 1
    Worlds <- TwoParties
INVARIANTS
    ProvedFirst
PROPERTIES
    ExposedIsFixed
    Followed
    ThreadsReturn
CHECK_DEADLOCK FALSE
