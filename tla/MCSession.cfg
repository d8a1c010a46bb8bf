SPECIFICATION BothSpec
CONSTANTS
    ReplaySize = 3
    RekeyInterval = 4
    MaxLookahead = 2
    MaxSeq = 16
    NoKey = NoKey
    Identities = {k1, k2}
    Pointers = {p1, p2, p3}
    MaxBegun = 5
SYMMETRY Perms
INVARIANTS
    
    KeysAgree
    ReleasedOnce
    OneOwner
CHECK_DEADLOCK FALSE
