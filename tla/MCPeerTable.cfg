SPECIFICATION FairSpec
CONSTANTS
    Ids = {1, 2, 3}
    a1 = a1
    a2 = a2
    a3 = a3
    Addrs = {a1, a2, a3}
    Sids = {s1}
    Tokens = {t1, t2}
    Worlds <- TableWorlds
    MaxPeers = 2
    MaxCandidates = 2
    PathProbes = 2
    Replies = 0
    Rate = 2
    NoToken = NoToken
INVARIANTS
    IndexesAgree
    FiledWhereReached
PROPERTIES
    MovesDisplaceNobody
    Followed
CHECK_DEADLOCK FALSE
