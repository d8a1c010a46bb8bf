SPECIFICATION FairSpec
CONSTANTS
    c1 = c1
    c2 = c2
    Clients = {c1, c2}
    Endpoints = {c2}
    Server = server
    Sids = {1}
    MaxTickets = 2
    Replies = 1
    Worlds <- Openings
INVARIANTS
    Agreement
    RedeemedOnce

    
CHECK_DEADLOCK FALSE
