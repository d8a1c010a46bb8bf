SPECIFICATION TimersSpec
SYMMETRY Perms
CONSTANTS
    Peers = {p1}
    Connects = {c1, c2}
    Probing = {p1}
    Relayed = {p1}
    Every = 2
    Limit = 3
    Rtos = {1, 2}
    MaxRetries = 1
    Attempts = 2
    Research = 2
    Refresh = 1
    Floor = 0
    Window = 1
    Frags = 2
    RetryMs = 250
    InitialRto = 200
    MinRto = 20
    MaxRto = 5000
    Widest = 1000000
INVARIANTS
    WakeCovers
    ResendsTeach
PROPERTIES
    PassSettles
