SPECIFICATION SocketSpec
CONSTANTS
    Base = 1
    Ladder = {2, 3, 5}
    Cap = 4
    ProbeTries = 2
    Rounds = 2
    Datagrams = {d1, d2}
    MaxReports = 2
INVARIANTS
    SizeProven
PROPERTIES
    Researches
    EveryDatagramIsReturned
