SPECIFICATION RendezvousSpec
CONSTANTS
    Clients = {1, 2}
    BINDS = 1
    Worlds <- TwoClients
INVARIANTS
    TakesBothToAgree
    RegistersAgree
    GroupsAgree
PROPERTIES
    OneVerdict
    BothConnect
CHECK_DEADLOCK FALSE
