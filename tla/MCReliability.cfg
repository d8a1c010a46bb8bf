SPECIFICATION FairSpec
CONSTANTS
    HalfSpace = 3
    AckWindow = 2
    MaxInFlight = 2
    InitialCwnd = 2
    MinCwnd = 1
    MaxRetries = 1
    MaxAttempts = 1
    Lifetime = 3
    MaxMessages = 7
INVARIANTS
    OutstandingNotRefused
    OutstandingNameable
PROPERTIES
    ImplementsDelivery
    EverySendSettles
