SPECIFICATION TransferFairSpec
CONSTANTS
    Msg <- Messages3
    Count <- Cut3
    MaxQueued = 2
    MaxInFlight = 2
    MaxRetries = 1
    SendsFail = TRUE
    MaxIds = 5
    MaxReassemblies = 1
INVARIANTS
    HandedOnce
    DeliveredMeansHanded
    NoSilentLoss
PROPERTIES
    FragmentedSettles
CHECK_DEADLOCK FALSE
