SPECIFICATION Spec
CONSTANTS
    t1 = t1
    t2 = t2
    None = None
    Thread = {t1, t2}
    Uses <- AllUses
    MaxRetries = 1
    Window = 2
    MaxQueued = 1
    Rto = 1
    FlushTimeout = 2
    MaxTime = 3
    MaxIds = 2
    MaxData = 1
    MaxSocket = 1
INVARIANTS
    SleepsPastNothing
    InOnePlace

    
CHECK_DEADLOCK FALSE
