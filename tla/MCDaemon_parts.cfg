SPECIFICATION MCSpec
CONSTANTS
    Procs = {p1, p2, p3}
    Stops = {s1}
    None = None
    Refs = {r1, r2}
    MaxStreams = 2
    MaxEnded = 2
    MaxBatch = 4
    MaxInFlight = 2
    Tickets = {t1, t2}
    InitialDelay = 1
    MaxDelay = 3
    Factor = 2
    MaxAttempts = 3
CHECK_DEADLOCK FALSE
INVARIANTS
    MCTypeOK
    LockSafe
    ReportsAddUp
    NothingOrphaned
PROPERTIES
    RunsOnce
    ShutdownsEnd
