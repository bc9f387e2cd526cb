SPECIFICATION MCSpec
CONSTANTS
    MaxHosts = 2
    MaxStarts = 2
    Hosts = {h1, h2}
    Keys = {k1, k2}
    Devices = {d1}
    Procs = {p1, p2}
    NoJob = NoJob
    MaxCommands = 2
    Repos = {r1, r2}
    Above <- OneInside
    Shells = {s1, s2}
    NoRepo = NoRepo
    MaxTyped = 3
CHECK_DEADLOCK FALSE
INVARIANTS
    MCTypeOK
    DockSafe
    TrustSafe
    PinsKept
    BoardSafe
    ClientsSafe
PROPERTIES
    CommandsEnd
