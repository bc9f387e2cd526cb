SPECIFICATION PlaneSpec
CONSTANTS
    Requests = {q1}
    HostRows = {h1}
    DeviceRows = {d1}
    PairRows = {p1}
    Tickets = {t1}
    maxHostsPerOrg = 1
    HitLimit = 1
    MaxRequests = 3
    NoRow = NoRow
CHECK_DEADLOCK FALSE
INVARIANTS
    CountersMortal
