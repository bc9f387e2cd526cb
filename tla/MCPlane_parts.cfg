SPECIFICATION MCSpec
CONSTANTS
    Approvals = {a1, a2, a3}
    Exchanges = {e1, e2}
    MaxApproveAttempts = 2
    None = None
    Raises = {r1, r2}
    MaxTime = 2
    MaxTokens = 2
    Polls = {i1, i2}
    ListCap = 1
    NoRaise = NoRaise
    Requests = {q1, q2}
    HostRows = {h1}
    DeviceRows = {d1, d2}
    PairRows = {p1}
    Tickets = {t1}
    maxHostsPerOrg = 1
    HitLimit = 1
    MaxRequests = 4
    NoRow = NoRow
    Orgs = {o1, o2}
    NoOrg = NoOrg
    MaxEvents = 6
CHECK_DEADLOCK FALSE
INVARIANTS
    MCTypeOK
    GrantMintsOnce
    TokenWasApproved
    AttentionSafe
    CredentialsSafe
    HandedIsLogged
    OffboardedIsOut

    
