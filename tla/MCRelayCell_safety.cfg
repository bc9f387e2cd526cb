SPECIFICATION Spec
CONSTANTS
    Conns = {c1, c2, c3, c4}
    h1 = h1
    h2 = h2
    t1 = t1
    t2 = t2
    Hosts = {h1, h2}
    Tickets = {t1}
    TicketHost <- OneHostTickets
    Stranger = Stranger
    Parties = {h1, h2}
    None = None
    MaxUsedTickets = 1
    ConsumeOnResolve = FALSE
    Monitored = TRUE
    CoalescedFrames = FALSE
SYMMETRY ConnSymmetry
CHECK_DEADLOCK FALSE
INVARIANTS
    BridgedToTicketHost
    RoutingConsistent
    BridgesPipe
    CloseIsFinal
PROPERTIES
    BridgesUndisturbed
