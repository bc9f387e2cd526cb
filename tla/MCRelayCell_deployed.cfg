SPECIFICATION FairSpec
CONSTANTS
    Conns = {c1, c2, c3}
    h1 = h1
    h2 = h2
    t1 = t1
    t2 = t2
    Hosts = {h1}
    Tickets = {t1}
    TicketHost <- OneHostTickets
    Stranger = Stranger
    Parties = {h1}
    None = None
    MaxUsedTickets = 1
    ConsumeOnResolve = TRUE
    Monitored = FALSE
    CoalescedFrames = FALSE
CHECK_DEADLOCK FALSE
PROPERTY
    CloseClosesOther
