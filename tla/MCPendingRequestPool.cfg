SPECIFICATION FairSpec
CONSTANTS
    c1 = c1
    c2 = c2
    r1 = r1
    r2 = r2
    r3 = r3
    Clients = {c1, c2}
    RequestIds = {r1, r2, r3}
    Timeout = 1
    MaxPending = 2
    MaxTime = 4
    MaxTickets = 2
INVARIANTS TypeOK WithinLimit
PROPERTIES PassMissesNothing ImplementsLedger EveryRequestAnswered DestructorEnds
CHECK_DEADLOCK FALSE
