SPECIFICATION FairSpec
CONSTANTS
    b1 = b1
    b2 = b2
    t1 = t1
    t2 = t2
    a1 = a1
    a2 = a2
    r1 = r1
    Kinds = {"set"}
    Binders = {b1, b2}
    Mortal = {b1}
    Threads = {t1, t2}
    Addresses = {a1, a2}
    RequestIds = {r1}
    Timeout = 0
    MaxPending = 1
    MaxTime = 1
    MaxTickets = 2
    MaxEvents = 2
    NoAddress = NoAddress
INVARIANTS  AnsweredOnce FailedCallsLeaveNothing ClientsAreWatched CookiesAreAlive
PROPERTIES ImplementsPool  DeadClientsForgotten
CHECK_DEADLOCK FALSE
