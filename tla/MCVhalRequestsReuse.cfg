SPECIFICATION Spec
CONSTANTS
    b1 = b1
    b2 = b2
    t1 = t1
    t2 = t2
    a1 = a1
    a2 = a2
    r1 = r1
    Kinds = {"get"}
    Binders = {b1, b2}
    Mortal = {b1, b2}
    Threads = {t1}
    Addresses = {a1, a2}
    RequestIds = {r1}
    Timeout = 1
    MaxPending = 2
    MaxTime = 4
    MaxTickets = 2
    MaxEvents = 2
    NoAddress = NoAddress
SYMMETRY MCSymmetry
INVARIANTS AnswersReachAsker
CHECK_DEADLOCK FALSE
