SPECIFICATION FairSpec
CONSTANTS
    f = f
    g = g
    Callbacks = {f, g}
    Intervals = {2, 3}
    Reregistered = {g}
    MaxTime = 6
    MaxId = 2
    MaxAgain = 1
    None = None
INVARIANTS TypeOK OneChain NoDrift
PROPERTIES OncePerInterval DueCallbacksRun
CHECK_DEADLOCK FALSE
