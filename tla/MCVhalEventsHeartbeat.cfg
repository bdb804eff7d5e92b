CONSTANTS
  h1 = h1
  h2 = h2
  HardwareThreads = {h1}
  MaxCalls = 1
  Sizes = {1}
  MaxBeats = 1
  MaxDeaths = 1
SPECIFICATION Spec
INVARIANTS HeartbeatHasHardware
CHECK_DEADLOCK FALSE
