CONSTANTS
  h1 = h1
  h2 = h2
  HardwareThreads = {h1, h2}
  MaxCalls = 2
  Sizes = {2}
  MaxBeats = 1
  MaxDeaths = 2
SPECIFICATION Spec
INVARIANTS TypeOK ObjectsOutliveThreads
PROPERTIES ImplementsChannel CallsStayWhole EventsDelivered DestructorEnds
CHECK_DEADLOCK FALSE
