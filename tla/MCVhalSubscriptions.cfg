CONSTANTS
  c1 = c1
  c2 = c2
  cb1 = cb1
  cb2 = cb2
  Clients = {c1, c2}
  Callbacks = {cb1, cb2}
  ClientOf <- MCClientOf
  Props = {speed, gear}
  Continuous = {speed}
  SubConfigs <- MCSubConfigs
  CoarsestResolution = 3
  Failing = {}
  Reported = {speed}
  SupportedValueProps = {gear}
  Values = {1}
  MaxTime = 1
  Mortal = {c1}
  MaxEvents = 2
  None = None
SPECIFICATION HalSpec
INVARIANTS SubscribersAreWatched OnChangeServed
PROPERTIES DeadClientsUnsubscribed
CHECK_DEADLOCK FALSE
