CONSTANTS
  c1 = c1
  c2 = c2
  cb1 = cb1
  cb2 = cb2
  Clients = {c1, c2}
  Callbacks = {cb1, cb2}
  ClientOf <- MCClientOf
  Props = {gear}
  Continuous = {}
  SubConfigs <- MCSubConfigs
  CoarsestResolution = 3
  Failing = {}
  Reported = {gear}
  SupportedValueProps = {gear}
  Values = {1}
  MaxTime = 1
  None = None
SPECIFICATION Spec
INVARIANTS OnChangeServed
CHECK_DEADLOCK FALSE
