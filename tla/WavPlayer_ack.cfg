SPECIFICATION FairSpec
CONSTANTS
  gui = gui
  shell = shell
  u1 = u1
  u2 = u2
  None = None
  Callers <- TwoCallers
  Uris <- TwoUris
  MqSize = 2
PROPERTIES
  CallReturns
CHECK_DEADLOCK FALSE
