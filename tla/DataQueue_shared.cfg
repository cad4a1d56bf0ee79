SPECIFICATION FairSpec
CONSTANTS
  p1 = p1
  p2 = p2
  c1 = c1
  c2 = c2
  isr = isr
  w = w
  NoItem = NoItem
  Pushers <- TwoPushers
  Poppers <- TwoPoppers
  Peekers <- Nobody
  Resetters <- Nobody
  Handlers <- Nobody
  Items = {1}
  Size = 2
  Lwm = 0
  Timeouts <- Patient
PROPERTIES
  SleepersServed
CHECK_DEADLOCK FALSE
