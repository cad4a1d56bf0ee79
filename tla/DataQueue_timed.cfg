SPECIFICATION Spec
CONSTANTS
  p1 = p1
  p2 = p2
  c1 = c1
  c2 = c2
  isr = isr
  w = w
  NoItem = NoItem
  Pushers <- PusherAndIsr
  Poppers <- PopperAndIsr
  Peekers <- OnlyIsr
  Resetters <- Resetter
  Handlers <- OnlyIsr
  Items = {1, 2}
  Size = 2
  Lwm = 1
  Timeouts <- OneTick
INVARIANTS
  QueueInv
PROPERTIES
  IsFifo
CHECK_DEADLOCK FALSE
