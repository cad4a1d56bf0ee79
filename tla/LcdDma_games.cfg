SPECIFICATION FairSpec
CONSTANTS
  Chunk = 2
  Screen = 3
  Areas <- SmallOrAll
  Frame = 2
INVARIANTS
  TypeOK
  GameBuffer
  FrameStarts
PROPERTIES
  ReadyWhenSent
  FlushAcknowledged
  ScreenRestored
CHECK_DEADLOCK FALSE
