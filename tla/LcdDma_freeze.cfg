SPECIFICATION FairSpec
CONSTANTS
  Chunk = 2
  Screen = 3
  Areas <- SmallOrAll
  Frame = 2
PROPERTIES
  FlushReady
CHECK_DEADLOCK FALSE
