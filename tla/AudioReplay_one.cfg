SPECIFICATION FairSpec
CONSTANTS
  wav = wav
  b1 = b1
  b2 = b2
  None = None
  Clients <- WavPlayer
  FrameLen = 2
  BlockLen = 4
  Blocks <- TwoBlocks
  QueueSize = 2
  Formats <- PlayableOnly
  WriteSizes <- AnySize
  MaxSamples = 9
  MaxStreams = 2
INVARIANTS
  TypeOK
  BlocksConserved
  HalfOwnership
  QueueNeverFull
  StopLosesAtMostOneHalf
  NeverHalts
PROPERTIES
  HeardInOrder
  QueuedBlocksStable
  CallsReturn
CHECK_DEADLOCK FALSE
