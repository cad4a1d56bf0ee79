SPECIFICATION Spec
CONSTANTS
  wav = wav
  b1 = b1
  b2 = b2
  None = None
  Clients <- WavPlayer
  FrameLen = 2
  BlockLen = 4
  Blocks <- TwoBlocks
  QueueSize = 2
  Formats <- PlayableOnly
  WriteSizes <- AnySize
  MaxSamples = 9
  MaxStreams = 1
INVARIANT StopAfterRemainingData
CHECK_DEADLOCK FALSE
