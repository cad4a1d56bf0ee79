SPECIFICATION FairSpec
CONSTANTS
  up = up
  Esc = Esc
  NoKey = NoKey
  Buttons <- OneButton
  MbSize = 4
  KeySize = 2
  Slots = 1
  MaxCalls = 2
INVARIANTS
  DisplayReturns
  GameOwnsDisplay
  RightFile
  JoypadFollowsKeys
PROPERTIES
  PlaysOn
  FollowsLastRequest
CHECK_DEADLOCK FALSE
