SPECIFICATION FairSpec
CONSTANTS
  high = high
  mid = mid
  low = low
  idle = idle
  outer = outer
  inner = inner
  None = None
  Threads <- FourThreads
  Mutexes <- TwoMutexes
  InitPrio <- Prios
  Rank <- Nesting
  HoldMax = 2
  Timed <- TwoTimed
  NestedTimed = FALSE
INVARIANTS
  NoInversion
  WaitersListed
  GrantedIsOwner
  PriorityEarned
PROPERTIES
  MostUrgentFirst
  TopServed
CHECK_DEADLOCK FALSE
