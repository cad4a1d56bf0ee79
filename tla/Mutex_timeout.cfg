SPECIFICATION Spec
CONSTANTS
  high = high
  mid = mid
  low = low
  idle = idle
  outer = outer
  inner = inner
  None = None
  Threads <- FourThreads
  Mutexes <- OneMutex
  InitPrio <- Prios
  Rank <- Nesting
  HoldMax = 1
  Timed <- ThreeTimed
  NestedTimed = FALSE
INVARIANTS
  PriorityReturned
CHECK_DEADLOCK FALSE
