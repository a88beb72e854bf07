\* Two servers, one worker, two moments; a window bound to the first.
CONSTANTS
  a = a
  b = b
  Order <- MCOrder
  Bound = a
  Info <- MCInfo
  MaxWorkers = 1
  PageSize = 1
  Window = 1
  Skew <- MCSkew
  Near = 1
  MaxPoints = 2
  MaxCollected = 2
  MaxTime = 3
  MaxEvents = 2
  MaxLost = 1
  None = None
SPECIFICATION MonitorFairSpec
INVARIANT MonitorInv
PROPERTIES NeverOlder Sampled
CHECK_DEADLOCK FALSE
