SPECIFICATION MutexSpec
CONSTANTS
  idle = idle
  low = low
  other = other
  mid = mid
  high = high
  ma = ma
  mb = mb
  Tasks = {idle, low, mid, high}
  Idle = idle
  Mutexes = {ma, mb}
  Recursive = {}
  NoTask = NoTask
  uxBasePriority <- Base
  MutexRequests <- Timeouts
  MaxDepth = 2
INVARIANTS TopListNotEmpty
CHECK_DEADLOCK FALSE
