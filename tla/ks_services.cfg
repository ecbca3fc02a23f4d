INIT Init
NEXT Next
CONSTANTS
  a = a
  b = b
  Timers = {a, b}
  NoTimer = NoTimer
  Dynamic = {b}
  Reloading = {a}
  FirstPeriod <- MCFirstPeriod
  NewPeriods = {1}
  TimerTickRange = 5
  TimerQueueLength = 2
  MaxLate = 2
  TimerCalls <- MCTimerCalls
  t1 = t1
  t2 = t2
  t3 = t3
  EventTasks = {t1, t2, t3}
  Bits = {1, 2, 3}
  EventCalls <- MCEventCalls
  FromISR <- MCFromISR
  DeferredLimit = 1
  Participants = {t1, t2}
  StreamLength = 5
  LengthBytes = 1
  WriteSizes = {1, 3}
  ReadSizes = {2}
  MessageSizes = {1, 3}
  AsksLength = TRUE
  TriggerLevels = {0, 2, 5}
  HeapBytes = 30
  Alignment = 2
  StructSize = 2
  Requests = {0, 1, 2, 5, 9, 100, 200}
  AllocatedBit = 128
  idle = idle
  low = low
  other = other
  mid = mid
  high = high
  ma = ma
  mb = mb
  Tasks = {idle, low, mid, high}
  Idle = idle
  Mutexes = {ma}
  Recursive = {ma}
  NoTask = NoTask
  uxBasePriority <- Base
  MutexRequests <- Every
  MaxDepth = 2
INVARIANTS TimersListedExactly NobodyForgotten MeetingHeld StreamInOrder NoWakeUpLost HeapIsPartitioned
           InheritanceEnds InheritsExactly NoInversion
PROPERTIES BlocksUntilNextExpiry
CHECK_DEADLOCK FALSE
