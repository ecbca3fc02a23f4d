SPECIFICATION Spec
CONSTANTS
  idle = idle
  periodic = periodic
  h = h
  Tasks = {idle, periodic, h}
  Idle = idle
  NoTask = NoTask
  Initially = {idle, periodic, h}
  InitialPriority <- MCPriority
  Priorities = {0, 1, 2}
  TickRange = 4
  Calls <- Everything
  Interrupts <- Handlers
  MaxPended = 1
  MaxValue = 1
INVARIANTS DelaysExact ReadyExactly NotifiedNotBlocked AssertionsHold
PROPERTIES TicksCounted PeriodKept
CHECK_DEADLOCK FALSE
