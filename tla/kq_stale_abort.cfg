SPECIFICATION Spec
CONSTANTS
  a = a
  b = b
  c = c
  x = x
  y = y
  Tasks <- PairOfTasks
  Items = {x}
  NoItem = NoItem
  NoTask = NoTask
  uxLength = 1
  Priority <- MCPriority
  Calls <- Aborter
  IsrOps = {}
  IsrSend = {}
  MaxLock = 1
PROPERTIES
  MaxDelayNeverFails
CHECK_DEADLOCK FALSE
