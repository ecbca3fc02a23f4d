SPECIFICATION Spec
CONSTANTS
  a = a
  b = b
  c = c
  x = x
  y = y
  Tasks <- MCTasks
  Items = {x}
  NoItem = NoItem
  NoTask = NoTask
  uxLength = 2
  Priority <- MCPriority
  Calls <- Resetter
  IsrOps = {}
  IsrSend = {}
  MaxLock = 1
INVARIANTS
  SenderNotForgotten
CHECK_DEADLOCK FALSE
