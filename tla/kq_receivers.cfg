SPECIFICATION Spec
CONSTANTS
  a = a
  b = b
  c = c
  x = x
  y = y
  Tasks <- MCTasks
  Items = {x, y}
  NoItem = NoItem
  NoTask = NoTask
  uxLength = 2
  Priority <- MCPriority
  Calls <- TwoReceivers
  IsrOps = {"send"}
  IsrSend = {"back"}
  MaxLock = 2
INVARIANTS
  ReceiverNotForgotten
PROPERTIES
  IsBoundedQueue
CHECK_DEADLOCK FALSE
