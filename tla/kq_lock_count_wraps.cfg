SPECIFICATION Spec
CONSTANTS
  a = a
  b = b
  c = c
  x = x
  y = y
  Tasks <- OneTask
  Items = {x}
  NoItem = NoItem
  NoTask = NoTask
  uxLength = 129
  Priority <- MCPriority
  Calls <- OneReceiver
  IsrOps = {"send"}
  IsrSend = {"back"}
  MaxLock = 200
INVARIANTS
  ReceiverNotForgotten
CHECK_DEADLOCK FALSE
