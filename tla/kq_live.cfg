SPECIFICATION FairSpec
CONSTANTS
  a = a
  b = b
  c = c
  x = x
  y = y
  Tasks <- PairOfTasks
  Items = {x, y}
  NoItem = NoItem
  NoTask = NoTask
  uxLength = 1
  Priority <- MCPriority
  Calls <- Live
  IsrOps = {"send", "receive"}
  IsrSend = {"overwrite"}
  MaxLock = 1
INVARIANTS
  SenderNotForgotten
PROPERTIES
  ReceiverServed
  FiniteWaitReturns
CHECK_DEADLOCK FALSE
