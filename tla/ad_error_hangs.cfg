SPECIFICATION DmaFairSpec
CONSTANTS
  Channels = {"Tx", "Rx"}
  Errors = {"Rx"}
  MaxPolls = 2
PROPERTIES
  CallsReturn
CHECK_DEADLOCK FALSE
