SPECIFICATION LinksSpec
CONSTANTS
  Rings = {1, 2}
  BUF_SIZE <- MCBufSize
  ReadTail = 10
  Lengths = {2, 4}
  Payloads = {d1}
  Corrupt = Corrupt
  Channels = {"Tx", "Rx"}
  Errors = {"Tx", "Rx"}
  MaxPolls = 2
  IpQueueLength = 2
  MaxSleep = 3
  ArpPeriod = 2
  TcpPeriod = 2
INVARIANTS
  IpTaskAwakeInTime
  SentOnce
PROPERTIES
  SuccessMeansCompleted
  CallsReturnUntilError
  RequestsServed
CHECK_DEADLOCK FALSE
