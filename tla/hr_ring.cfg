SPECIFICATION RingSpec
CONSTANTS
  BUF_SIZE = 52
  MAX_DATA_UNIT_LEN = 24
  Lengths = {2, 10}
  ShortLengths = {2}
  Payloads = {d1, d2}
  Corrupt = Corrupt
  ChecksSpace = TRUE
  ClearsFlag = TRUE
INVARIANTS
  PositionsProtected
PROPERTIES
  IsFrameChannel
  FramesDelivered
