INIT EvenInit
NEXT RingNext
CONSTANTS
  BUF_SIZE = 60
  MAX_DATA_UNIT_LEN = 24
  Lengths = {10, 18}
  ShortLengths = {10}
  Payloads = {d1}
  Corrupt = Corrupt
  ChecksSpace = TRUE
  ClearsFlag = TRUE
INVARIANTS
  UnreadIntact
