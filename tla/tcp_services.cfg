INIT Init
NEXT Next
CONSTANTS
  SeqMod = 32
  FirstSequence = 30
  MSS = 2
  TxLength = 4
  RxLength = 5
  TxWindow = 6
  RxWindow = 4
  LittleSpace = 1
  EnoughSpace = 2
  SegmentCount = 2
  RepeatCount = 2
  MaxBytes = 4
  MaxTransmits = 1
  MaxInFlight = 2
  MaxAcks = 1
  DuplicateAcks = 2
  LargeWindowCount = 1
  s1 = s1
  s2 = s2
  r1 = r1
  r2 = r2
  cl = cl
  Listener = ls
  Client = cl
  Children = {s1, s2}
  Remotes = {r1, r2}
  Acceptor = "acceptor"
  Caller = "caller"
  DataUsers = {"caller"}
  Backlog = 2
  EventQueueLength = 2
  SynCount = 2
  KeepAliveCount = 1
  Packets <- MCPackets
  Reconnects = FALSE
  ListenerCloses = FALSE
  n1 = n1
  n2 = n2
  n3 = n3
  d1 = d1
  d2 = d2
  HostNames = {n1, n2, n3}
  NoName = NoName
  LongNames = {n3}
  HostAddresses = {d1, d2}
  NoHost = NoHost
  CacheEntries = 2
  RequestAttempts = 2
  Identifiers = {1}
  NameAnswers <- MCAnswers
  NeighbourNames = {n1}
  SecondsRange = 10
  MaxSeconds = 1
  MaxInbox = 1
  MaxKept = 1
SYMMETRY Interchangeable
INVARIANTS ReceivedInOrder EveryByteTracked ClientsAccountedFor AttentionPaid NamesResolvedRight
CHECK_DEADLOCK FALSE
