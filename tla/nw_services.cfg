INIT Init
NEXT Next
CONSTANTS
  l1 = l1
  l2 = l2
  l3 = l3
  r1 = r1
  bc = bc
  m1 = m1
  m2 = m2
  LocalAddresses = {l1, l2, l3}
  RemoteAddresses = {r1}
  Broadcasts = {bc}
  GatewayAddress = l1
  NoAddress = NoAddress
  Macs = {m1, m2}
  NoMac = NoMac
  ArpEntries = 2
  MaxArpAge = 3
  MaxArpRetransmissions = 2
  AgeBeforeRequest = 1
  k1 = k1
  k2 = k2
  Buffers = {1, 2, 3}
  BufferTasks = {k1, k2}
  NoBuffer = NoBuffer
  TxDescs = 2
  RxDescs = 2
  NetBuffers = 5
  EventQueueLength = 1
  FrameNumbers = 3
  ByteBase = 16
  Quads <- MCQuads
  Tails = {0, 1, 15}
  MaxQuads = 4
  SumSeeds = {0, 255}
  EchoRequest = 8
  u1 = u1
  u2 = u2
  UdpSocks = {u1, u2}
  ZeroCopyReader = {u2}
  Selectors = {u1}
  Ports = {1, 2}
  UdpBuffers = 2
  UdpQueueLength = 2
  PayloadLengths = {1}
  MaxDatagrams = 2
INVARIANTS AnswersAreFresh PoolConsistent DescriptorsInStep ChecksumsRight DatagramsReachTheirUser BuffersAccountedFor
SYMMETRY Interchangeable
CHECK_DEADLOCK FALSE
