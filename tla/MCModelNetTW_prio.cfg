SPECIFICATION FairSpec
CONSTANTS
  m1 = m1
  m2 = m2
  m3 = m3
  m4 = m4
  NoMsg = NoMsg
  Msgs = {m1, m2, m3, m4}
  Req <- ReqPrio
  PacketSize = 2
  SchedType = "prio"
  SubType = "rr"
  NumPrios = 2
  Method = "idle"
  NumQueues = 1
  NumServers = 2
  NicsPerRouter = 1
  NodeCopyQueues = 1
  CnDelay = 1
  NicSeqDelay = 0
  IdleDelay = 1
  LatencyRange = 2
  Recycled = {FALSE}
  Times = {1}
  MaxRollbacks = 1
INVARIANTS
  TypeOK
  RollbackRestores
  OneLoopPerQueue
  PacketsTile
  ServiceOrder
  NicOrder
  NoStrandedRequest
PROPERTIES
  EveryMessageServed
