SPECIFICATION Spec
CONSTANTS
  m1 = m1
  m2 = m2
  m3 = m3
  m4 = m4
  NoMsg = NoMsg
  Msgs = {m1, m2, m3, m4}
  Req <- ReqOneQueue
  PacketSize = 2
  SchedType = "fcfs"
  SubType = "rr"
  NumPrios = 2
  Method = "selfclocked"
  NumQueues = 1
  NumServers = 1
  NicsPerRouter = 1
  NodeCopyQueues = 1
  CnDelay = 1
  NicSeqDelay = 0
  IdleDelay = 1
  LatencyRange = 2
  Recycled = {FALSE, TRUE}
  Times = {1, 2}
  MaxRollbacks = 2
INVARIANTS
  CopiesSerialised
PROPERTIES
  CommitsSequentially
