SPECIFICATION SurrogateSpec
CONSTANTS
  Routers <- MCRouters
  Terminals <- MCTerminals
  Group <- MCGroup
  RouterOf <- MCRouterOf
  Global = {}
  NoGroup <- MCNoGroup
  Msgs <- MCMsgs
  Msg <- MCMsg
  Algorithm = "MINIMAL"
  PacketSize = 4
  ChunkSize = 2
  VcSize <- MCVcSize
  NsPerByte <- MCNsPerByte
  PropDelay <- MCPropDelay
  CreditDelay <- MCCreditDelay
  RouterDelay = 1
  NumVcs = 4
  Notify = TRUE
  Lookahead = 1
  Times = {1, 6}
  Window = 1
  MaxRollbacks = 1
  Plans <- MCPlans
  Latencies = {1, 5}
  PacketDelay = 3
  None = None
INVARIANTS
  SelfEventOnce
