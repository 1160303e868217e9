SPECIFICATION Spec
CONSTANTS
  Routers <- MCRouters
  Terminals <- MCTerminals
  Group <- MCGroup
  RouterOf <- MCRouterOf
  Global <- MCGlobal
  NoGroup <- MCNoGroup
  Msgs <- MCMsgs
  Msg <- MCMsg
  Algorithm = "PROG_ADAPTIVE"
  PacketSize = 3
  ChunkSize = 2
  VcSize <- MCVcSize
  NsPerByte <- MCNsPerByte
  PropDelay <- MCPropDelay
  CreditDelay <- MCCreditDelay
  RouterDelay = 1
  NumVcs = 4
  Notify = FALSE
  Lookahead = 1
  Times = {1}
  Window = 1
  MaxRollbacks = 1
INVARIANTS
  RollbackRestores
