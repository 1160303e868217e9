SPECIFICATION FairSpec
CONSTANTS
  Routers <- MCRouters
  Terminals <- MCTerminals
  Group <- MCGroup
  RouterOf <- MCRouterOf
  Global <- MCGlobal
  NoGroup <- MCNoGroup
  NumVcs = 4
INVARIANTS
  IntermediateGroupIsPlanned
PROPERTIES
  ChannelsAscend
  EveryPacketArrives
