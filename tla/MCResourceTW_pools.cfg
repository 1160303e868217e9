SPECIFICATION FairSpec
CONSTANTS
  v = v
  a = a
  b = b
  c = c
  g = g
  NoReq = NoReq
  Reqs = {v, a, b, c, g}
  Script <- ScriptReserve
  Capacity = 4
  MAX_RESERVE = 2
  LatencyRange = 2
  NDEBUG = FALSE
  Times = {2, 3}
  Delays = {2}
  MaxRollbacks = 2
  Word = 65536
INVARIANTS
  TypeOK
  RollbackRestores
  UnitsConserved
  NoLostWakeup
  GrantsInOrder
  PeakOfReservedPools
PROPERTIES
  EveryRequestAnswered
