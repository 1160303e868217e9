SPECIFICATION Spec
CONSTANTS
  v = v
  a = a
  b = b
  c = c
  g = g
  NoReq = NoReq
  Reqs = {g}
  Script <- ScriptReserve
  Capacity = 4
  MAX_RESERVE = 2
  LatencyRange = 2
  NDEBUG = TRUE
  Times = {2, 3}
  Delays = {2}
  MaxRollbacks = 0
  Word = 65536
INVARIANTS
  UnitsConserved
