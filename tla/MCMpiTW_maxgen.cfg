SPECIFICATION Spec
CONSTANTS
  Ranks <- MCRanks
  Job <- MCJob
  Root <- MCRoot
  Job0 = 0
  Synthetic = {2}
  Trace <- MCNoPrograms
  EAGER_THRESHOLD = 5
  Latencies <- MCLatencies
  LocalLatencies = {1}
  Interval = 30
  MaxBackground = 6
  PayloadSz = 2
  MaxGenData = 3
  JobTimer <- MCJobTimer
  RecvReqs <- MCRecvReqs
  None = None
  Window = 1
  MaxRollbacks = 1
INVARIANTS
  RollbackRestores
