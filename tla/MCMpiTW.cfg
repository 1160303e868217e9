SPECIFICATION FairSpec
CONSTANTS
  Ranks <- MCRanks
  Job <- MCJob
  Root <- MCRoot
  Job0 = 0
  Synthetic = {2}
  Trace <- MCTrace
  EAGER_THRESHOLD = 5
  Latencies <- MCLatencies
  LocalLatencies = {1}
  Interval = 30
  MaxBackground = 6
  PayloadSz = 2
  MaxGenData = 0
  JobTimer <- MCJobTimer
  RecvReqs <- MCRecvReqs
  None = None
  Window = 2
  MaxRollbacks = 2
INVARIANTS
  RollbackRestoresButCols
  NoMissedMatch
  OneOperationAtATime
  WaitsWait
  BytesAddUp
  CollectiveTimes
  StopsLast
PROPERTIES
  EveryRankFinishes
