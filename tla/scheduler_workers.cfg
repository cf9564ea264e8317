SPECIFICATION FairSpec
CONSTANTS
  beat = beat
  once = once
  NoJob = NoJob
  NoWorker = NoWorker
  Rank <- MCRank
  Periodic = {beat}
  Interval = 1
  MaxDelay = 1
  Job <- MCPair
  Worker = {w1, w2}
  MaxTime = 2
  LongJobs = TRUE
INVARIANTS
  RunDiscipline
PROPERTIES
  CancelledStaysUnlessMarked
  ServiceSpec
  
