\* A pool whose callers wait for room and are still there when two threads destroy it.
SPECIFICATION Spec
CONSTANTS
  w1 = w1  w2 = w2  p1 = p1  p2 = p2  d1 = d1  d2 = d2
  j1 = j1  j2 = j2  j3 = j3  j4 = j4
  NoJob = NoJob
  NoThread = NoThread
  Worker <- TwoWorkers
  Producer <- TwoProducers
  Destroyer <- TwoDestroyers
  Job <- ThreeJobs
  max_queue_size = 1
  do_not_block_when_full = FALSE
  FinishArgs <- AlwaysFinish
  MallocFails = FALSE
  CallersJoined = FALSE
INVARIANTS NoLostWakeup OneCloser JobInOnePlace
PROPERTIES AddWorkReturns ImplementsWorkPool
\* A freed pool stops for good.
CHECK_DEADLOCK FALSE
