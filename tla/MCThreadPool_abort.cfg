\* A pool destroyed with finish 0 or 1, and a malloc that may fail.
SPECIFICATION Spec
CONSTANTS
  w1 = w1  w2 = w2  p1 = p1  p2 = p2  d1 = d1  d2 = d2
  j1 = j1  j2 = j2  j3 = j3  j4 = j4
  NoJob = NoJob
  NoThread = NoThread
  Worker <- TwoWorkers
  Producer <- TwoProducers
  Destroyer <- OneDestroyer
  Job <- ThreeJobs
  max_queue_size = 2
  do_not_block_when_full = TRUE
  FinishArgs <- EitherFinish
  MallocFails = TRUE
  CallersJoined = FALSE
PROPERTIES ImplementsSafeWorkPool
\* A freed pool stops for good.
CHECK_DEADLOCK FALSE
