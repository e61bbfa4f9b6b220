\* Two colliding robots, two threads, descriptors are reused; all interleavings
\* but the overlaps KeptApart names.
SPECIFICATION ApartSpec
CONSTANTS
  ra = ra  rb = rb  w1 = w1  w2 = w2
  NoId = NoId
  Fd <- TwoFds
  Slot <- FourSlots
  Id <- TwoRobots
  Home <- AwayFromZero
  Worker <- TwoThreads
  Capacity = 2
  HEART_TIME = 1
  DEAD_TIME = 0
  ReadSize = 2
  MaxConnects = 2
  MaxSends = 2
  MaxCloses = 1
  ErrEvents = FALSE
INVARIANTS OnlineMeansOpen ConnectionCount OpenIsWatched CommandReachesRobot
CHECK_DEADLOCK FALSE
SYMMETRY RobotSymmetry
