\* All interleavings; one connection, two threads.
SPECIFICATION Spec
CONSTANTS
  ra = ra  rb = rb  w1 = w1  w2 = w2
  NoId = NoId
  Fd <- TwoFds
  Slot <- FourSlots
  Id <- OneRobot
  Home <- AwayFromZero
  Worker <- TwoThreads
  Capacity = 1
  HEART_TIME = 2
  DEAD_TIME = 1
  ReadSize = 1
  MaxConnects = 1
  MaxSends = 2
  MaxCloses = 1
  ErrEvents = TRUE
INVARIANTS TypeOK NoStrandedData
CHECK_DEADLOCK FALSE
