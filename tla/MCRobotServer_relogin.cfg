\* One robot logs in on a second connection, without the overlaps of KeptApart.
SPECIFICATION ApartSpec
CONSTANTS
  ra = ra  rb = rb  w1 = w1  w2 = w2
  NoId = NoId
  Fd <- TwoFds
  Slot <- FourSlots
  Id <- OneRobot
  Home <- AwayFromZero
  Worker <- OneThread
  Capacity = 2
  HEART_TIME = 2
  DEAD_TIME = 1
  ReadSize = 2
  MaxConnects = 2
  MaxSends = 2
  MaxCloses = 1
  ErrEvents = FALSE
INVARIANTS RegisteredIsOnline
CHECK_DEADLOCK FALSE
