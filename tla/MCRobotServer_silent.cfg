\* Two connections of one robot on one descriptor fall silent; all interleavings.
SPECIFICATION Spec
CONSTANTS
  ra = ra  rb = rb  w1 = w1  w2 = w2
  NoId = NoId
  Fd <- OneFd
  Slot <- FourSlots
  Id <- OneRobot
  Home <- AwayFromZero
  Worker <- OneThread
  Capacity = 2
  HEART_TIME = 1
  DEAD_TIME = 0
  ReadSize = 2
  MaxConnects = 2
  MaxSends = 2
  MaxCloses = 1
  ErrEvents = FALSE
PROPERTIES SilentIsClosed
CHECK_DEADLOCK FALSE
