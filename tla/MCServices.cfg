\* One service at a time, each on a small instance (given in the module).
SPECIFICATION Spec
CONSTANTS
  Threads = {1, 2, 3}
  Registers <- MCRegisters
  Size = 4
  HashStart <- MCHashStart
INVARIANT RegisteredIsFound
PROPERTIES  PacketsHandled RequestsDelivered LogIsWhole  CommandsServed
\* A service stops when nobody calls it.
CHECK_DEADLOCK FALSE
