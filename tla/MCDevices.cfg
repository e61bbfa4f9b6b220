\* One board or program at a time, each on a small instance (given in the module).
SPECIFICATION Spec
CONSTANTS
  Boards <- SerialBoards
  Requests <- SerialRequests
  Everybody <- Broadcast
  MaxFrames = 2
  Devices <- SomeDevices
  Numbers = {2, 4, 5}
  Values <- SomeValues
  MaxModifs = 3
  MaxCrashes = 2
INVARIANTS RadioIsSet SafeSearch FilesAreWhole
PROPERTIES CardAnswers HostsServed DoorsTold BoxStarts
\* The GIS box, the programs and a device nobody asks may stop.
CHECK_DEADLOCK FALSE
