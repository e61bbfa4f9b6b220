\* A modem that answers and whose link does not change.
SPECIFICATION Spec
CONSTANTS MaxSaid = 0
PROPERTIES MacIsRead
CHECK_DEADLOCK FALSE
