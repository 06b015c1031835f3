\* Six calls of the user on a device that may still stream at first
CHECK_DEADLOCK FALSE
CONSTANTS
  Firmwares = {"a", "b"}
  Own = "a"
  Addr <- MCAddr
  MaxCalls = 6
  MaxFaults = 3
  MaxChan = 3
SPECIFICATION FairSpec
INVARIANTS
  SilentWhenStopped
  SinkBeforeSource
PROPERTIES
  StopEnds
