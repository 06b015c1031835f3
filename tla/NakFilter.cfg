\* All sequences of 5 packets, with a pipe that may break at any write
CHECK_DEADLOCK FALSE
CONSTANT MaxArrived = 5
SPECIFICATION Spec
INVARIANTS
  OutputExact
  NothingLostAtEnd
PROPERTIES
  BrokenPipeStops
