\* Three loads, of a bitstream that uses both buffers again
CHECK_DEADLOCK FALSE
CONSTANTS
  NBlocks = 3
  MaxLoads = 3
  MaxLate = 2
SPECIFICATION FairSpec
INVARIANTS
  BuffersHeld
  InOrder
  SuccessMeansConfigured
  FifoModeRestored
PROPERTIES
  LoadEnds
