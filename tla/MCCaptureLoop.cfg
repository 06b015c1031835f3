\* The capture loop with the three transfers of the code
CONSTANTS
  NTransfers = 3
  BufferPackets = 2
  Counts <- MCCounts
  MaxDelivered = 3
SPECIFICATION FairSpec
INVARIANTS
  ActiveIsPending
  BufferNotShared
  AllOrNone
PROPERTIES
  LeftForGood
  CountReturned
  RunEnds
