\* Three calls with a register whose answer, 55 80 80 00 55, has few values and may
\* follow itself: 32896 = 0x8000 | 0x80
CHECK_DEADLOCK FALSE
CONSTANTS
  Addr = 32896
  Strays = {85, 128, 0}
  Chunk = 4
  MaxStray = 5
  MaxSyncs = 3
SPECIFICATION FairSpec
INVARIANTS
  SearchExact
  AnswersConsumed
PROPERTIES
  SyncReturns
