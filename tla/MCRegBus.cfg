\* The addresses of ov3.fwpkg; three calls with two short or failed reads
CHECK_DEADLOCK FALSE
CONSTANTS
  WDATA = 1026
  WCMD = 1027
  RDATA = 1028
  RCMD = 1029
  Word = 3100
  Speeds = {"low", "high"}
  Words <- MCWords
  MaxCalls = 3
  MaxFaults = 2
SPECIFICATION FairSpec
INVARIANTS
  ReadsBack
  WordWritten
PROPERTIES
  BridgeNotDisturbed
  CallReturns
