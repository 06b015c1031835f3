\* The clock of the pcap records, for 6 seconds of capture
CHECK_DEADLOCK FALSE
CONSTANTS
  StartTimes <- MCStartTimes
  Ticks <- MCTicks
  MaxTicks = 400000000
SPECIFICATION ClockSpec
INVARIANTS
  NoDrift
PROPERTIES
  TimeNeverBack
