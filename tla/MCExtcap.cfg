\* Three captures on a device that keeps its speed
CHECK_DEADLOCK FALSE
CONSTANTS
  Versions <- MCVersions
  MaxRuns = 3
SPECIFICATION ExtcapSpec
INVARIANTS
  DeviceSpeedFits
  ReleasedAtExit
