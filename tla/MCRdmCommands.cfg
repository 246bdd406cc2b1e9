SPECIFICATION FairSpec
CONSTANTS
  Device = {d1}
  CustomPids = {"DEVICE_LABEL"}
  MaxCalls = 3
  MaxFaults = 0
  MaxQueue = 2
INVARIANTS
  CustomCommandHasTimer
PROPERTIES
  DiscoveryFinishes
CHECK_DEADLOCK FALSE
