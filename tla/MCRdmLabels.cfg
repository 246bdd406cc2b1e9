SPECIFICATION Spec
CONSTANTS
  Device = {d1, d2}
  CustomPids = {"DEVICE_LABEL"}
  MaxCalls = 1
  MaxFaults = 0
  MaxQueue = 2
PROPERTIES
  AnsweredDevicesAreLabelled
CHECK_DEADLOCK FALSE
