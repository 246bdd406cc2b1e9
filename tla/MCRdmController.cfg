SPECIFICATION Spec
CONSTANTS
  Device = {d1, d2}
  CustomPids = {"DEVICE_LABEL"}
  MaxCalls = 2
  MaxFaults = 1
  MaxQueue = 2
INVARIANTS
  TypeOK
  EveryStartFinishesOnce
  RowsNameTheirDevice
CHECK_DEADLOCK FALSE
