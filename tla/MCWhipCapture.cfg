SPECIFICATION Spec
CONSTANTS
  Radix = 4
  MaxRead = 4
  MaxBytes = 3
  MaxBreaks = 2
  MaxPresses = 3
  MaxFailures = 1
INVARIANTS
  TypeOK
  WholeBytesArrive
  HandleFollowsDevice
  ButtonsFollowDevice
PROPERTIES
  ImplementsHandoff
CHECK_DEADLOCK FALSE
