SPECIFICATION FairSpec
CONSTANTS
  SnifferCapable = TRUE
  MaxPresses = 3
  MaxWords = 3
INVARIANTS
  TypeOK
  BytesInOrder
  CopyIsCurrent
  NoLostWakeup
  ClosedIsQuiet
  ButtonsFollowDevice
PROPERTIES
  ImplementsHandoff
  StartActsAsShown
  CloseTakesEffect
  PacketsReachWindow
CHECK_DEADLOCK FALSE
