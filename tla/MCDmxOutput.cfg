SPECIFICATION FairSpec
CONSTANTS
  Slots = 2
  MaxLevel = 1
  MaxCalls = 3
INVARIANTS
  TypeOK
  LevelsFromOneWriter
  FramesWerePublished
  AtMostOneLateFrame
PROPERTIES
  LevelsReachWire
