SPECIFICATION FairSpec
CONSTANTS
  MaxRuns = 3
  MaxTexts = 2
  MaxBytes = 2
INVARIANTS
  TypeOK
  EachByteReadOnce
  PortThreadEndsWithScript
PROPERTIES
  AbortStopsScript
  RunComesBack
CHECK_DEADLOCK FALSE
