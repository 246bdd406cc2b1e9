SPECIFICATION Spec
CONSTANTS
  MaxRuns = 2
  MaxTexts = 1
  MaxBytes = 0
INVARIANTS
  RunningCanBeAborted
CHECK_DEADLOCK FALSE
