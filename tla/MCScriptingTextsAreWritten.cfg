SPECIFICATION Spec
CONSTANTS
  MaxRuns = 2
  MaxTexts = 1
  MaxBytes = 0
INVARIANTS
  TextsAreWritten
CHECK_DEADLOCK FALSE
