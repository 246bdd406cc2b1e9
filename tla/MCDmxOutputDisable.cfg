SPECIFICATION Spec
CONSTANTS
  Slots = 2
  MaxLevel = 1
  MaxCalls = 3
INVARIANTS
  DisableStopsOutput
