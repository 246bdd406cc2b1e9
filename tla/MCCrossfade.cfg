SPECIFICATION FairSpec
CONSTANTS
  Slots = 3
  Faders = 1
  MaxLevel = 2
  Lengths = {2}
  MaxFades = 2
INVARIANTS
  TypeOK
  LevelsAreTheMix
  PageShowsSlots
  OnlyOverlappingFadesCrash
PROPERTIES
  FadesEnd
CHECK_DEADLOCK FALSE
