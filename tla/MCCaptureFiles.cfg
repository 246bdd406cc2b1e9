SPECIFICATION FairSpec
CONSTANTS
  MaxPackets = 1
  MaxJobs = 2
INVARIANTS
  TypeOK
  CrashNeedsShrunkTable
PROPERTIES
  SavedFileHoldsRows
  ReloadGivesMessages
  CursorComesBack
CHECK_DEADLOCK FALSE
