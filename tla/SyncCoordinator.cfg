SPECIFICATION FairSpec
CONSTANTS
  MaxEdits = 3
  MaxDirect = 1
  MaxDeletes = 1
INVARIANTS
  TypeOK
  StateIsHonest
  SyncedMeansSaved
PROPERTIES
  StopIsFinal
  ChangesAreSaved
