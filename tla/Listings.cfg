CONSTANTS
  MAX_ENTRIES = 2
  SEQUENCES = 6
  MaxStored = 3
  MaxNext = 4
  MaxCalls = 2
SPECIFICATION FairSpec
INVARIANTS
  TypeOK
  ListsAreWhole
  RaisesOnlyAtTheCap
  LogIsGapless
  NoRecordTwice
PROPERTY ListingsEnd
CHECK_DEADLOCK FALSE
