CONSTANTS
  Processes = {p, q}
  Rows = {r1, r2, bad}
  Malformed = {bad}
  PAGE = 1
  MaxRuns = 3
  MaxKills = 1
  MaxChanges = 1
SPECIFICATION FairSpec
INVARIANTS
  OneInstallId
  KeyStoreIsReadable
PROPERTIES
  ValidatedOnce
  SyncIsComplete
  CommandsEnd
CHECK_DEADLOCK FALSE
