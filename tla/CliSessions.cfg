CONSTANTS
  Processes = {"p1", "p2"}
  Runs <- MCRuns
  Stores <- MCStores
  MaxSyncs = 1
  MaxInterrupts = 1
SPECIFICATION FairSpec
INVARIANTS
  ExitsTellTheTruth
PROPERTIES
  NoLinkIsLeftBehind
  ProcessesEnd
CHECK_DEADLOCK FALSE
