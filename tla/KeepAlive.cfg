CONSTANTS
  Callers = {a, b}
  WINDOW = 3
  INTERVAL = 2
  MaxWindows = 3
SPECIFICATION FairKeepAliveSpec
INVARIANTS
  OnlyOverlapsAreOrphaned
PROPERTIES
  PokesStayInTheWindow
  EveryWindowCloses
CHECK_DEADLOCK FALSE
