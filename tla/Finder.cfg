SPECIFICATION FinderFairSpec
CONSTANTS
  window = window
  other = other
  Callers = {window, other, Timer}
  Starter = window
  Timer = Timer
  Listener = Listener
  None = None
  Abandoned = Abandoned
  HandlersStop = TRUE
CHECK_DEADLOCK FALSE
INVARIANTS
  FinderTypeOK
  SearchIsSafe
PROPERTY
  SearchCompletes
