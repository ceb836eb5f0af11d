SPECIFICATION FairSpec
CONSTANTS
  first = first
  second = second
  third = third
  Callers = {first, second, third}
  Listener = Listener
  None = None
  Abandoned = Abandoned
  HandlersStop = TRUE
CHECK_DEADLOCK FALSE
INVARIANTS
  TypeOK
  StopExcludesHandlers
  NeverCrashes
PROPERTIES
  StopCompletes
