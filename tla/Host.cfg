SPECIFICATION FairSpec
CONSTANTS
  first = first
  second = second
  Main = Main
  Listener = Listener
  None = None
  Abandoned = Abandoned
  Requests = {first, second}
  Failures = TRUE
CHECK_DEADLOCK FALSE
INVARIANTS
  TypeOK
  StopIsAllOrNothing
PROPERTIES
  ImplementsAdvertiser
  AnnouncedWhileServed
