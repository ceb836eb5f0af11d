SPECIFICATION FairSpec
CONSTANTS
  first = first
  second = second
  Main = Main
  Listener = Listener
  None = None
  Abandoned = Abandoned
  Requests = {first}
  Failures = FALSE
CHECK_DEADLOCK FALSE
PROPERTY
  SearchAnswered
