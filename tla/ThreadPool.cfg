SPECIFICATION FairSpec
CONSTANTS
  Callers = {c1, c2}
  First = c1
  MaxJobs = 2
  Workers = {1, 2, 3, 4}
  FirstAttr <- MCFirstAttr
  Attrs <- MCAttrs
CHECK_DEADLOCK FALSE
INVARIANTS
  TypeOK
  BoundsAreKept
  EveryJobIsSomewhere
PROPERTIES
  TakenInOrder
  CallsEnd
