SPECIFICATION FairSpec
CONSTANTS
  host = host  host2 = host2  w1 = w1  w2 = w2
  Hosts = {host, host2}
  Workers = {w1, w2}
  UI = UI
  Found <- MCFound
  SIDs = {s1}
  NoSID = NoSID
  Unknown = Unknown
CHECK_DEADLOCK FALSE
INVARIANTS
  TypeOK
  ShownIsCurrent
PROPERTIES
  CallsEnd
