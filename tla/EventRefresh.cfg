SPECIFICATION Spec
CONSTANTS
  light = light
  switch1 = switch1
  switch2 = switch2
  Devices <- MCDevices
  Services = {switch1, switch2}
  ServicesOf <- MCTwoServices
  Evented = {switch1}
  NoService = NoService
  SIDs = {s1, s2}
  NoSID = NoSID
  Http = Http
  Firers = {Http}
  DefaultExpiration = 20
  RefreshPeriod = 10
  Calls = {"bad", "subscribe", "renew", "unsubscribe", "fire", "fireEmpty"}
  Collector = TRUE
SYMMETRY SIDSymmetry
CHECK_DEADLOCK FALSE
INVARIANTS
  TypeOK
  ExpiredAreRemoved
  UnsubscribeIsFinal
  LookupIsExact
  FireIsExact
