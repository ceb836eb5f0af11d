SPECIFICATION FairSpec
CONSTANTS
  light = light
  switch1 = switch1
  switch2 = switch2
  Devices <- MCDevices
  Services = {switch1}
  ServicesOf <- MCOneService
  Evented = {switch1}
  NoService = NoService
  SIDs = {s1}
  NoSID = NoSID
  Http = Http
  Firers = {Http}
  DefaultExpiration = 10
  RefreshPeriod = 10
  Calls = {"subscribe"}
  Collector = TRUE
CHECK_DEADLOCK FALSE
PROPERTY
  PassContinues
