SPECIFICATION FairSpec
CONSTANTS
  lamp1 = lamp1
  lamp2 = lamp2
  radio1 = radio1
  lamp = lamp
  radio = radio
  Objects = {lamp1, lamp2, radio1}
  UDNs = {lamp, radio}
  UDN <- MCUDN
  NoObject = NoObject
  Listen = Listen
  Finders = {}
  UI = UI
CHECK_DEADLOCK FALSE
INVARIANTS
  TypeOK
  RefusalIsRight
  TwinsComeFromTwoThreads
  TreeAgrees
PROPERTY
  CallsEnd
