SPECIFICATION FairSpec
CONSTANTS
  Manager = Manager
  Finder = Finder
  Services = 2
INVARIANTS
  TypeOK
  ByeIsFinal
PROPERTY
  LiveHostIsListed
