SPECIFICATION FairSpec
CONSTANTS
  Clients = {c1, c2}
  None = None
  HandlerOutcomes = {"response", "null", "throws"}
CHECK_DEADLOCK FALSE
INVARIANTS
  TypeOK
  GoodClientsAreSafe
  AtMostOneHangs
PROPERTIES
  EveryoneIsServed
