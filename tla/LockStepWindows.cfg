SPECIFICATION FairSpec
CONSTANTS
  Agent = {1}
  Packet = {"p1", "p2"}
  Steps = 3
  Step = 2
  Shortfall = 1
  Delay = 2
  Ttl = 4
  MaxAge = 1
  Tolerance = 1
  MaxDeaths = 1
CHECK_DEADLOCK FALSE
INVARIANTS
  TypeOK
  ClocksAgree
  SameWorld
  OnTime
  InOrder
  NothingExpires
PROPERTIES
  Implements
  Stops
