SPECIFICATION FormedSpec
CONSTANTS
  Drone = {1, 2}
  Grid = {1}
  Coord = {1}
  Timeout = 1
  Timely = TRUE
  MaxTxn = 1
  MaxVersion = 1
  MaxRequests = 1
  Relays = {2}
  MaxCommands = 2
  MaxLosses = 0
  MaxReleases = 0
INVARIANTS
  RelayHoldsNothing
  CandidatesUnowned
PROPERTY
  Grants
