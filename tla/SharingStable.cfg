SPECIFICATION FormedSpec
CONSTANTS
  Drone = {1, 2}
  Grid = {1}
  Coord = {1}
  Timeout = 1
  Timely = TRUE
  MaxTxn = 2
  MaxVersion = 3
  MaxRequests = 1
  Relays = {}
  MaxCommands = 0
  MaxLosses = 0
  MaxReleases = 1
INVARIANTS
  TypeOK
  Exclusive
  
