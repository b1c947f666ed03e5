SPECIFICATION FairFormedSpec
CONSTANTS
  Drone = {1, 2}
  Grid = {1}
  Coord = {1}
  Timeout = 1
  Timely = TRUE
  MaxTxn = 1
  MaxVersion = 3
  MaxRequests = 1
  Relays = {2}
  MaxCommands = 1
  MaxLosses = 0
  MaxReleases = 0
PROPERTY
  AllGridsHeld
