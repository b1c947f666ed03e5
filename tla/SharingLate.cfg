SPECIFICATION FormedSpec
CONSTANTS
  Drone = {1, 2}
  Grid = {1}
  Coord = {1}
  Timeout = 1
  Timely = FALSE
  MaxTxn = 1
  MaxVersion = 1
  MaxRequests = 1
  Relays = {}
  MaxCommands = 0
  MaxLosses = 0
  MaxReleases = 0
INVARIANTS
  CoordinatorsSound
