SPECIFICATION Spec
CONSTANTS
  Drone = {1, 2}
  Grid = {1}
  Coord = {1}
  Timeout = 1
  Timely = TRUE
  MaxTxn = 1
  MaxVersion = 2
  MaxRequests = 1
  Relays = {}
  MaxCommands = 0
  MaxLosses = 1
  MaxReleases = 0
INVARIANTS
  StagedTxnIsCurrent
  CoordinatorsSound
  GrantStands
