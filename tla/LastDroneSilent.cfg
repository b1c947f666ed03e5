SPECIFICATION FairSpec
CONSTANTS
  Drone = {1, 2}
  MapNum = 2
  Link <- MCPair
  Explorer = {2}
  ChunkSize = 1
  Batch = {2}
  MaxChunks = 2
  MaxStamping = 2
PROPERTY Shared
CHECK_DEADLOCK FALSE
