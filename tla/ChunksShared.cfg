SPECIFICATION FairSpec
CONSTANTS
  Drone = {1, 2, 3}
  MapNum = 4
  Link <- MCRow
  Explorer = {1}
  ChunkSize = 1
  Batch = {1, 2}
  MaxChunks = 3
  MaxStamping = 1
INVARIANTS TypeOK ListsExact ListsTidy AnswersExact
PROPERTIES Implements Shared
CHECK_DEADLOCK FALSE
