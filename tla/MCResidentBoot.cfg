SPECIFICATION FairSpec
CONSTANTS
  Images = {ImageA, ImageB}
  Offered = {ImageA, ImageB}
  LIMIT = 2
  IDLE_ROUNDS = 2
  MaxEvents = 6
  None = None
  NoCause = NoCause
  Garbled = Garbled
INVARIANTS
  LoopBounded
  CauseForwarded
PROPERTIES
  UsesRecords
  RunsInstalled
  Settles
CHECK_DEADLOCK FALSE
