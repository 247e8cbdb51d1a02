SPECIFICATION Spec
CONSTANTS
  Images = {ImageA, ImageB}
  Offered = {ImageA, ImageB}
  LIMIT = 2
  IDLE_ROUNDS = 2
  MaxEvents = 4
  None = None
  NoCause = NoCause
  Garbled = Garbled
PROPERTY
  GivesUpToInstalled
CHECK_DEADLOCK FALSE
