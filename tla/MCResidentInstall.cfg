SPECIFICATION Spec
CONSTANTS
  ImageA = ImageA
  ImageB = ImageB
  Images <- MCImages
  Length <- MCLength
  HdrWords = 2
  RowWords = 2
  PageWords = 4
  AppWords = 8
  BlockWords = {3, 5}
  MaxFaults = 1
  Erased = Erased
  Torn = Torn
  Junk = Junk
  None = None
INVARIANTS
  InstalledIsWhole
  InstalledIsReadable
  OkMeansInstalled
PROPERTIES
  NoOverprogramming
  ImplementsAtomicUpdate
  EventuallyInstalled
