SPECIFICATION Spec
CONSTANTS
  Causes = {1, 2}
  MaxCount = 1
  Junk = 43775
  NoCause = NoCause
  Decays <- MCDecays
PROPERTIES
  RequestKept
  ImplementsRecords
