SPECIFICATION Spec
CONSTANTS
  MaxNodes = 4
  Day <- TwoDays
  Alike <- AllAlike
  MaxFailures = 1
  MaxRestarts = 1
INVARIANTS FileIsWhole CountedAsStored
PROPERTIES TouchCatchesUp 
CHECK_DEADLOCK FALSE
