SPECIFICATION FairSpec
CONSTANTS
  MaxDesc = 6
  MaxMerged = 1
  AllocGrowth = 2
  UINT16 = 5
  DescriptorSize = 48
  MaxEvents = 3
CHECK_DEADLOCK FALSE
INVARIANTS TypeOK MapFitsBuffer PrintsFilledMap HandoffMapCurrent BlameFirmware
PROPERTIES Terminates
