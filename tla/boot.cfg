SPECIFICATION FairSpec
CONSTANTS
  Modes <- MCModes
  Target <- MCTarget
  NoVideo <- MCNoVideo
  MaxModes = 3
CHECK_DEADLOCK FALSE
INVARIANTS TypeOK ScreenHandedOver StopsForAReason
PROPERTIES OnlyTargetMode Terminates
