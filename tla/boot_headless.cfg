SPECIFICATION FairSpec
CONSTANTS
  Modes <- MCModes
  Target <- MCTarget
  NoVideo <- MCNoVideo
  MaxModes = 1
CHECK_DEADLOCK FALSE
INVARIANTS HeadlessBoots
