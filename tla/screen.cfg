SPECIFICATION FairSpec
CONSTANTS
  Screens <- MCScreens
  UINT16 = 16
  Columns = 4
  Rows = 3
  Primary = 16728064
  Secondary = 16744639
  Black = 0
  ExclusiveOr <- MCExclusiveOr
CHECK_DEADLOCK FALSE
INVARIANTS TypeOK PixelsInside TextureCovers
PROPERTIES TilesApart Terminates
