SPECIFICATION Spec
CONSTANTS
  VGA_WIDTH = 3
  VGA_HEIGHT = 2
  Strings <- MCStrings
  Colours <- MCColours
  MaxAsked = 8
INVARIANTS TypeOK ScreenShowsLatest
