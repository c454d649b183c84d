SPECIFICATION FairSpec
CONSTANTS
  Errors <- MCErrors
  MaxDepth = 4
CHECK_DEADLOCK FALSE
INVARIANTS TypeOK LinesTellTheirStatus NothingLostSilently DepthBounded
PROPERTIES ErrorsPrompt
