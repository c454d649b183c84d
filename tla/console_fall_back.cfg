SPECIFICATION FairSpec
CONSTANTS
  Errors <- MCErrors
  MaxDepth = 2
CHECK_DEADLOCK FALSE
INVARIANTS FallsBackToConsole
