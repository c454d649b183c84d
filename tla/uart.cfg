SPECIFICATION FairSpec
CONSTANTS
  Message <- MCMessage
  FifoSize = 2
  Input <- MCInput
  MaxInput = 3
CHECK_DEADLOCK FALSE
INVARIANTS TypeOK WireTellsMessage SentAsConfigured GetcharInOrder
PROPERTIES MessageSent
