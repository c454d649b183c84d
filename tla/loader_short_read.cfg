SPECIFICATION FairSpec
CONSTANTS
  Images <- TruncatedImages
  Phdrs <- ShortReadPhdrs
  Addr <- MCAddr
  EhdrSize <- MCEhdrSize
  PhdrSize <- MCPhdrSize
  PageSize = 2
  EI_NIDENT = 1
CHECK_DEADLOCK FALSE
INVARIANTS ShortReadReported
