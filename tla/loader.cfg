SPECIFICATION FairSpec
CONSTANTS
  Images <- MCImages
  Phdrs <- MCPhdrs
  Addr <- MCAddr
  EhdrSize <- MCEhdrSize
  PhdrSize <- MCPhdrSize
  PageSize = 2
  EI_NIDENT = 1
CHECK_DEADLOCK FALSE
INVARIANTS TypeOK KernelInPlace PoolDiscipline UntouchedUntilValid GoodImageLoads
PROPERTIES OnlyOwnPages ImplementsKernelLoad Terminates
