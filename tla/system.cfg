SPECIFICATION FairSystem
CONSTANTS
  Modes <- MCModes
  Target <- MCTarget
  NoVideo <- MCNoVideo
  MaxModes = 1
  Images <- MCImages
  Phdrs <- MCPhdrs
  Addr <- MCAddr
  EhdrSize <- MCEhdrSize
  PhdrSize <- MCPhdrSize
  PageSize = 2
  EI_NIDENT = 1
  MaxDesc = 11
  MaxMerged = 0
  AllocGrowth = 2
  MaxEvents = 2
  UINT16 = 65536
  DescriptorSize = 48
CHECK_DEADLOCK FALSE
INVARIANT KernelInherits
PROPERTIES ImplementsBoot SystemTerminates
