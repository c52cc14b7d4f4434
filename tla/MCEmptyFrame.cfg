SPECIFICATION Spec
CONSTANTS
  MaxConversations = 1
  Mechanisms <- KnownMechanisms
  FrameSizes = {0, 1}
  MaxBufSize = 1
  MaxTokens = 2
  Faults = {}
  ReallocZeroIsNull = TRUE
INVARIANTS
  AllocationErrorMeansNoMemory
