SPECIFICATION Spec
CONSTANTS
  MaxConversations = 2
  Mechanisms <- KnownMechanisms
  FrameSizes = {1}
  MaxBufSize = 1
  MaxTokens = 2
  Faults = {}
  ReallocZeroIsNull = TRUE
INVARIANTS
  WritesClientMessages
