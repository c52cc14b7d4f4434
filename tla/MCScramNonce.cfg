SPECIFICATION LoginSpec
CONSTANTS
  MaxConversations = 1
  Mechanisms <- ScramOnly
  FrameSizes = {1}
  MaxBufSize = 1
  MaxTokens = 1
  Faults <- StepFaults
  ReallocZeroIsNull = TRUE
  IntRange = 16
  MinIterations = 4
  Counts <- GoodCounts
  Salts <- Salty
  Passwords <- OnePassword
  LocalFailures = TRUE
  Confused = TRUE
INVARIANTS
  NonceRepeated
