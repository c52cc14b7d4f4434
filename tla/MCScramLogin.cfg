SPECIFICATION LoginSpec
CONSTANTS
  MaxConversations = 2
  Mechanisms <- ScramOnly
  FrameSizes = {1}
  MaxBufSize = 1
  MaxTokens = 1
  Faults <- StepFaults
  ReallocZeroIsNull = TRUE
  IntRange = 16
  MinIterations = 4
  Counts <- SomeCounts
  Salts <- Salty
  Passwords <- TwoPasswords
  LocalFailures = TRUE
  Confused = TRUE
INVARIANTS
  LoginInv
  Agreement
  DoneMeansEnoughIterations
