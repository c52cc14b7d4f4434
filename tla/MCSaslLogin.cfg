SPECIFICATION SaslSpec
CONSTANTS
  MaxConversations = 2
  Mechanisms <- GssapiOnly
  FrameSizes = {1}
  MaxBufSize = 1
  MaxTokens = 2
  Faults <- SaslFaults
  ReallocZeroIsNull = TRUE
  Builds <- BothBuilds
  LibraryFaults <- SomeCalls
  HasPassword = FALSE
INVARIANTS
  HandlesReleased
  FirstFailureReported
  NoSilentFailure
  ContextBeforeWrap
  OwnFailureCrashesInDestroy
  SaslInv
