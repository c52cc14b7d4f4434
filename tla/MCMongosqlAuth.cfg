SPECIFICATION Spec
CONSTANTS
  MaxConversations = 3
  Mechanisms <- AllMechanisms
  FrameSizes = {0, 1, 2}
  MaxBufSize = 1
  MaxTokens = 2
  Faults <- AllFaults
  ReallocZeroIsNull = TRUE
INVARIANTS
  TypeOK
  OkMeansComplete
  ErrorHasMessage
  ErrorHasCause
  BuffersFit
  Lockstep
  LockstepPayloads
  IInv
PROPERTIES
  FirstErrorSticks
  DoneIsFinal
  ReadsOnlyWhatIsOwed
  ImplementsOutcome
  Termination
