SPECIFICATION CngSpec
CONSTANTS
  t1 = t1
  t2 = t2
  Threads <- TwoThreads
  MaxConversations <- TwoAndOne
  Unavailable <- SomeUnavailable
  None = None
INVARIANTS
  CngTypeOK
  ComputesWithOpenHandle
  SkippedOnlyWhileReopening
PROPERTIES
  HandlesComeBack
CHECK_DEADLOCK FALSE
