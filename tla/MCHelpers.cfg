SPECIFICATION HelpersSpec
CONSTANTS
  LongMax = 511
  IntModulus = 16
  MinIterations = 4
  BlockSize = 16
  WordBytes = 1
  Name <- ShortName
  MaxFrame = 2
  Counts <- SomeCounts
  Inputs <- SomeInputs
  Usernames <- SomeUsernames
  Signatures <- SomeSignatures
  Messages <- SomeMessages
INVARIANTS
  IterationsAreTheNumber
  HashesPaddedMessage
  FindsServiceName
  VerifiesEqualSignatures
  PasswordIsPrepared
  PayloadsArrive
CHECK_DEADLOCK FALSE
