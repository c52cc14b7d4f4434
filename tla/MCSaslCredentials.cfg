SPECIFICATION SaslSpec
CONSTANTS
  MaxConversations = 1
  Mechanisms <- GssapiOnly
  FrameSizes = {1}
  MaxBufSize = 1
  MaxTokens = 2
  Faults <- SaslFaults
  ReallocZeroIsNull = TRUE
  Builds = {"gssapi"}
  LibraryFaults = {"canonicalize_name"}
  HasPassword = FALSE
INVARIANTS
  CredentialsOfUser
