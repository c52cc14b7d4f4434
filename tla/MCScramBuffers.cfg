SPECIFICATION Spec
CONSTANTS
  Max = 4096
  HashSizes = {20, 32}
  UserLengths <- Users
  NonceLengths <- Nonces
  OtherLengths = {0, 1, 2, 9}
INVARIANTS
  BuffersInv
  ProofIsSent
  WithinBuffers
