SPECIFICATION Spec
CONSTANTS
  Digits <- SomeDigits
  MaxLength = 8
  TargSizes = {1, 4, 7}
INVARIANTS
  DecoderInv
  DecodesEncodings
