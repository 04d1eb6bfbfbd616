\* Two platforms: a 64-bit int holds every uint32 and not the product of two; a 32-bit
\* one is an int32, and a uint32 from a header may not fit it.  Eight bits a dimension,
\* so the largest chain has eight levels where the code has 32.
CONSTANTS
  MaxUint64 = 65535
  MaxUint32 = 255
  MaxInt32 = 127
  Platforms = {32767, 127}
  DefaultMips = 8
  DefaultBytes = 64
  Sides = {0, 1, 3, 5, 16, 127, 128, 181, 255, 256}
  Writes <- MCWrites
  Foreign <- MCForeign
  None = None
SPECIFICATION Spec
INVARIANTS
  TypeOK
  LengthsAreExact
  FullChainEndsInOneTexel
  WrittenIsReadable
  DetectedFormatHasSize
  ErrorsAreTrue
CHECK_DEADLOCK FALSE
