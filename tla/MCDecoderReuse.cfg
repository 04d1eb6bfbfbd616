\* Five good inputs of up to two levels and three units, ten that fail; eight arrays
\* are more than a Decoder and a call hold at a time.
CONSTANTS
  ArrayCount = 8
  Blank <- MCBlank
  Inputs <- MCInputs
  None = None
SPECIFICATION Spec
INVARIANTS
  TypeOK
  BuffersApart
PROPERTIES
  ImplementsFreshDecoder
  ImageFrozen
