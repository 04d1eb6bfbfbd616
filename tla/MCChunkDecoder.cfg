\* Outputs of up to 5 bytes over chunks of at most 3 and a dictionary of 3, so that a
\* call fills the dictionary, shifts it and replaces it, and the next call starts with
\* what it left.
CONSTANTS
  Byte = {0, 1}
  DictCap = 3
  ChunkSize = 3
  Window = 2
  MaxSize = 5
  PrefixCap = 2
SPECIFICATION Spec
INVARIANTS
  TypeOK
  ReferencesResolve
  ReaderGetsExpected
PROPERTY ImplementsSlidingWindow
