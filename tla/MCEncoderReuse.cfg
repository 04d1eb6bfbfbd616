\* Levels of one to three units, compressed from two units on; 20 arrays are what
\* the caller, an Encoder and a call can hold at a time.
CONSTANTS
  ArrayCount = 20
  MaxLevels = 2
  Blank <- MCBlank
  Calls <- MCCalls
  CallerSizes <- MCCallerSizes
  MinCompress = 2
  Overhead = 1
  None = None
SPECIFICATION Spec
INVARIANTS
  TypeOK
  CallerPayloadsUntouched
PROPERTIES
  ImplementsContainerStream
