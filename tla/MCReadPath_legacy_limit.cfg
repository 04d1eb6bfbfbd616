\* A seeker's legacy input against MaxInputBytes.
CONSTANTS
  HeaderLength = 2
  DX10Length = 1
  MagicLength = 2
  Calls <- MCCalls
  Default <- MCDefault
  MaxLimit = 19
  MaxInt32 = 18
  MaxInt = 19
  None = None
SPECIFICATION Spec
INVARIANT
  LegacyInputIsLimited
