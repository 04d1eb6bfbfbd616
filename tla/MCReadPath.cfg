\* Files of up to three levels and 17 units; every limit from unset to above the longest file.
CONSTANTS
  HeaderLength = 2
  DX10Length = 1
  MagicLength = 2
  Calls <- MCCalls
  Default <- MCDefault
  MaxLimit = 19
  MaxInt32 = 18
  MaxInt = 19
  None = None
SPECIFICATION Spec
INVARIANTS
  TypeOK
  LimitsHold
  GoodInputsAreRead
  NothingElseIsRead
  LimitErrorsAreTrue
