\* The message that there is no solution, for every difficulty.
SPECIFICATION Spec
CONSTANTS
  BitsPerByte = 2
  BytesPerHash = 2
  MaxTable = 2
INVARIANT MissesNothing
CHECK_DEADLOCK FALSE
