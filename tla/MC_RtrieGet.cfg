SPECIFICATION Spec
CONSTANTS
  ByteBits = 3
  Keys <- MCSignKeys
  MaxKeys = 5
  None = None
INVARIANT ResultIfThere
CHECK_DEADLOCK FALSE
