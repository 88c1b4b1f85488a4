SPECIFICATION Spec
CONSTANTS
  Clump = 2
  SizeMod = 4
  OffsetMod = 12
  Prealloc = 6
  PageBlocks = 4
  Sizes = {0, 3, 4, 5}
  MaxMsgs = 5
INVARIANT LastBlockZero
CHECK_DEADLOCK FALSE
