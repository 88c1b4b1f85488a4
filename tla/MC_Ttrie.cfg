SPECIFICATION TSpec
CONSTANTS
  ByteBits = 3
  Keys <- MCKeys
  MaxKeys = 5
  MaxDepth = 2
  None = None
INVARIANTS TTypeOK InOrder Convertible RowsOnce NewTableWhenFull ConvertedExact
PROPERTIES TCallsReturn TMapSpec
CHECK_DEADLOCK FALSE
