SPECIFICATION Spec
CONSTANTS
  Bufs = {b1, b2}
  Refs = {3, 4}
  PerPage = 2
  PageSize = 3
  Lengths = {3}
  InitialSize = 8
  Block = 4
  MaxOffset = 1000
  MaxRefs = 3
  MaxIndex = 4
INVARIANT EndIsNegative
