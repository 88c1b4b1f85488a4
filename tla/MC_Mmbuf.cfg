SPECIFICATION FileSpec
CONSTANTS
  InitialSize = 6
  Block = 4
  MaxOffset = 14
  Lengths <- MCLengths
INVARIANTS FileTypeOK Backed TmpPtrLive ReaderSeesWritten
PROPERTY CallReturns
