SPECIFICATION Spec
CONSTANTS
  Fields = {"f", "g"}
  Tokens = {1, 2, 3}
  Unfit = 0
  Messages <- MCMessages
  MaxMsgs = 4
  MaxTables = 3
  Clump = 3
  Chunk = 2
  None = None
  Begun = Begun
INVARIANTS TypeOK IndexExact RefsLead OpensOnceClosed
PROPERTY ClosingEnds
CHECK_DEADLOCK FALSE
