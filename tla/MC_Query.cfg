SPECIFICATION Spec
CONSTANTS
  NumMsgs = 4
  NoStop = 9
  Streams <- MCStreams
  Slices <- MCSlices
  Passing <- MCPassing
  Merged <- MCMerged
INVARIANTS TypeOK InOrder MergeExact AndMembers
PROPERTY CallsReturn
CHECK_DEADLOCK FALSE
