SPECIFICATION Spec
CONSTANTS
  NumMsgs = 4
  NoStop = 9
  Streams <- MCStreams
  Slices <- MCSlices
  Passing <- MCPassing
  Merged <- MCMerged
INVARIANT AndOnce
CHECK_DEADLOCK FALSE
