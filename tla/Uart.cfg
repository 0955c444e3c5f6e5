CONSTANTS
  BUFFER_SIZE = 6
  POINTER_SIZE = 2
  Lengths <- MCLengths
  MaxMessages = 3
  MaxPause = 1
SPECIFICATION FairSpec
INVARIANTS TypeOK MessageIsWhole
PROPERTIES EachIsProcessed
\* The run ends with the last message.
CHECK_DEADLOCK FALSE
