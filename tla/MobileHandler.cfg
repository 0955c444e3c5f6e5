CONSTANTS
  JWRITE_STACK_DEPTH = 32
  MAXTOKENBYTES = 30
  MAXJSONBYTES = 512
  MAXTOKENS = 32
  EnumSize = 1
  BUFF_SIZE = 300
  Hash <- MCHash
  Frames <- MCFrames
  Junk <- MCJunk
  Results = {0, 1}
  Statuses = {0, 1}
  Shackles = {0, 1}
  JunkBytes = {0, 255}
SPECIFICATION Spec
INVARIANTS TypeOK OpensOnlyForKnown AnswerTellsOutcome
PROPERTIES RequestAnswered
CHECK_DEADLOCK FALSE
