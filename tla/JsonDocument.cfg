CONSTANTS
  JWRITE_STACK_DEPTH = 3
  MAXTOKENBYTES = 30
  MAXJSONBYTES = 512
  MAXTOKENS = 32
  EnumSize = 1
  Hash <- MCHash
  Keys <- MCKeys
  Values <- MCValues
  Elements <- MCElements
  Lengths = {12, 200}
  MaxCalls = 4
SPECIFICATION DSpec
INVARIANTS DTypeOK NestingIsText ReadsWhatWasWritten SearchFindsFirst
PROPERTIES FirstErrorStays
CHECK_DEADLOCK FALSE
