CONSTANTS
  MaxFrames = 2
  MaxAir = 2
  Assumptions <- MCAssumptions
SPECIFICATION FairSpec
INVARIANTS TypeOK ReadyIsConnected ServedInOrder
PROPERTIES RequestsAnswered EachServed
