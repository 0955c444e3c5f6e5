CONSTANTS
  ATCOMMAND_EXEC_CMD_QUEUE = 2
  at = at
  cpin = cpin
  bt = bt
  cip = cip
  default = default
  connectCb = connectCb
  NoCmd = NoCmd
  NoFunc = NoFunc
  DefaultFunc = default
  Delay = {1}
  Cmd <- MCCmd
  RspFunc <- MCRspFunc
  RspOf <- AnyBuild
  Batches <- Calls
  Answers = {"OK"}
  MaxAir = 1
  Unsolicited = {}
  MaxUnsolicited = 0
  Prompt = TRUE
  Whole = {"R"}
SPECIFICATION FairSpec
INVARIANTS SuccessIsGranted
PROPERTIES CallReturns
