CONSTANTS
  ATCOMMAND_EXEC_CMD_QUEUE = 2
  at = at
  cpin = cpin
  bt = bt
  cip = cip
  default = default
  connectCb = connectCb
  NoCmd = NoCmd
  NoFunc = NoFunc
  DefaultFunc = default
  Delay = {1}
  Cmd <- MCCmd
  RspFunc <- MCRspFunc
  RspOf <- AnyBuild
  Batches <- AllCalls
  Answers = {"OK", "ERROR"}
  MaxAir = 2
  Unsolicited = {"URC", "+BTSPPDATA", "RDY"}
  MaxUnsolicited = 1
  Prompt = FALSE
  Whole = {"D", "R"}
SPECIFICATION Spec
INVARIANTS TypeOK ExecInv RepeatsLeft SendsQueued
