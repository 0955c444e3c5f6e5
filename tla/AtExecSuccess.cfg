CONSTANTS
  ATCOMMAND_EXEC_CMD_QUEUE = 2
  at = at
  cpin = cpin
  bt = bt
  cip = cip
  default = default
  connectCb = connectCb
  NoCmd = NoCmd
  NoFunc = NoFunc
  DefaultFunc = default
  Delay = {1}
  Cmd <- MCCmd
  RspFunc <- MCRspFunc
  RspOf <- LineBuild
  Batches <- OneCall
  Answers = {"ERROR"}
  MaxAir = 1
  Unsolicited = {}
  MaxUnsolicited = 0
  Prompt = TRUE
  Whole = {}
SPECIFICATION Spec
INVARIANTS SuccessIsGranted
