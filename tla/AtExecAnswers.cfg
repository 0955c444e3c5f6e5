CONSTANTS
  ATCOMMAND_EXEC_CMD_QUEUE = 2
  at = at
  cpin = cpin
  bt = bt
  cip = cip
  default = default
  connectCb = connectCb
  NoCmd = NoCmd
  NoFunc = NoFunc
  DefaultFunc = default
  Delay = {1}
  Cmd <- MCCmd
  RspFunc <- MCRspFunc
  RspOf <- LineBuild
  Batches <- AllCalls
  Answers = {"OK", "ERROR"}
  MaxAir = 2
  Unsolicited = {}
  MaxUnsolicited = 0
  Prompt = TRUE
  Whole = {"D", "R"}
SPECIFICATION Spec
INVARIANTS SuccessIsGranted GrantInv
