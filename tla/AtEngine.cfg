CONSTANTS
  ATCOMMAND_EXEC_CMD_QUEUE = 4
  ate0 = ate0
  at = at
  cpin = cpin
  creg = creg
  cip = cip
  btpower = btpower
  default = default
  cregCb = cregCb
  connectCb = connectCb
  NoCmd = NoCmd
  NoFunc = NoFunc
  DefaultFunc = default
  Delay = {1}
  Cmd <- MCCmd
  RspFunc <- MCRspFunc
  RspOf <- MCRspOf
  Offered <- MCOffered
  Batches <- AllCalls
SPECIFICATION FairSpec
INVARIANTS TypeOK ExecutingIsQueued WaitIsTimed WindowInArray IInv GoalInv
PROPERTIES ImplementsFifo ResultIsLast CallReturnsOrIdles
\* With the modem told to wait for a second message every thread spins.
CHECK_DEADLOCK FALSE
