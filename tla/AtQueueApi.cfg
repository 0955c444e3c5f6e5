CONSTANTS
  ATCOMMAND_EXEC_CMD_QUEUE = 4
  a = a
  b = b
  c = c
  default = default
  NoCmd = NoCmd
  NoFunc = NoFunc
  DefaultFunc = default
  Delay = {1}
  Cmd <- MCCmd
  RspFunc <- MCRspFunc
  Offered <- MCOffered
  Lists <- MCLists
  Waived = {}
SPECIFICATION Spec
PROPERTIES ImplementsQueue
