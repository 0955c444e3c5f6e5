CONSTANTS
  ATCOMMAND_EXEC_CMD_QUEUE = 4
  NoCmd = NoCmd
  NoFunc = NoFunc
  DefaultFunc = "default"
  Delay = {3000, 10000, 60000}
  Cmd <- MCCmd
  RspFunc <- MCRspFunc
  RspOf <- MCRspOf
  Offered <- MCOffered
  Batches <- MCBatches
  MQTT_BUFF_SIZE = 32
  TextSize = 2
  MaxRepeats = 1
  MaxAir = 1
  MaxLines = 2
  MaxWrites = 2
  MaxDrops = 1
  Addresses = {"a"}
  Payloads = {"d"}
  Texts <- MCTexts
  FlagSets <- MCFlagSets
  Settings <- MCSettings
  Levels = {0}
  Configs <- MCConfigs
SPECIFICATION SSpec
INVARIANTS STypeOK ReadyIsTold SentReadsAsAsked
VIEW MCView
