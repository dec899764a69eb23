SPECIFICATION OperatorSpec
CONSTANTS
  Prices <- MCPrices
  Unpriceable = {}
  Unbuildable = {}
  Inventories <- OneFund
  Vols = {1}
  CalmVol = 1
  Quantized <- OneQuantized
  NoLevels = NoLevels
  MaxJump = 3
  UpdateBookSetsMid = TRUE
  FramesOrdered = TRUE
  MaxLead = 2
  FailureLimit = 1
  WindowCoversDelivery = FALSE
  MaxSends = 2
  MaxLive = 2
  MaxRepeats = 1
  Kinds = {"MM"}
  Leftover = TRUE
  Budget <- KillBudget
  Commands = {"kill"}
  Deposit <- OneBase
  SizeLots <- MCSizeLots
  QuoteUnit = 2
  OwnerKey = TRUE
  DelegateKey = FALSE
  MaxRetries = 1
  MaxCommands = 1
INVARIANT KillClears
CHECK_DEADLOCK FALSE
