SPECIFICATION OperatorSpec
CONSTANTS
  Prices <- MCPrices
  Unpriceable = {}
  Unbuildable = {}
  Inventories <- MCFunds
  Vols = {1}
  CalmVol = 1
  Quantized <- MCQuantized
  NoLevels = NoLevels
  MaxJump = 3
  UpdateBookSetsMid = TRUE
  FramesOrdered = TRUE
  MaxLead = 2
  FailureLimit = 1
  WindowCoversDelivery = FALSE
  MaxSends = 1
  MaxLive = 1
  MaxRepeats = 1
  Kinds = {"MM"}
  Leftover = TRUE
  Budget <- CommandsBudget
  Commands = {"kill", "revoke", "withdraw", "deposit"}
  Deposit <- OneBase
  SizeLots <- MCSizeLots
  QuoteUnit = 2
  OwnerKey = TRUE
  DelegateKey = TRUE
  MaxRetries = 1
  MaxCommands = 2
INVARIANTS RevokedKillSticks ExecutesOnce
PROPERTIES RefusedOnlyIfOvertaken QuotesFitCaughtUpBook
CHECK_DEADLOCK FALSE
