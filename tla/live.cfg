SPECIFICATION FairSpec
CONSTANTS
  Prices <- MCPrices
  Unpriceable = {}
  Unbuildable = {}
  Inventories <- MCInventories
  Vols = {1}
  CalmVol = 1
  Quantized <- MCQuantized
  NoLevels = NoLevels
  MaxJump = 40
  UpdateBookSetsMid = FALSE
  FramesOrdered = TRUE
  MaxLead = 20
  FailureLimit = 1
  WindowCoversDelivery = TRUE
  MaxSends = 12
  MaxLive = 3
  MaxRepeats = 2
  Kinds = {"MM"}
  Leftover = TRUE
  Budget <- LiveBudget
INVARIANT CaughtUpViewIsExact
PROPERTIES Reprices RepricesOnlyIfNeeded
CHECK_DEADLOCK FALSE
