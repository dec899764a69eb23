SPECIFICATION FairSpec
CONSTANTS
  Prices <- OddPrices
  Unpriceable = {3}
  Unbuildable = {3}
  Inventories <- OneInventory
  Vols = {1}
  CalmVol = 1
  Quantized <- OddQuantized
  NoLevels = NoLevels
  MaxJump = 40
  UpdateBookSetsMid = TRUE
  FramesOrdered = TRUE
  MaxLead = 20
  FailureLimit = 1
  WindowCoversDelivery = TRUE
  MaxSends = 10
  MaxLive = 2
  MaxRepeats = 2
  Kinds = {"MM", "LO"}
  Leftover = FALSE
  Budget <- StopBudget
PROPERTIES StalePulls BreakerReleases ShutdownCompletes ShutdownEmptiesBook ClearIsLastWord
CHECK_DEADLOCK FALSE
