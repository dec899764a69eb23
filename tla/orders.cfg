SPECIFICATION Spec
CONSTANTS
  Prices <- MCPrices
  Unpriceable = {}
  Unbuildable = {}
  Inventories <- OneInventory
  Vols = {1}
  CalmVol = 1
  Quantized <- OneQuantized
  NoLevels = NoLevels
  MaxJump = 3
  UpdateBookSetsMid = TRUE
  FramesOrdered = FALSE
  MaxLead = 2
  FailureLimit = 1
  WindowCoversDelivery = FALSE
  MaxSends = 4
  MaxLive = 3
  MaxRepeats = 2
  Kinds = {"MM", "LO"}
  Leftover = TRUE
  Budget <- OrdersBudget
INVARIANTS TypeOK RepriceWithinJump StaleIffOvertaken
PROPERTIES LandsInDecisionOrder KeepsOrder
CHECK_DEADLOCK FALSE
