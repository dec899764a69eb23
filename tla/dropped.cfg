SPECIFICATION FairSpec
CONSTANTS
  Prices <- MCPrices
  Unpriceable = {}
  Unbuildable = {}
  Inventories <- OneInventory
  Vols = {1}
  CalmVol = 1
  Quantized <- OneQuantized
  NoLevels = NoLevels
  MaxJump = 40
  UpdateBookSetsMid = TRUE
  FramesOrdered = TRUE
  MaxLead = 20
  FailureLimit = 1
  WindowCoversDelivery = TRUE
  MaxSends = 8
  MaxLive = 2
  MaxRepeats = 2
  Kinds = {"MM"}
  Leftover = FALSE
  Budget <- DroppedBudget
PROPERTY StructureConverges
CHECK_DEADLOCK FALSE
