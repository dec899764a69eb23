SPECIFICATION Spec
CONSTANTS
  Prices <- MCPrices
  Unpriceable = {}
  Unbuildable = {}
  Inventories <- OneInventory
  Vols = {1}
  CalmVol = 1
  Quantized <- OneQuantized
  NoLevels = NoLevels
  MaxJump = 3
  UpdateBookSetsMid = TRUE
  FramesOrdered = TRUE
  MaxLead = 2
  FailureLimit = 1
  WindowCoversDelivery = FALSE
  MaxSends = 6
  MaxLive = 2
  MaxRepeats = 4
  Kinds = {"MM"}
  Leftover = FALSE
  Budget <- JumpBudget
INVARIANT WithinJump
CHECK_DEADLOCK FALSE
