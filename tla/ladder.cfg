SPECIFICATION Spec
CONSTANTS
  NumLevels = 2
  Pct = 50
  Quantum = 2
  Kinds = {"MM", "LO"}
  Prices = {3, 4, 7}
  Spreads = {20, 21}
  FirstFunds <- MCFirstFunds
  Parcels <- MCParcels
  NoHash = NoHash
  MaxChanges = 4
INVARIANTS TypeOK SettledIsFunded
