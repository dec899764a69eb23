SPECIFICATION FairSpec
CONSTANTS
  Window = 2
  Legs <- BothLegs
  Quotes <- TwoQuotes
  Rate <- MCRate
  MaxMoves = 4
  MaxBreaks = 1
  MaxAges = 1
INVARIANTS TypeOK WalksLastSamples PriceIsMarkets NoTickSleptThrough
PROPERTIES KeepsPromise FeedEnds
CHECK_DEADLOCK FALSE
