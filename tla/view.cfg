SPECIFICATION FairSpec
CONSTANTS
  Mids = {1}
  MaxLots = 1
  MaxChanges = 2
  MaxBreaks = 1
INVARIANTS TypeOK CaughtUpCellsAreExact
PROPERTIES KeepsPromise StaysSubscribed ViewHeals
CHECK_DEADLOCK FALSE
