---------------------------- MODULE MCMarketMaker ----------------------------
(***************************************************************************)
(* Small instances of MarketMaker for TLC.                                 *)
(***************************************************************************)
EXTENDS MarketMakerProperties

\* Ample inventory quotes the same sizes at both prices; what is left of a
\* sold-out one rounds to nothing at the higher price.
MCInventories == {"ample", "bare"}
OneInventory == {"ample"}
MCPrices == {1, 2}
MCQuantized == [q \in MCInventories \X MCPrices |->
                  IF q[1] = "ample" THEN 2 ELSE IF q[2] = 1 THEN 1 ELSE 0]

OneQuantized == [q \in OneInventory \X MCPrices |-> 2]

\* The same with a price that has no tick.
OddPrices == {1, 2, 3}
OddQuantized == [q \in OneInventory \X OddPrices |-> 2]

\* The environment's budgets: what is not listed does not happen.
Allow(events) == [e \in Events |-> IF e \in DOMAIN events THEN events[e] ELSE 0]

\* A write that is lost is, to a safety property, one that has not landed yet.
OrdersBudget == Allow([tick |-> 2, stale |-> 1, stop |-> 2])
LiveBudget == Allow([tick |-> 2, loss |-> 1, drop |-> 1, balance |-> 1])
StopBudget == Allow([tick |-> 1, stale |-> 1, error |-> 1, cancel |-> 1])
PauseBudget == Allow([tick |-> 1, error |-> 1, cancel |-> 1])
DroppedBudget == Allow([tick |-> 2, loss |-> 1])
JumpBudget == Allow([tick |-> 1, stale |-> 1, loss |-> 3])
=============================================================================
