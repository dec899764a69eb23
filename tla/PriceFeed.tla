------------------------------ MODULE PriceFeed ------------------------------
(***************************************************************************)
(* What the feed promises the engine through the shared state: the last    *)
(* mid price, the volatility and whether the price's timestamp is within   *)
(* staleness_timeout_ms.  Price 0 is a feed that never delivered, whose    *)
(* timestamp 0 does not count as stale.  Feed implements it.               *)
(***************************************************************************)
EXTENDS PriceScale

VARIABLES price, vol, fresh

feedVars == <<price, vol, fresh>>

FeedInit == price = 0 /\ vol = CalmVol /\ fresh = TRUE

\* handle_tick: any price, with the volatility of the window it leaves.
Tick(p, v) ==
  /\ price' = p
  /\ vol' = v
  /\ fresh' = TRUE

\* No tick for longer than staleness_timeout_ms.
GoesStale ==
  /\ price > 0 /\ fresh
  /\ fresh' = FALSE
  /\ UNCHANGED <<price, vol>>

FeedSpec ==
  FeedInit /\ [][(\E p \in Prices, v \in Vols : Tick(p, v)) \/ GoesStale]_feedVars
=============================================================================
