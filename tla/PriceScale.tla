----------------------------- MODULE PriceScale -----------------------------
(***************************************************************************)
(* The prices and volatilities the feed hands to the engine.               *)
(***************************************************************************)
EXTENDS Integers

CONSTANTS
  Prices,   \* mid prices the feed can report, as ticks
  Vols,     \* volatilities, as far as the strategy tells them apart
  CalmVol   \* the volatility of a window too short to have one

ASSUME PriceScaleAssumption == Prices \subseteq Nat \ {0} /\ CalmVol \in Vols
=============================================================================
