--------------------------- MODULE MCPriceHandoff ---------------------------
(***************************************************************************)
(* A small instance of PriceHandoff for TLC: a synthetic price of two legs *)
(* with two quotes each, every pair of quotes a price of its own.          *)
(***************************************************************************)
EXTENDS PriceHandoff

BothLegs == {"primary", "cross"}
TwoQuotes == {1, 2}
MCRate == [q \in [BothLegs -> TwoQuotes] |-> 10 * q["primary"] + q["cross"]]
=============================================================================
