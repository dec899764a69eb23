------------------------------ MODULE MCLadder ------------------------------
(***************************************************************************)
(* Small instances of Ladder for TLC.                                      *)
(***************************************************************************)
EXTENDS Ladder

Holding(b, q) == [base |-> b, quote |-> q]

\* Bids of none to four hundredths per level at the prices below.
MCFirstFunds == {Holding(b, q) : b \in {0, 9}, q \in {0, 41, 84}}
MCParcels == {Holding(1, 0), Holding(0, 15)}
=============================================================================
