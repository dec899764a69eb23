------------------------- MODULE MCOperatorCommands -------------------------
(***************************************************************************)
(* Small instances of OperatorCommands for TLC.                            *)
(***************************************************************************)
EXTENDS OperatorCommands

Lots(b, q) == [base |-> b, quote |-> q]

\* A deposit of one lot of base.
OneBase == Lots(1, 0)
MCFunds == {Nothing, Lots(0, 1), Lots(1, 1)}
OneFund == {OneBase}

\* A class of sizes for asks, for bids and for both, one lot a side; a bid
\* at price 1 is too small to lock a quote lot.
MCPrices == {1, 2}
Class(inv) == inv.base + 2 * inv.quote
Sized(inventories) == [q \in inventories \X MCPrices |-> Class(q[1])]
MCQuantized == Sized(MCFunds)
OneQuantized == Sized(OneFund)
MCSizeLots == [class \in Sizes |-> [asks |-> class % 2, bids |-> class \div 2]]

\* What is not listed does not happen.
Allow(events) == [e \in Events |-> IF e \in DOMAIN events THEN events[e] ELSE 0]
CommandsBudget == Allow([tick |-> 1, loss |-> 1])
KillBudget == Allow([tick |-> 1])
=============================================================================
