------------------------------- MODULE Ladder -------------------------------
(***************************************************************************)
(* The sizes Strategy::compute (src/strategy.rs) gives the levels of a     *)
(* book, and what becomes of them between two full updates: the price      *)
(* moves under a ladder whose sizes were cut for another one, takers eat   *)
(* into it, funds arrive.  Every write lands at once and the account       *)
(* stream is up to date; the other modules are about those.  A price is in *)
(* quote lots per base lot, and arithmetic is exact.                       *)
(***************************************************************************)
EXTENDS Integers

CONSTANTS
  NumLevels,     \* the number of spread_levels_bps
  Pct,           \* inventory_pct
  Quantum,       \* base lots in the hundredth of a unit quantize rounds to
  Kinds,         \* kinds of books: "MM", "LO"
  Prices,
  Spreads,       \* the tightest spreads there are, rounded as in the hash
  FirstFunds,    \* what the book may hold at the start
  Parcels,       \* what a deposit may bring
  NoHash,        \* last_structure_hash = 0
  MaxChanges     \* bound: price moves, spread moves, fills and deposits

Funds == [base : Nat, quote : Nat]

ASSUME LadderAssumption ==
  /\ NumLevels \in Nat \ {0}
  /\ Pct \in 1 .. 100
  /\ Quantum \in Nat \ {0}
  /\ Kinds \subseteq {"MM", "LO"}
  /\ Prices \subseteq Nat \ {0}
  /\ FirstFunds \subseteq Funds /\ Parcels \subseteq Funds
  /\ MaxChanges \in Nat

Hashes == [bid : Nat, ask : Nat, spread : Spreads, anchor : Prices \cup {0}]

ASSUME NoHashAssumption == NoHash \notin Hashes

VARIABLES
  price,     \* the feed's price
  spread,    \* the tightest spread the volatility asks for
  funds,     \* the totals of the book account
  book,      \* its kind, the price the levels lie around, what each level still has
  hash,      \* last_structure_hash
  changes

marketVars == <<price, spread, funds, changes>>
vars == <<marketVars, book, hash>>

Ladders == 1 .. NumLevels
None == [i \in Ladders |-> 0]

-----------------------------------------------------------------------------
\* A level's share of the base, and of the quote at the price, in base lots
\* times Parts.
Parts == 100 * NumLevels
AskShare == funds.base * Pct
BidShare == funds.quote * Pct

Rounded(a, b) == (2 * a + b) \div (2 * b)

\* quantize, in hundredths of a base unit.
AskSize == Rounded(AskShare, Parts * Quantum)
BidSize == Rounded(BidShare, Parts * Quantum * price)

\* Whole lots, of a side with anything to quote: TwoSidedQuote leaves out the other.
AskLots == IF AskSize = 0 THEN 0 ELSE AskShare \div Parts
BidLots == IF BidSize = 0 THEN 0 ELSE BidShare \div (Parts * price)

Empty == AskSize = 0 /\ BidSize = 0

Anchor == IF book.kind = "LO" THEN price ELSE 0

\* Faulty variants: the hash leaves out the bids; and every book is anchored.
TargetOfAsks == [bid |-> 0, ask |-> AskSize, spread |-> spread, anchor |-> Anchor]
TargetAnchored == [bid |-> BidSize, ask |-> AskSize, spread |-> spread, anchor |-> price]

\* structure_hash, taken to be injective.
Target == [bid |-> BidSize, ask |-> AskSize, spread |-> spread, anchor |-> Anchor]

Init ==
  /\ price \in Prices /\ spread \in Spreads /\ funds \in FirstFunds
  /\ \E kind \in Kinds : book = [kind |-> kind, mid |-> price, bids |-> None, asks |-> None]
  /\ hash = NoHash
  /\ changes = 0

-----------------------------------------------------------------------------
(***************************************************************************)
(* The engine's cycle, one action per decision.                            *)
(***************************************************************************)
Clears ==
  /\ Empty
  /\ book' = [book EXCEPT !.bids = None, !.asks = None]
  /\ hash' = NoHash
  /\ UNCHANGED marketVars

\* Noop on a limit-order book; UpdateMidOnly moves the levels with the mid.
Keeps ==
  /\ ~Empty /\ hash = Target
  /\ book' = IF book.kind = "LO" THEN book ELSE [book EXCEPT !.mid = price]
  /\ UNCHANGED <<marketVars, hash>>

Requotes ==
  /\ ~Empty /\ hash # Target
  /\ book' = [kind |-> book.kind, mid |-> price,
              bids |-> [i \in Ladders |-> BidLots], asks |-> [i \in Ladders |-> AskLots]]
  /\ hash' = Target
  /\ UNCHANGED marketVars

Cycles == Clears \/ Keeps \/ Requotes

-----------------------------------------------------------------------------
(***************************************************************************)
(* What happens to the book in between.                                    *)
(***************************************************************************)
Change == changes < MaxChanges /\ changes' = changes + 1

PriceMoves == Change /\ price' \in Prices \ {price} /\ UNCHANGED <<spread, funds, book, hash>>

SpreadMoves == Change /\ spread' \in Spreads \ {spread} /\ UNCHANGED <<price, funds, book, hash>>

\* A taker eats from the best level that has anything left.
Best(side) == {i \in Ladders : side[i] > 0 /\ \A j \in Ladders : j < i => side[j] = 0}

TakesAsk ==
  /\ Change
  /\ \E i \in Best(book.asks) : \E lots \in 1 .. book.asks[i] :
       /\ lots <= funds.base
       /\ book' = [book EXCEPT !.asks[i] = @ - lots]
       /\ funds' = [base |-> funds.base - lots, quote |-> funds.quote + lots * book.mid]
  /\ UNCHANGED <<price, spread, hash>>

TakesBid ==
  /\ Change
  /\ \E i \in Best(book.bids) : \E lots \in 1 .. book.bids[i] :
       /\ lots * book.mid <= funds.quote
       /\ book' = [book EXCEPT !.bids[i] = @ - lots]
       /\ funds' = [base |-> funds.base + lots, quote |-> funds.quote - lots * book.mid]
  /\ UNCHANGED <<price, spread, hash>>

Deposits ==
  /\ Change
  /\ \E p \in Parcels : funds' = [base |-> funds.base + p.base, quote |-> funds.quote + p.quote]
  /\ UNCHANGED <<price, spread, book, hash>>

\* Withdraw clears the book and takes everything; the engine is not told.
Withdraws ==
  /\ Change
  /\ book' = [book EXCEPT !.bids = None, !.asks = None]
  /\ funds' = [base |-> 0, quote |-> 0]
  /\ UNCHANGED <<price, spread, hash>>

Next == Cycles \/ PriceMoves \/ SpreadMoves \/ TakesAsk \/ TakesBid \/ Deposits \/ Withdraws

Spec == Init /\ [][Next]_vars
-----------------------------------------------------------------------------
TypeOK ==
  /\ price \in Prices /\ spread \in Spreads /\ funds \in Funds
  /\ book \in [kind : Kinds, mid : Prices, bids : [Ladders -> Nat], asks : [Ladders -> Nat]]
  /\ hash \in Hashes \cup {NoHash} /\ (hash # NoHash => (hash.anchor # 0) = (book.kind = "LO"))
  /\ changes \in 0 .. MaxChanges

\* The share that inventory_pct leaves unquoted covers what quantize hides:
\* with 80 per cent, from five hundredths of a unit per level on.
Roomy(size) == Pct * (2 * size + 1) <= 100 * (2 * size - 1)

(***************************************************************************)
(* UpdateMidPrice never fails on balance, and a book repriced beyond its   *)
(* quote is skipped in every swap (README.md, Program v2).  The ladder the *)
(* engine is content with is no such book, wherever the price went since   *)
(* it was cut, whatever was taken from it and paid in: every bid is backed *)
(* by its level's part of the quote.                                       *)
(***************************************************************************)
SettledIsFunded ==
  hash = Target /\ book.mid = price /\ Roomy(BidSize) =>
    \A i \in Ladders : NumLevels * book.bids[i] * book.mid <= funds.quote
=============================================================================
