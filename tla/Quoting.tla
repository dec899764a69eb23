------------------------------- MODULE Quoting -------------------------------
(***************************************************************************)
(* What one cycle of the engine wants to do: Strategy::compute             *)
(* (src/strategy.rs) and the instruction builder it feeds                  *)
(* (src/archer/quote.rs).  Prices are tick counts; a book's quantized      *)
(* sizes are a class number, 0 when every level rounds to nothing on both  *)
(* sides; the structure hash of a book is the book's structure itself,     *)
(* i.e. the hash is taken to be collision free.                            *)
(***************************************************************************)
EXTENDS PriceScale

CONSTANTS
  Unpriceable,   \* the prices price_to_ticks refuses
  Unbuildable,   \* the prices build_book_update refuses
  Inventories,   \* base and quote totals of the book account
  Quantized,     \* [inventory, price] -> class of the quantized sizes
  NoLevels       \* an empty book, and the structure hash 0

ASSUME QuotingAssumption ==
  /\ Unpriceable \subseteq Unbuildable /\ Unbuildable \subseteq Prices
  /\ Quantized \in [Inventories \X Prices -> Nat]

\* The classes of sizes there are.
Sizes == {Quantized[q] : q \in Inventories \X Prices}

Levels == [sizes : Sizes, vol : Vols, anchor : Prices \cup {0}]

ASSUME NoLevelsAssumption == NoLevels \notin Levels

(***************************************************************************)
(* r is what the cycle read: [price, ref, hash, inv, vol, lo], with ref    *)
(* the mid the book is believed to have (0: unknown), hash the structure   *)
(* last fired and lo TRUE for a limit-order book.                          *)
(***************************************************************************)
Readings == [price : Prices, ref : Nat, hash : Levels \cup {NoLevels},
             inv : Inventories, vol : Vols, lo : BOOLEAN]

Empty(r) == Quantized[<<r.inv, r.price>>] = 0

\* The absolute price is part of a limit-order book's structure.
Anchor(r) == IF r.lo /\ r.price \notin Unpriceable THEN r.price ELSE 0

Target(r) == [sizes |-> Quantized[<<r.inv, r.price>>], vol |-> r.vol, anchor |-> Anchor(r)]

\* NoLevels is the hash 0, which no target has: 0 always means "re-quote".
Settled(r) == r.hash = Target(r)

WantsNothing(r) == ~Empty(r) /\ Settled(r) /\ r.lo

WantsMid(r) == ~Empty(r) /\ Settled(r) /\ ~r.lo /\ r.price \notin Unpriceable

WantsFull(r) == ~Empty(r) /\ ~Settled(r) /\ r.price \notin Unbuildable

WantsClear(r) ==
  \/ Empty(r)
  \/ Settled(r) /\ ~r.lo /\ r.price \in Unpriceable
  \/ ~Settled(r) /\ r.price \in Unbuildable

\* BookUpdate.new_mid_price_ticks: a limit-order book pins its mid to 0.
NewMid(r) == IF r.lo THEN 0 ELSE r.price

\* BookUpdate.mid_price_changed: with no reference the price is its own.
MidMoved(r) == ~r.lo /\ r.ref > 0 /\ r.price # r.ref

\* The last sequence number of a full write whose first one is seq.
LastSequence(r, seq) == IF MidMoved(r) THEN seq + 1 ELSE seq
=============================================================================
