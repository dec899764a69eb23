---------------------------- MODULE LadderProofs ----------------------------
(***************************************************************************)
(* Proofs about Ladder, for any number of levels, inventory_pct, quantum   *)
(* and prices.                                                             *)
(***************************************************************************)
EXTENDS Ladder, TLAPS

LEMMA Division ==
  ASSUME NEW a \in Nat, NEW d \in Nat \ {0}
  PROVE  a \div d \in Nat /\ d * (a \div d) <= a /\ a < d * ((a \div d) + 1)
OBVIOUS

LEMMA Times ==
  ASSUME NEW a \in Int, NEW b \in Int, NEW c \in Nat, a <= b
  PROVE  c * a <= c * b
OBVIOUS

LEMMA CancelLe ==
  ASSUME NEW a \in Int, NEW b \in Int, NEW c \in Nat \ {0}, c * a <= c * b
  PROVE  a <= b
OBVIOUS

LEMMA CancelLt ==
  ASSUME NEW a \in Int, NEW b \in Int, NEW c \in Nat \ {0}, c * a < c * b
  PROVE  a < b
OBVIOUS

LEMMA Product == ASSUME NEW a \in Nat \ {0}, NEW b \in Nat \ {0} PROVE a * b \in Nat \ {0}
OBVIOUS

\* quantize is off by at most half a quantum.
LEMMA Quantized ==
  ASSUME NEW a \in Nat, NEW b \in Nat \ {0}
  PROVE  /\ Rounded(a, b) \in Nat
         /\ b * (2 * Rounded(a, b) - 1) <= 2 * a
         /\ 2 * a < b * (2 * Rounded(a, b) + 1)
<1>1. 2 * a + b \in Nat /\ 2 * b \in Nat \ {0}
  OBVIOUS
<1> DEFINE k == Rounded(a, b)
<1>2. k \in Nat /\ (2 * b) * k <= 2 * a + b /\ 2 * a + b < (2 * b) * (k + 1)
  BY <1>1, Division DEF Rounded
<1> QED
  BY <1>2

\* The divisors of a level's share.
LEMMA Divisors ==
  ASSUME NEW p \in Nat \ {0}
  PROVE  /\ Parts \in Nat \ {0} /\ Parts * p \in Nat \ {0}
         /\ Parts * Quantum \in Nat \ {0} /\ Parts * Quantum * p \in Nat \ {0}
         /\ Parts * Quantum * p = Quantum * (Parts * p)
<1>1. Parts \in Nat \ {0} /\ Quantum \in Nat \ {0}
  BY LadderAssumption DEF Parts
<1> HIDE DEF Parts
<1>2. Parts * p \in Nat \ {0} /\ Parts * Quantum \in Nat \ {0}
  BY <1>1, Product
<1>3. Parts * Quantum * p \in Nat \ {0}
  BY <1>2, Product
<1> QED
  BY <1>1, <1>2, <1>3

\* The sizes of a state with types.
LEMMA Sizes ==
  ASSUME TypeOK
  PROVE  /\ price \in Nat \ {0} /\ BidShare \in Nat /\ AskShare \in Nat
         /\ BidSize \in Nat /\ AskSize \in Nat /\ BidLots \in Nat /\ AskLots \in Nat
         /\ Target \in Hashes
<1>1. price \in Prices /\ price \in Nat \ {0} /\ funds.base \in Nat /\ funds.quote \in Nat
  BY LadderAssumption DEF TypeOK, Funds
<1>2. BidShare \in Nat /\ AskShare \in Nat
  BY <1>1, LadderAssumption DEF BidShare, AskShare
<1>3. BidSize \in Nat /\ AskSize \in Nat
  BY <1>1, <1>2, Divisors, Quantized DEF BidSize, AskSize
<1>4. BidLots \in Nat /\ AskLots \in Nat
  BY <1>1, <1>2, Divisors, Division DEF BidLots, AskLots
<1>5. Target \in Hashes
  BY <1>1, <1>3 DEF Target, Hashes, Anchor, TypeOK
<1> QED
  BY <1>1, <1>2, <1>3, <1>4, <1>5

-----------------------------------------------------------------------------
(***************************************************************************)
(* A level never has more than its share had when it was cut, and that was *)
(* within half a quantum of what the hash says.                            *)
(***************************************************************************)
Cut == hash # NoHash => \A i \in Ladders : 2 * book.bids[i] < Quantum * (2 * hash.bid + 1)

LadderInv == TypeOK /\ Cut

LEMMA LadderStart == Init => LadderInv
<1> SUFFICES ASSUME Init PROVE LadderInv
  OBVIOUS
<1>1. TypeOK
  BY LadderAssumption DEF Init, TypeOK, Funds, None
<1>2. Cut
  BY DEF Init, Cut
<1> QED
  BY <1>1, <1>2 DEF LadderInv

\* A ladder cut for this cycle.
LEMMA LadderCut ==
  ASSUME LadderInv, Requotes
  PROVE  LadderInv'
<1>1. TypeOK /\ UNCHANGED marketVars /\ hash' = Target
  BY DEF LadderInv, Requotes
<1>2. /\ price \in Nat \ {0} /\ BidShare \in Nat /\ BidSize \in Nat /\ BidLots \in Nat
      /\ AskLots \in Nat /\ Target \in Hashes
  BY <1>1, Sizes
<1>3. /\ book' = [kind |-> book.kind, mid |-> price,
                  bids |-> [i \in Ladders |-> BidLots], asks |-> [i \in Ladders |-> AskLots]]
      /\ price \in Prices
  BY <1>1 DEF Requotes, TypeOK
<1>4. (Target.anchor # 0) = (book.kind = "LO")
  BY <1>1, <1>2 DEF Target, Anchor, TypeOK
<1>5. TypeOK'
  BY <1>1, <1>2, <1>3, <1>4 DEF TypeOK, marketVars
<1>6. 2 * BidLots < Quantum * (2 * BidSize + 1)
  <2>1. Quantum \in Nat \ {0}
    BY LadderAssumption
  <2>2. CASE BidSize = 0
    BY <2>1, <2>2 DEF BidLots
  <2>3. CASE BidSize # 0
    <3> DEFINE d == Parts * price
               l == BidShare \div d
    <3>1. d \in Nat \ {0} /\ Parts * Quantum * price = Quantum * d /\ Quantum * d \in Nat \ {0}
      BY <1>2, Divisors
    <3>2. BidLots = l /\ l \in Nat /\ d * l <= BidShare
      BY <1>2, <2>3, <3>1, Division DEF BidLots
    <3>3. 2 * BidShare < (Quantum * d) * (2 * BidSize + 1)
      BY <1>2, <3>1, Quantized DEF BidSize
    <3> HIDE DEF d, l
    <3>4. d * (2 * l) < d * (Quantum * (2 * BidSize + 1))
      <4>1. d * (2 * l) <= 2 * BidShare
        BY <1>2, <3>1, <3>2
      <4>2. (Quantum * d) * (2 * BidSize + 1) = d * (Quantum * (2 * BidSize + 1))
        BY <1>2, <2>1, <3>1
      <4> QED
        BY <1>2, <2>1, <3>1, <3>2, <3>3, <4>1, <4>2
    <3>5. 2 * l \in Int /\ Quantum * (2 * BidSize + 1) \in Int
      BY <1>2, <2>1, <3>2
    <3> QED
      BY <3>1, <3>2, <3>4, <3>5, CancelLt
  <2> QED
    BY <2>2, <2>3
<1>7. Cut'
  <2>1. hash'.bid = BidSize /\ \A i \in Ladders : book'.bids[i] = BidLots
    BY <1>1, <1>3 DEF Target
  <2> QED
    BY <1>6, <2>1 DEF Cut, Ladders
<1> QED
  BY <1>5, <1>7 DEF LadderInv

\* A bid does not grow between cuts.
LEMMA LadderEaten ==
  ASSUME LadderInv, TakesAsk \/ TakesBid
  PROVE  LadderInv'
<1>1. /\ TypeOK /\ changes' \in 0 .. MaxChanges /\ UNCHANGED <<price, spread, hash>>
      /\ funds.base \in Nat /\ funds.quote \in Nat
  BY LadderAssumption DEF LadderInv, TakesAsk, TakesBid, Change, TypeOK, Funds
<1>2. /\ book.mid \in Nat /\ book.bids \in [Ladders -> Nat] /\ book.asks \in [Ladders -> Nat]
      /\ book = [kind |-> book.kind, mid |-> book.mid, bids |-> book.bids, asks |-> book.asks]
  BY <1>1, LadderAssumption DEF TypeOK
<1>3. CASE TakesAsk
  <2>1. PICK i \in Ladders : \E lots \in 1 .. book.asks[i] :
          /\ lots <= funds.base
          /\ book' = [book EXCEPT !.asks[i] = @ - lots]
          /\ funds' = [base |-> funds.base - lots, quote |-> funds.quote + lots * book.mid]
    BY <1>3 DEF TakesAsk, Best
  <2>2. PICK lots \in 1 .. book.asks[i] :
          /\ lots <= funds.base
          /\ book' = [book EXCEPT !.asks[i] = @ - lots]
          /\ funds' = [base |-> funds.base - lots, quote |-> funds.quote + lots * book.mid]
    BY <2>1
  <2>3. lots \in Nat /\ lots * book.mid \in Nat /\ book.asks[i] - lots \in Nat
    BY <1>2, <2>2
  <2>4. /\ book'.bids = book.bids /\ book'.kind = book.kind
        /\ book' \in [kind : Kinds, mid : Prices, bids : [Ladders -> Nat], asks : [Ladders -> Nat]]
    BY <1>1, <1>2, <2>2, <2>3 DEF TypeOK
  <2>5. funds' \in Funds
    BY <1>1, <2>2, <2>3 DEF Funds
  <2>6. TypeOK'
    BY <1>1, <2>4, <2>5 DEF TypeOK
  <2> QED
    BY <1>1, <2>4, <2>6 DEF LadderInv, Cut, Ladders
<1>4. CASE TakesBid
  <2>1. PICK i \in Ladders : \E lots \in 1 .. book.bids[i] :
          /\ lots * book.mid <= funds.quote
          /\ book' = [book EXCEPT !.bids[i] = @ - lots]
          /\ funds' = [base |-> funds.base + lots, quote |-> funds.quote - lots * book.mid]
    BY <1>4 DEF TakesBid, Best
  <2>2. PICK lots \in 1 .. book.bids[i] :
          /\ lots * book.mid <= funds.quote
          /\ book' = [book EXCEPT !.bids[i] = @ - lots]
          /\ funds' = [base |-> funds.base + lots, quote |-> funds.quote - lots * book.mid]
    BY <2>1
  <2>3. lots \in Nat /\ lots * book.mid \in Nat /\ book.bids[i] - lots \in Nat
    BY <1>2, <2>2
  <2>4. /\ \A j \in Ladders : book'.bids[j] <= book.bids[j] /\ book'.bids[j] \in Nat
        /\ book'.kind = book.kind
        /\ book' \in [kind : Kinds, mid : Prices, bids : [Ladders -> Nat], asks : [Ladders -> Nat]]
    BY <1>1, <1>2, <2>2, <2>3 DEF TypeOK
  <2>5. funds' \in Funds
    BY <1>1, <2>2, <2>3 DEF Funds
  <2>6. TypeOK'
    BY <1>1, <2>4, <2>5 DEF TypeOK
  <2>7. Cut'
    <3> SUFFICES ASSUME hash # NoHash, NEW j \in Ladders
                 PROVE  2 * book'.bids[j] < Quantum * (2 * hash.bid + 1)
      BY <1>1 DEF Cut, Ladders
    <3>1. hash.bid \in Nat /\ Quantum * (2 * hash.bid + 1) \in Int
      BY <1>1, LadderAssumption DEF TypeOK, Hashes
    <3>2. 2 * book.bids[j] < Quantum * (2 * hash.bid + 1)
      BY DEF LadderInv, Cut
    <3> QED
      BY <1>2, <2>4, <3>1, <3>2
  <2> QED
    BY <2>6, <2>7 DEF LadderInv
<1> QED
  BY <1>3, <1>4

LEMMA LadderStep == LadderInv /\ [Next]_vars => LadderInv'
<1> SUFFICES ASSUME LadderInv, [Next]_vars PROVE LadderInv'
  OBVIOUS
<1>1. TypeOK /\ Cut
  BY DEF LadderInv
<1>2. CASE Requotes
  BY <1>2, LadderCut
<1>3. CASE TakesAsk \/ TakesBid
  BY <1>3, LadderEaten
<1>4. CASE Clears \/ Withdraws
  <2>1. /\ book' = [book EXCEPT !.bids = None, !.asks = None]
        /\ hash' \in {hash, NoHash} /\ funds' \in Funds /\ changes' \in 0 .. MaxChanges
        /\ UNCHANGED <<price, spread>>
    BY <1>1, <1>4, LadderAssumption DEF Clears, Withdraws, Change, marketVars, TypeOK, Funds
  <2>2. /\ \A i \in Ladders : book'.bids[i] = 0
        /\ book'.kind = book.kind
        /\ book' \in [kind : Kinds, mid : Prices, bids : [Ladders -> Nat], asks : [Ladders -> Nat]]
    BY <1>1, <2>1 DEF TypeOK, None
  <2>3. TypeOK'
    BY <1>1, <2>1, <2>2 DEF TypeOK
  <2>4. Cut'
    <3> SUFFICES ASSUME hash' # NoHash, NEW i \in Ladders
                 PROVE  2 * book'.bids[i] < Quantum * (2 * hash'.bid + 1)
      BY DEF Cut, Ladders
    <3>1. hash' = hash /\ hash.bid \in Nat
      BY <1>1, <2>1 DEF TypeOK, Hashes
    <3>2. 2 * hash.bid + 1 \in Nat \ {0} /\ Quantum \in Nat \ {0}
      BY <3>1, LadderAssumption
    <3> QED
      BY <2>2, <3>1, <3>2, Product
  <2> QED
    BY <2>3, <2>4 DEF LadderInv
<1>5. CASE Keeps
  <2>1. /\ book' \in {book, [book EXCEPT !.mid = price]} /\ UNCHANGED <<marketVars, hash>>
    BY <1>5 DEF Keeps
  <2>2. /\ book'.bids = book.bids /\ book'.kind = book.kind
        /\ book' \in [kind : Kinds, mid : Prices, bids : [Ladders -> Nat], asks : [Ladders -> Nat]]
    BY <1>1, <2>1 DEF TypeOK
  <2> QED
    BY <1>1, <2>1, <2>2 DEF LadderInv, TypeOK, Cut, Ladders, marketVars
<1>6. CASE PriceMoves \/ SpreadMoves \/ Deposits
  <2>1. /\ price' \in Prices /\ spread' \in Spreads /\ changes' \in 0 .. MaxChanges
        /\ UNCHANGED <<book, hash>>
    BY <1>1, <1>6, LadderAssumption DEF PriceMoves, SpreadMoves, Deposits, Change, TypeOK
  <2>2. funds' \in Funds
    BY <1>1, <1>6, LadderAssumption DEF PriceMoves, SpreadMoves, Deposits, TypeOK, Funds
  <2> QED
    BY <1>1, <2>1, <2>2 DEF LadderInv, TypeOK, Cut, Ladders
<1>7. CASE UNCHANGED vars
  BY <1>1, <1>7 DEF LadderInv, TypeOK, Cut, Ladders, vars, marketVars
<1> QED
  BY <1>2, <1>3, <1>4, <1>5, <1>6, <1>7 DEF Next, Cycles

(***************************************************************************)
(* Every variable of the ladder keeps its type (strategy.rs).              *)
(***************************************************************************)
THEOREM LadderTypeCorrect == Spec => []TypeOK
<1>1. LadderInv => TypeOK
  BY DEF LadderInv
<1> QED
  BY LadderStart, LadderStep, <1>1, PTL DEF Spec

\* A bid of a settled ladder against the quote there is now: the half quantum
\* either way is what Roomy leaves.
LEMMA Backed ==
  ASSUME NEW n \in Nat \ {0}, NEW p \in Nat \ {0}, NEW q \in Nat \ {0}, NEW pct \in Nat \ {0},
         NEW quote \in Nat, NEW k \in Nat, NEW bid \in Nat,
         2 * bid < q * (2 * k + 1),
         (q * ((100 * n) * p)) * (2 * k - 1) <= 2 * (quote * pct),
         pct * (2 * k + 1) <= 100 * (2 * k - 1)
  PROVE  n * bid * p <= quote
<1> DEFINE m == n * p
           w == m * q
<1>1. m \in Nat \ {0} /\ w \in Nat \ {0}
  BY Product
<1>2. n * bid * p = m * bid /\ (q * ((100 * n) * p)) * (2 * k - 1) = w * (100 * (2 * k - 1))
  OBVIOUS
<1>3. w * (2 * k + 1) = m * (q * (2 * k + 1)) /\ pct * (w * (2 * k + 1)) = w * (pct * (2 * k + 1))
  OBVIOUS
<1>4. w * (pct * (2 * k + 1)) <= w * (100 * (2 * k - 1))
  <2>1. pct * (2 * k + 1) \in Int /\ 100 * (2 * k - 1) \in Int
    OBVIOUS
  <2> HIDE DEF w
  <2> QED
    BY <1>1, <2>1, Times
<1>5. m * (2 * bid) <= m * (q * (2 * k + 1))
  <2>1. 2 * bid \in Int /\ q * (2 * k + 1) \in Int /\ 2 * bid <= q * (2 * k + 1)
    OBVIOUS
  <2> HIDE DEF m
  <2> QED
    BY <1>1, <2>1, Times
<1>6. pct * (m * (2 * bid)) <= pct * (m * (q * (2 * k + 1)))
  <2>1. m * (2 * bid) \in Int /\ m * (q * (2 * k + 1)) \in Int
    BY <1>1
  <2> HIDE DEF m
  <2> QED
    BY <1>5, <2>1, Times
<1>7. pct * (m * (2 * bid)) <= 2 * (quote * pct)
  <2>1. /\ pct * (m * (2 * bid)) \in Int /\ w * (pct * (2 * k + 1)) \in Int
        /\ w * (100 * (2 * k - 1)) \in Int /\ quote * pct \in Int
    BY <1>1
  <2> HIDE DEF m, w
  <2> QED
    BY <1>2, <1>3, <1>4, <1>6, <2>1
<1>8. m * bid \in Int /\ pct * (m * (2 * bid)) = pct * (2 * (m * bid)) /\ 2 * (quote * pct) = pct * (2 * quote)
  BY <1>1
<1> HIDE DEF m, w
<1>9. 2 * (m * bid) <= 2 * quote
  BY <1>7, <1>8, CancelLe
<1> QED
  BY <1>2, <1>8, <1>9

(***************************************************************************)
(* After any sequence of mid updates, fills, deposits and withdrawals, the *)
(* ladder a cycle leaves alone is backed by the quote (strategy.rs:        *)
(* quantize, structure_hash; README.md: deferred quote rebalancing).       *)
(***************************************************************************)
THEOREM FundedCorrect == Spec => []SettledIsFunded
<1>1. LadderInv => SettledIsFunded
  <2> SUFFICES ASSUME LadderInv, hash = Target, book.mid = price, Roomy(BidSize),
                      NEW i \in Ladders
               PROVE  NumLevels * book.bids[i] * book.mid <= funds.quote
    BY DEF SettledIsFunded
  <2>1. TypeOK /\ price \in Nat \ {0} /\ BidShare \in Nat /\ BidSize \in Nat /\ Target \in Hashes
    BY Sizes DEF LadderInv
  <2>2. hash.bid = BidSize /\ hash # NoHash
    BY <2>1, NoHashAssumption DEF Target
  <2>3. book.bids[i] \in Nat /\ funds.quote \in Nat
    BY <2>1 DEF TypeOK, Funds
  <2>4. 2 * book.bids[i] < Quantum * (2 * BidSize + 1)
    BY <2>2 DEF LadderInv, Cut
  <2>5. (Quantum * ((100 * NumLevels) * price)) * (2 * BidSize - 1) <= 2 * (funds.quote * Pct)
    <3>1. Parts * Quantum * price \in Nat \ {0} /\ Parts * Quantum * price = Quantum * (Parts * price)
      BY <2>1, Divisors
    <3>2. (Parts * Quantum * price) * (2 * BidSize - 1) <= 2 * BidShare
      BY <2>1, <3>1, Quantized DEF BidSize
    <3> QED
      BY <3>1, <3>2 DEF Parts, BidShare
  <2>6. NumLevels \in Nat \ {0} /\ Quantum \in Nat \ {0} /\ Pct \in Nat \ {0}
    BY LadderAssumption
  <2> QED
    BY <2>1, <2>3, <2>4, <2>5, <2>6, Backed DEF Roomy
<1> QED
  BY LadderStart, LadderStep, <1>1, PTL DEF Spec
=============================================================================
