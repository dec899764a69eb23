--------------------------- MODULE OperatorProofs ---------------------------
(***************************************************************************)
(* The operator's commands next to a running bot, for every value of the   *)
(* constants.  The first invariant says what is known of an order before   *)
(* it lands, in particular that its signature is new to the chain; the     *)
(* last one, that an order fits the book it was built from.                *)
(***************************************************************************)
EXTENDS OperatorCommands, MarketMakerProofs

Orders == [kind : {"none", "kill", "withdraw", "deposit", "revoke"}, nth : Nat, sig : Nat,
           slot : Nat, clear : BOOLEAN, seq : Nat, take : Funds, give : Funds]

Splits == [mid : Nat, base : Nat, quote : Nat]

OperatorTypeOK ==
  /\ TypeOK
  /\ step \in {"idle", "sending", "confirming", "ok", "failed"}
  /\ order \in Orders /\ onWay \subseteq Orders
  /\ processed \subseteq Nat /\ executed \in Seq(Orders)
  /\ authorised \in BOOLEAN
  /\ split \in Splits

\* A signature belongs to one command and one transaction.
Signed(o) ==
  /\ o.sig = o.nth /\ o.nth <= order.nth
  /\ o.nth = order.nth => o = order
  /\ o.kind = "kill" => o.clear

OrdersInv ==
  /\ Signed(order)
  /\ \A o \in onWay : Signed(o) /\ o.sig \notin processed
  /\ \A o, p \in onWay : o.sig = p.sig => o = p

\* Everything that took effect has been seen by the chain, once.
ExecutedInv ==
  /\ \A i \in DOMAIN executed : executed[i].sig = executed[i].nth /\ executed[i].sig \in processed
  /\ \A i, j \in DOMAIN executed : i # j => executed[i].sig # executed[j].sig
  /\ \A i \in DOMAIN executed : executed[i].kind = "revoke" => ~authorised

OperatorInv == OperatorTypeOK /\ OrdersInv /\ ExecutedInv /\ RevokedKillSticks
-----------------------------------------------------------------------------
(***************************************************************************)
(* What the bot does to the book.                                          *)
(***************************************************************************)

LEMMA SlotStep ==
  TypeOK /\ Next =>
    \/ UNCHANGED book
    \/ /\ book'.slot = book.slot + 1
       /\ book'.levels = book.levels \/ \E w \in flight : WriteLands(w)
<1> SUFFICES ASSUME TypeOK, Next, ~UNCHANGED book
             PROVE  /\ book'.slot = book.slot + 1
                    /\ book'.levels = book.levels \/ \E w \in flight : WriteLands(w)
  OBVIOUS
<1>1. Network
  <2>1. EngineQuotes \/ EngineControl \/ WindowPasses \/ Inputs => UNCHANGED book
    BY DEF EngineQuotes, EngineControl, WindowPasses, Inputs, PriceTicks, PriceGoesStale,
           AccountArrives, AccountUnreadable, SubscriptionDrops, SubscriptionReturns, programVars
  <2>2. Tasks \/ Lifecycle => UNCHANGED book
    BY DEF Tasks, TaskSucceeds, TaskFails, FinalClearTimesOut, Lifecycle, StartEngine,
           StartTimesOut, CtrlC, Exit, Crash, Restart, programVars
  <2> QED
    BY <2>1, <2>2 DEF Next
<1>2. ASSUME NEW w \in flight, WriteRefused(w) \/ WriteLost(w) PROVE FALSE
  BY <1>2 DEF WriteRefused, Refused, WriteLost, Lost
<1>3. CASE BalanceChanges
  <2>1. PICK inv \in Inventories : BalanceMoves(inv)
    BY <1>3 DEF BalanceChanges
  <2> QED
    BY <2>1 DEF BalanceMoves, TypeOK, Books
<1>4. ASSUME NEW w \in flight, WriteLands(w) PROVE book'.slot = book.slot + 1
  BY <1>4 DEF WriteLands, Lands, Execute, TypeOK, Books
<1> QED
  BY <1>1, <1>2, <1>3, <1>4 DEF Network

LEMMA DemandType ==
  ASSUME NEW b \in Books
  PROVE  Demand(b) \in Funds
<1> DEFINE lots == SizeLots[b.levels.sizes]
<1>1. CASE b.levels = NoLevels
  BY <1>1 DEF Demand, Nothing, Funds
<1>2. CASE b.levels # NoLevels
  <2>1. b.levels \in Levels /\ b.mid \in Nat
    BY <1>2 DEF Books
  <2>2. lots.asks \in Nat /\ lots.bids \in Nat
    BY <2>1, OperatorAssumption DEF Levels
  <2>3. BidPrice(b) \in Nat
    BY <2>1, PriceScaleAssumption DEF Levels, BidPrice
  <2>4. lots.bids * BidPrice(b) \in Nat
    BY <2>2, <2>3
  <2>5. (lots.bids * BidPrice(b)) \div QuoteUnit \in Nat
    BY <2>4, OperatorAssumption
  <2> QED
    BY <1>2, <2>2, <2>5 DEF Demand, Funds
<1> QED
  BY <1>1, <1>2

LEMMA SplitType ==
  ASSUME NEW b \in Books
  PROVE  SplitOf(b) \in Splits
<1>1. Demand(b) \in Funds /\ b.inv \in Funds /\ b.mid \in Nat
  BY DemandType, OperatorAssumption DEF Books
<1> QED
  BY <1>1 DEF SplitOf, Splits, Smaller, Funds

LEMMA SettledType ==
  ASSUME TypeOK, NEW m \in Nat
  PROVE  [book EXCEPT !.mid = m] \in Books
  BY DEF TypeOK, Books

\* With nothing resting everything is free: a withdrawal takes the totals.
LEMMA TakesAll ==
  ASSUME TypeOK, split \in Splits
  PROVE  Withdrawn = book.inv
<1>1. book.inv \in Funds /\ Demand(book) \in Funds
  BY DemandType, OperatorAssumption DEF TypeOK, Books
<1>2. ProjectedLocked \in Nat /\ split.base \in Nat
  BY <1>1 DEF ProjectedLocked, Splits, Funds
<1>3. CASE ~HasResting
  <2>1. split.base = 0 /\ ProjectedLocked = 0
    BY <1>2, <1>3 DEF HasResting
  <2>2. book.inv = [base |-> book.inv.base - 0, quote |-> book.inv.quote - 0]
    BY <1>1 DEF Funds
  <2> QED
    BY <1>3, <2>1, <2>2 DEF Withdrawn
<1> QED
  BY <1>3 DEF Withdrawn

LEMMA OrderType ==
  ASSUME TypeOK, split \in Splits, NEW kind \in Commands, NEW n \in Nat, NEW m \in Nat
  PROVE  Order(kind, n, m) \in Orders
<1>1. book.inv \in Funds /\ Nothing \in Funds /\ Deposit \in Funds
  BY OperatorAssumption DEF TypeOK, Books, Nothing, Funds
<1>2. /\ (IF kind = "withdraw" THEN Withdrawn ELSE Nothing) \in Funds
      /\ (IF kind = "deposit" THEN Deposit ELSE Nothing) \in Funds
  BY <1>1, TakesAll
<1>3. book.slot \in Nat /\ book.seq + 1 \in Nat
  BY DEF TypeOK, Books
<1>4. kind \in {"none", "kill", "withdraw", "deposit", "revoke"}
  BY OperatorAssumption
<1>5. (kind = "kill" \/ (kind = "withdraw" /\ HasResting)) \in BOOLEAN
  BY DEF HasResting
<1> QED
  BY <1>2, <1>3, <1>4, <1>5 DEF Order, Orders, NextNumber

LEMMA AppendStep ==
  ASSUME NEW S, NEW q \in Seq(S), NEW e \in S
  PROVE  /\ Append(q, e) \in Seq(S) /\ Append(q, e) # q
         /\ \A i \in DOMAIN q : i \in DOMAIN Append(q, e) /\ Append(q, e)[i] = q[i] /\ i <= Len(q)
         /\ \A i \in DOMAIN Append(q, e) : i \notin DOMAIN q => i = Len(q) + 1
         /\ Len(q) + 1 \in DOMAIN Append(q, e) /\ Append(q, e)[Len(q) + 1] = e
  OBVIOUS
-----------------------------------------------------------------------------
(***************************************************************************)
(* The bot's steps leave the orders alone.                                 *)
(***************************************************************************)

LEMMA BotKeeps == OperatorInv /\ BotRuns => OperatorInv'
<1> SUFFICES ASSUME OperatorInv, BotRuns PROVE OperatorInv'
  OBVIOUS
<1>1. OperatorTypeOK'
  <2>1. TypeOK'
    BY TypeStep DEF OperatorInv, OperatorTypeOK, BotRuns
  <2>2. split' \in Splits
    BY <2>1, SplitType DEF OperatorInv, OperatorTypeOK, BotRuns, Resettles, TypeOK
  <2> QED
    BY <2>1, <2>2 DEF OperatorInv, OperatorTypeOK, BotRuns, commandVars
<1>4. OrdersInv'
  <2>1. UNCHANGED <<order, onWay, processed>>
    BY DEF BotRuns, commandVars
  <2> QED
    BY <2>1 DEF OperatorInv, OrdersInv, Signed
<1>5. ExecutedInv'
  BY DEF OperatorInv, ExecutedInv, BotRuns, commandVars
<1>6. RevokedKillSticks'
  <2>1. UNCHANGED <<executed, authorised>>
    BY DEF BotRuns, commandVars
  <2>2. SUFFICES ASSUME DelegateKey,
                        NEW i \in DOMAIN executed, NEW j \in DOMAIN executed, i < j,
                        executed[i].kind = "revoke", executed[j].kind = "kill"
                 PROVE  book'.levels = NoLevels
    BY <2>1 DEF RevokedKillSticks
  <2>3. book.levels = NoLevels /\ ~authorised
    BY <2>2 DEF OperatorInv, RevokedKillSticks, ExecutedInv
  <2>4. ~\E w \in flight : WriteLands(w)
    BY <2>2, <2>3 DEF BotRuns, MayWrite, SignsAsDelegate
  <2> QED
    BY <2>3, <2>4, SlotStep DEF OperatorInv, OperatorTypeOK, BotRuns
<1> QED
  BY <1>1, <1>4, <1>5, <1>6 DEF OperatorInv

\* Steps that leave the book and what has been executed alone.
LEMMA QuietKeeps ==
  ASSUME OperatorInv, UNCHANGED <<book, executed, authorised>>
  PROVE  /\ processed \subseteq processed' => ExecutedInv'
         /\ RevokedKillSticks'
<1>1. processed \subseteq processed' => ExecutedInv'
  BY DEF OperatorInv, ExecutedInv
<1>2. RevokedKillSticks'
  BY DEF OperatorInv, RevokedKillSticks
<1> QED
  BY <1>1, <1>2

LEMMA RefusalKeeps ==
  ASSUME OperatorInv, NEW w \in flight, WriteUnauthorised(w)
  PROVE  OperatorInv'
<1>1. OperatorTypeOK'
  BY DEF OperatorInv, OperatorTypeOK, TypeOK, WriteUnauthorised, opVars, commandVars, txVars, streamVars,
         viewVars, feedVars, engineVars, controlVars, decisionVars
<1>2. UNCHANGED <<book, opVars>>
  BY DEF WriteUnauthorised
<1> QED
  BY <1>1, <1>2, QuietKeeps DEF OperatorInv, OrdersInv, Signed, opVars, commandVars
-----------------------------------------------------------------------------
(***************************************************************************)
(* The command's process.                                                  *)
(***************************************************************************)

LEMMA GivesKeeps ==
  ASSUME OperatorInv, NEW kind \in Commands, Gives(kind)
  PROVE  OperatorInv'
<1>0. PICK o : o = Order(kind, order.nth + 1, order.sig + 1)
  OBVIOUS
<1>1. /\ order' = o /\ o \in Orders /\ o.nth = order.nth + 1 /\ o.sig = order.sig + 1
      /\ o.kind = "kill" => o.clear
  <2>1. order.nth + 1 \in Nat /\ order.sig + 1 \in Nat
    BY DEF OperatorInv, OperatorTypeOK, Orders
  <2>2. o \in Orders
    BY <1>0, <2>1, OrderType DEF OperatorInv, OperatorTypeOK
  <2>3. order' = o
    BY <1>0 DEF Gives
  <2> QED
    BY <1>0, <2>2, <2>3 DEF Order
<1>2. /\ UNCHANGED <<vars, onWay, processed, executed, authorised, split>> /\ UNCHANGED book
      /\ step' = "sending"
  BY DEF Gives, vars, programVars
<1>3. OperatorTypeOK'
  BY <1>1, <1>2, TypeStep DEF OperatorInv, OperatorTypeOK
<1>4. OrdersInv'
  <2>2. Signed(order)'
    <3>1. order.sig = order.nth /\ o.nth \in Nat
      BY <1>1 DEF Signed, OperatorInv, OrdersInv, Orders
    <3> QED
      BY <1>1, <3>1 DEF Signed
  <2>3. ASSUME NEW p \in onWay PROVE Signed(p)'
    <3>1. Signed(p)
      BY DEF OperatorInv, OrdersInv
    <3>2. p.nth \in Nat /\ order.nth \in Nat
      BY DEF OperatorInv, OperatorTypeOK, Orders
    <3> QED
      BY <1>1, <1>2, <3>1, <3>2 DEF Signed
  <2> QED
    BY <1>1, <1>2, <2>2, <2>3 DEF OperatorInv, OrdersInv
<1> QED
  BY <1>2, <1>3, <1>4, QuietKeeps DEF OperatorInv

LEMMA AttemptKeeps ==
  ASSUME OperatorInv, Submits \/ Confirms \/ AttemptFails
  PROVE  OperatorInv'
<1>1. /\ UNCHANGED <<vars, order, processed, executed, authorised, split>> /\ UNCHANGED book
      /\ onWay' \in {onWay, onWay \cup {order}}
  BY DEF Submits, Confirms, AttemptFails, vars, programVars
<1>2. OperatorTypeOK'
  <2>1. step' \in {"idle", "sending", "confirming", "ok", "failed"} /\ onWay' \subseteq Orders
    BY <1>1 DEF Submits, Confirms, AttemptFails, OperatorInv, OperatorTypeOK
  <2> QED
    BY <1>1, <2>1, TypeStep DEF OperatorInv, OperatorTypeOK
<1>3. OrdersInv'
  <2>2. Signed(order)'
    BY <1>1 DEF OperatorInv, OrdersInv, Signed
  <2>3. ASSUME NEW p \in onWay PROVE Signed(p)'
    BY <1>1 DEF OperatorInv, OrdersInv, Signed
  <2>4. CASE UNCHANGED onWay
    BY <1>1, <2>2, <2>3, <2>4 DEF OperatorInv, OrdersInv
  <2>5. CASE Submits
    <3>1. \A p \in onWay : p.sig = order.sig => p = order
      BY DEF OperatorInv, OrdersInv, Signed
    <3> QED
      BY <1>1, <2>2, <2>3, <2>5, <3>1 DEF Submits, OperatorInv, OrdersInv
  <2> QED
    BY <2>4, <2>5 DEF Confirms, AttemptFails
<1> QED
  BY <1>1, <1>2, <1>3, QuietKeeps DEF OperatorInv
-----------------------------------------------------------------------------
(***************************************************************************)
(* The order on the chain.                                                 *)
(***************************************************************************)

LEMMA RefusedKeeps ==
  ASSUME OperatorInv, NEW o \in onWay, OrderRefused(o) \/ OrderLost(o)
  PROVE  OperatorInv'
<1>1. /\ UNCHANGED <<order, executed, authorised, split>> /\ UNCHANGED book
      /\ onWay' = onWay \ {o} /\ processed' \in {processed, processed \cup {o.sig}}
      /\ UNCHANGED step
  BY DEF OrderRefused, OrderLost, vars, programVars
<1>2. OperatorTypeOK'
  <2>1. TypeOK'
    <3>1. CASE OrderRefused(o)
      BY <3>1, TypeStep DEF OrderRefused, OperatorInv, OperatorTypeOK
    <3>2. CASE OrderLost(o)
      <4>1. spent' \in [Events -> Nat]
        BY <3>2, SpendType DEF OrderLost, OperatorInv, OperatorTypeOK, Events
      <4> QED
        BY <3>2, <4>1 DEF OrderLost, OperatorInv, OperatorTypeOK, TypeOK, programVars, txVars,
           streamVars, viewVars, feedVars, engineVars, controlVars, decisionVars
    <3> QED
      BY <3>1, <3>2
  <2> QED
    BY <1>1, <2>1 DEF OperatorInv, OperatorTypeOK, Orders
<1>3. OrdersInv'
  <2>1. ASSUME NEW p \in onWay' PROVE Signed(p)' /\ p.sig \notin processed'
    BY <1>1, <2>1 DEF OperatorInv, OrdersInv, Signed
  <2>2. Signed(order)'
    BY <1>1 DEF OperatorInv, OrdersInv, Signed
  <2> QED
    BY <1>1, <2>1, <2>2 DEF OperatorInv, OrdersInv
<1> QED
  BY <1>1, <1>2, <1>3, QuietKeeps DEF OperatorInv

LEMMA LandsKeeps ==
  ASSUME OperatorInv, NEW o \in onWay, OrderLands(o)
  PROVE  OperatorInv'
<1>1. /\ o \in Orders /\ executed \in Seq(Orders) /\ executed' = Append(executed, o)
      /\ o.sig = o.nth /\ o.sig \notin processed
  BY DEF OperatorInv, OperatorTypeOK, OrdersInv, Signed, OrderLands
<1>2. book' \in Books /\ book'.slot = book.slot + 1
      /\ book'.levels = IF o.clear THEN NoLevels ELSE book.levels
  <2>1. /\ Plus(Minus(book.inv, o.take), o.give) \in Inventories
        /\ (IF o.clear THEN o.seq ELSE book.seq) \in Nat
        /\ (IF o.clear THEN NoLevels ELSE book.levels) \in Levels \cup {NoLevels}
        /\ book.slot + 1 \in Nat
    <3>1. book \in Books
      BY DEF OperatorInv, OperatorTypeOK, TypeOK
    <3>2. Plus(Minus(book.inv, o.take), o.give) \in Inventories
      BY DEF OrderLands
    <3> QED
      BY <1>1, <3>1, <3>2 DEF Orders, Books
  <2>2. book \in Books
    BY DEF OperatorInv, OperatorTypeOK, TypeOK
  <2> QED
    BY <2>1, <2>2 DEF OrderLands, Books
<1>3. OperatorTypeOK'
  <2>1. frames' \subseteq Frames /\ missed' \in BOOLEAN /\ UNCHANGED <<subscribed, viewVars>>
    BY <1>2, PublishesType DEF OrderLands, OperatorInv, OperatorTypeOK
  <2>2. TypeOK'
    BY <1>2, <2>1 DEF OrderLands, OperatorInv, OperatorTypeOK, TypeOK, txVars, viewVars, feedVars,
       engineVars, controlVars, decisionVars
  <2>3. executed' \in Seq(Orders)
    BY <1>1, AppendStep
  <2>4. split' \in Splits
    BY <1>2, SplitType DEF OrderLands
  <2> QED
    BY <1>1, <2>2, <2>3, <2>4 DEF OrderLands, OperatorInv, OperatorTypeOK, Orders
<1>4. OrdersInv'
  <2>2. ASSUME NEW p \in onWay' PROVE Signed(p)' /\ p.sig \notin processed'
    <3>1. p \in onWay /\ p # o /\ processed' = processed \cup {o.sig} /\ UNCHANGED order
      BY DEF OrderLands
    <3> QED
      BY <3>1 DEF OperatorInv, OrdersInv, Signed
  <2>3. Signed(order)'
    BY DEF OrderLands, OperatorInv, OrdersInv, Signed
  <2> QED
    BY <2>2, <2>3 DEF OrderLands, OperatorInv, OrdersInv
<1>5. ExecutedInv'
  <2>1. /\ processed' = processed \cup {o.sig}
        /\ authorised' = (authorised /\ o.kind # "revoke")
    BY DEF OrderLands
  <2>2. ASSUME NEW i \in DOMAIN executed'
        PROVE  (i \in DOMAIN executed /\ executed'[i] = executed[i]) \/ executed'[i] = o
    BY <1>1, AppendStep
  <2>3. ASSUME NEW i \in DOMAIN executed', NEW j \in DOMAIN executed', i # j
        PROVE  executed'[i].sig # executed'[j].sig
    BY <1>1, <2>2, <2>3, AppendStep DEF OperatorInv, ExecutedInv
  <2> QED
    BY <1>1, <2>1, <2>2, <2>3 DEF OperatorInv, ExecutedInv
<1>7. RevokedKillSticks'
  <2>1. SUFFICES ASSUME DelegateKey, ~book'.levels = NoLevels,
                        NEW i \in DOMAIN executed', NEW j \in DOMAIN executed', i < j,
                        executed'[i].kind = "revoke", executed'[j].kind = "kill"
                 PROVE  FALSE
    BY DEF RevokedKillSticks
  <2>2. ~o.clear /\ o.kind # "kill" /\ book.levels # NoLevels
    BY <1>2, <2>1 DEF OperatorInv, OrdersInv, Signed
  <2>3. j \in DOMAIN executed /\ executed[j].kind = "kill"
    BY <1>1, <2>1, <2>2, AppendStep
  <2>4. i \in DOMAIN executed
    BY <1>1, <2>1, <2>3, AppendStep
  <2>5. executed[i].kind = "revoke"
    BY <1>1, <2>1, <2>4, AppendStep
  <2> QED
    BY <2>1, <2>2, <2>3, <2>4, <2>5 DEF OperatorInv, RevokedKillSticks
<1> QED
  BY <1>3, <1>4, <1>5, <1>7 DEF OperatorInv
-----------------------------------------------------------------------------
(***************************************************************************)
(* The theorems.                                                           *)
(***************************************************************************)

LEMMA OperatorStart == OperatorInit => OperatorInv
<1> SUFFICES ASSUME OperatorInit PROVE OperatorInv
  OBVIOUS
<1>1. TypeOK
  BY TypeInit DEF OperatorInit
<1>2. NoOrder \in Orders /\ Nothing \in Funds
  BY DEF NoOrder, Orders, Nothing, Funds
<1>3. OperatorTypeOK
  <2>1. PICK m \in EarlierMids : split = SettledAt(m)
    BY DEF OperatorInit
  <2>2. m \in Nat
    BY <1>1, PriceScaleAssumption DEF EarlierMids, TypeOK, Books
  <2>3. split \in Splits
    BY <1>1, <2>1, <2>2, SettledType, SplitType DEF SettledAt
  <2> QED
    BY <1>1, <1>2, <2>3 DEF OperatorInit, OperatorTypeOK
<1>4. OrdersInv
  BY <1>2 DEF OperatorInit, OrdersInv, Signed, NoOrder, Orders
<1>5. ExecutedInv /\ RevokedKillSticks
  BY DEF OperatorInit, ExecutedInv, RevokedKillSticks
<1> QED
  BY <1>3, <1>4, <1>5 DEF OperatorInv

LEMMA OperatorStep == OperatorInv /\ [OperatorNext]_allVars => OperatorInv'
<1> SUFFICES ASSUME OperatorInv, [OperatorNext]_allVars PROVE OperatorInv'
  OBVIOUS
<1>1. CASE OperatorNext
  <2>1. CASE BotRuns
    BY <2>1, BotKeeps
  <2>2. ASSUME NEW w \in flight, WriteUnauthorised(w) PROVE OperatorInv'
    BY <2>2, RefusalKeeps
  <2>3. ASSUME NEW kind \in Commands, Gives(kind) PROVE OperatorInv'
    BY <2>3, GivesKeeps
  <2>4. CASE Submits \/ Confirms \/ AttemptFails
    BY <2>4, AttemptKeeps
  <2>5. ASSUME NEW o \in onWay, OrderLands(o) PROVE OperatorInv'
    BY <2>5, LandsKeeps
  <2>6. ASSUME NEW o \in onWay, OrderRefused(o) \/ OrderLost(o) PROVE OperatorInv'
    BY <2>6, RefusedKeeps
  <2> QED
    BY <1>1, <2>1, <2>2, <2>3, <2>4, <2>5, <2>6 DEF OperatorNext
<1>2. CASE UNCHANGED allVars
  <2>1. UNCHANGED <<vars, opVars, book>>
    BY <1>2 DEF allVars, vars, programVars
  <2>2. OperatorTypeOK'
    BY <2>1, TypeStep DEF OperatorInv, OperatorTypeOK, opVars, commandVars
  <2> QED
    BY <2>1, <2>2, QuietKeeps DEF OperatorInv, OrdersInv, Signed, opVars, commandVars
<1> QED
  BY <1>1, <1>2

(***************************************************************************)
(* The invariant of the commands: orders are well signed and take effect   *)
(* at most once.                                                           *)
(***************************************************************************)
THEOREM OperatorCorrect == OperatorSpec => []OperatorInv
  BY OperatorStart, OperatorStep, PTL DEF OperatorSpec

(***************************************************************************)
(* A command takes effect at most once, however often send_instructions    *)
(* repeated its transaction.                                               *)
(***************************************************************************)
THEOREM OnceCorrect == OperatorSpec => []ExecutesOnce
<1>1. OperatorInv => ExecutesOnce
  BY DEF OperatorInv, ExecutedInv, ExecutesOnce
<1> QED
  BY <1>1, OperatorCorrect, PTL

(***************************************************************************)
(* With the delegate revoked, a kill is final: no write of the bot, sent   *)
(* or still to be sent, brings quotes back.                                *)
(***************************************************************************)
THEOREM RevokedKillCorrect == OperatorSpec => []RevokedKillSticks
<1>1. OperatorInv => RevokedKillSticks
  BY DEF OperatorInv
<1> QED
  BY <1>1, OperatorCorrect, PTL

-----------------------------------------------------------------------------
(***************************************************************************)
(* What the bot decides next to a second writer.  An operator's order can  *)
(* move the book's number past the engine's counter, so SeqInv does not    *)
(* hold here; what is left of it is that the book's number only grows, and *)
(* that the view is never ahead of it and has it when it has caught up.    *)
(***************************************************************************)
CatchesUp == ~missed => onchainSeq = book.seq \/ FrameOf(book) \in frames

WithinReach == \A w \in Live : w.first <= w.last /\ WithinLead(w)

SeenInv == ViewBehind /\ CatchesUp /\ WithinReach

LEMMA SeenSame ==
  ASSUME ViewBehind, CatchesUp, UNCHANGED <<onchainSeq, book>>, frames' \subseteq frames,
         ~missed' => ~missed /\ (FrameOf(book) \in frames => FrameOf(book) \in frames')
  PROVE  ViewBehind' /\ CatchesUp'
<1>1. FrameOf(book)' = FrameOf(book)
  BY DEF FrameOf
<1> QED
  BY <1>1 DEF ViewBehind, CatchesUp

LEMMA SeenPublishes ==
  ASSUME TypeOK, ViewBehind, Publishes(book'), book'.seq \in Nat, book.seq <= book'.seq
  PROVE  ViewBehind' /\ CatchesUp'
<1>1. /\ book.seq \in Nat /\ onchainSeq \in Nat /\ UNCHANGED onchainSeq
      /\ \A f \in frames : f.seq \in Nat /\ f.seq <= book.seq
  BY DEF TypeOK, Books, Frames, ViewBehind, Publishes, viewVars
<1>2. FrameOf(book').seq = book'.seq
  BY DEF FrameOf
<1>3. \A f \in frames' : f.seq <= book'.seq
  BY <1>1, <1>2 DEF Publishes
<1>4. CatchesUp'
  BY DEF Publishes, CatchesUp, FrameOf
<1> QED
  BY <1>1, <1>3, <1>4 DEF ViewBehind

LEMMA SeenHandles ==
  ASSUME TypeOK, ViewBehind, CatchesUp, NEW f \in frames, HandleAccount(f), UNCHANGED book
  PROVE  ViewBehind' /\ CatchesUp'
<1>1. /\ book.seq \in Nat /\ onchainSeq \in Nat /\ onchainSeq <= book.seq
      /\ f.seq \in Nat /\ f.seq <= book.seq
  BY DEF TypeOK, Books, Frames, ViewBehind
<1>2. /\ onchainSeq' = IF f.seq > onchainSeq THEN f.seq ELSE onchainSeq
      /\ frames' = frames \ {f} /\ UNCHANGED missed
  BY DEF HandleAccount
<1>3. FrameOf(book)' = FrameOf(book) /\ FrameOf(book).seq = book.seq
  BY DEF FrameOf
<1> QED
  BY <1>1, <1>2, <1>3 DEF ViewBehind, CatchesUp

\* A write decided on in a step has the number the resync gave it.
LEMMA NewTask ==
  ASSUME TypeOK, Next, NEW w \in tasks' \ tasks
  PROVE  /\ w \in Writes /\ w.first <= w.last /\ UNCHANGED book
         /\ w.kind # "clear" => w.first = Synced + 1
<1>1. EngineQuotes \/ EngineControl
  BY DEF Next, Network, WriteLands, WriteRefused, WriteLost, BalanceChanges, txVars, Tasks,
     TaskSucceeds, SendAccepted, TaskFails, SendFailed, FinalClearTimesOut, CloseTimesOut,
     SendAbandoned, Inputs, PriceTicks, PriceGoesStale, AccountArrives, AccountUnreadable, SubscriptionDrops,
     SubscriptionReturns, Lifecycle, StartEngine, StartTimesOut, CtrlC, Exit, Crash, Restart,
     WindowPasses
<1>2. UNCHANGED book
  BY <1>1 DEF EngineQuotes, EngineControl, programVars
<1> QED
  BY <1>1, <1>2, EngineFires DEF Fired

\* A transaction reaches a leader through the task that sends it.
LEMMA FlightStep ==
  ASSUME Next
  PROVE  flight' \subseteq Live
  BY DEF Live, Next, Network, WriteLands, Lands, WriteRefused, Refused, WriteLost, Lost,
     BalanceChanges, BalanceMoves, Tasks, TaskSucceeds, SendAccepted, TaskFails, SendFailed,
     FinalClearTimesOut, CloseTimesOut, SendAbandoned, Inputs, PriceTicks, PriceGoesStale,
     AccountArrives, AccountUnreadable, SubscriptionDrops, SubscriptionReturns, Lifecycle, StartEngine,
     StartTimesOut, CtrlC, Exit, Crash, Restart, EngineQuotes, EngineControl, WindowPasses,
     programVars

LEMMA ReachKept ==
  ASSUME TypeOK, WithinReach, Live' \subseteq Live, book'.seq \in Nat, book.seq <= book'.seq
  PROVE  WithinReach'
<1>1. ASSUME NEW w \in Live' PROVE w.first <= w.last /\ WithinLead(w)'
  <2>1. w \in Writes /\ book.seq \in Nat /\ w.first <= w.last /\ WithinLead(w)
    BY LiveType DEF TypeOK, Books, WithinReach
  <2> QED
    BY <2>1, EngineAssumption DEF WithinLead, Writes
<1> QED
  BY <1>1 DEF WithinReach

\* The engine counts from the number it sees, and at most MaxLead from it.
LEMMA ReachFires ==
  ASSUME TypeOK, ViewBehind, NEW w \in Writes, w.kind # "clear" => w.first = Synced + 1,
         UNCHANGED book
  PROVE  WithinLead(w)'
  BY SyncedBounds, EngineAssumption DEF TypeOK, Books, ViewBehind, WithinLead
-----------------------------------------------------------------------------

\* The book's number only grows, and every change of the book is published.
LEMMA SeqGrows ==
  ASSUME TypeOK, WithinReach, Next
  PROVE  (book'.seq \in Nat /\ book.seq <= book'.seq /\ Publishes(book')) \/ UNCHANGED book
<1>1. ASSUME NEW w \in flight, WriteLands(w)
      PROVE  book'.seq \in Nat /\ book.seq <= book'.seq /\ Publishes(book')
  <2>1. w \in Writes /\ book \in Books /\ w.first <= w.last
    BY DEF TypeOK, WithinReach, Live
  <2>2. book'.seq = w.last /\ book.seq < w.first
    BY <1>1, <2>1, ExecuteType DEF WriteLands, Lands, Accepts
  <2> QED
    BY <1>1, <2>1, <2>2 DEF WriteLands, Books, Writes
<1>2. ASSUME NEW inv \in Inventories, BalanceMoves(inv), BalanceChanges
      PROVE  book'.seq \in Nat /\ book.seq <= book'.seq /\ Publishes(book')
  BY <1>2 DEF BalanceMoves, BalanceChanges, TypeOK, Books
<1>3. CASE Network
  BY <1>1, <1>2, <1>3 DEF Network, BalanceChanges, WriteRefused, Refused, WriteLost, Lost
<1>4. CASE ~Network
  BY <1>4 DEF Next, Tasks, TaskSucceeds, TaskFails, FinalClearTimesOut, Inputs,
     PriceTicks, PriceGoesStale, AccountArrives, AccountUnreadable, SubscriptionDrops, SubscriptionReturns,
     Lifecycle, StartEngine, StartTimesOut, CtrlC, Exit, Crash, Restart, EngineQuotes,
     EngineControl, WindowPasses, programVars
<1> QED
  BY <1>3, <1>4

LEMMA SeenBot == TypeOK /\ SeenInv /\ [Next]_vars => SeenInv'
<1> SUFFICES ASSUME TypeOK, SeenInv, [Next]_vars PROVE SeenInv'
  OBVIOUS
<1> USE DEF SeenInv
<1>0. CASE UNCHANGED vars
  <2>1. UNCHANGED <<book, flight, tasks, onchainSeq, frames, missed>>
    BY <1>0 DEF vars, programVars, txVars, streamVars
  <2> QED
    BY <2>1 DEF ViewBehind, CatchesUp, WithinReach, WithinLead, Live
<1>1. CASE Next
  <2>1. (book'.seq \in Nat /\ book.seq <= book'.seq /\ Publishes(book')) \/ UNCHANGED book
    BY <1>1, SeqGrows
  <2>2. book.seq \in Nat /\ book'.seq \in Nat /\ book.seq <= book'.seq
    BY <2>1 DEF TypeOK, Books
  <2>3. WithinReach'
    <3>1. ASSUME NEW w \in Live' PROVE w.first <= w.last /\ WithinLead(w)'
      <4>1. CASE w \in Live
        <5>1. w \in Writes /\ w.first <= w.last /\ WithinLead(w)
          BY <4>1, LiveType DEF WithinReach
        <5> QED
          BY <2>2, <5>1, EngineAssumption DEF WithinLead, Writes
      <4>2. CASE w \notin Live
        <5>1. w \in tasks' \ tasks
          BY <1>1, <4>2, <3>1, FlightStep DEF Live
        <5> QED
          BY <1>1, <5>1, NewTask, ReachFires
      <4> QED
        BY <4>1, <4>2
    <3> QED
      BY <3>1 DEF WithinReach
  <2>4. ViewBehind' /\ CatchesUp'
    <3>1. CASE Publishes(book') /\ book'.seq \in Nat /\ book.seq <= book'.seq
      BY <3>1, SeenPublishes
    <3>2. ASSUME NEW f \in frames, AccountArrives(f) PROVE ViewBehind' /\ CatchesUp'
      BY <3>2, SeenHandles DEF AccountArrives, programVars
    <3>3. CASE Restart
      <4>1. /\ onchainSeq' = book.seq /\ frames' = {} /\ UNCHANGED book
        BY <3>3 DEF Restart, programVars
      <4> QED
        BY <4>1 DEF ViewBehind, CatchesUp, TypeOK, Books
    <3>4. CASE UNCHANGED book /\ ~Restart /\ ~\E f \in frames : AccountArrives(f)
      <4>1. UNCHANGED <<onchainSeq, frames, missed>> \/ Publishes(book')
            \/ SubscriptionDrops \/ CtrlC \/ StartTimesOut \/ Crash
            \/ \E f \in frames : AccountUnreadable(f)
        BY <1>1, <3>4 DEF Next, Network, WriteLands, WriteRefused, WriteLost, BalanceChanges, Tasks,
           TaskSucceeds, TaskFails, FinalClearTimesOut, Inputs, PriceTicks, PriceGoesStale,
           SubscriptionReturns, Resubscribes, Lifecycle, StartEngine, Exit, EngineQuotes,
           EngineControl, WindowPasses, streamVars, viewVars
      <4>2. CASE UNCHANGED <<onchainSeq, frames, missed>>
        BY <3>4, <4>2, SeenSame
      <4>3. CASE Publishes(book')
        BY <2>2, <4>3, SeenPublishes
      <4>4. CASE SubscriptionDrops \/ CtrlC \/ StartTimesOut \/ Crash
        <5>1. /\ UNCHANGED onchainSeq /\ frames' = {}
              /\ ~missed' => ~missed /\ frames = {}
          BY <4>4 DEF SubscriptionDrops, StreamDrops, CtrlC, StartTimesOut, Crash, StreamEnds,
             viewVars, TypeOK
        <5> QED
          BY <3>4, <5>1, SeenSame
      <4>5. ASSUME NEW f \in frames, AccountUnreadable(f) PROVE ViewBehind' /\ CatchesUp'
        <5>1. /\ UNCHANGED onchainSeq /\ frames' = frames \ {f}
              /\ ~missed' => ~missed /\ f.slot # book.slot
          BY <4>5 DEF AccountUnreadable, SkipsFrame, viewVars, TypeOK
        <5>2. FrameOf(book).slot = book.slot
          BY DEF FrameOf
        <5> QED
          BY <3>4, <5>1, <5>2, SeenSame
      <4> QED
        BY <4>1, <4>2, <4>3, <4>4, <4>5
    <3> QED
      BY <2>1, <3>1, <3>2, <3>3, <3>4
  <2> QED
    BY <2>3, <2>4
<1> QED
  BY <1>0, <1>1

LEMMA SeenStep ==
  ASSUME OperatorInv, SeenInv, [OperatorNext]_allVars
  PROVE  SeenInv'
<1> USE DEF SeenInv, OperatorInv, OperatorTypeOK
<1>1. CASE BotRuns \/ UNCHANGED vars
  BY <1>1, SeenBot DEF BotRuns
<1>2. ASSUME NEW o \in onWay, OrderLands(o) PROVE SeenInv'
  <2>1. /\ Publishes(book') /\ UNCHANGED <<flight, tasks>>
        /\ book'.seq = IF o.clear THEN o.seq ELSE book.seq
    BY <1>2 DEF OrderLands, txVars, TypeOK, Books
  <2>2. book.seq \in Nat /\ o.seq \in Nat /\ (o.clear => book.seq < o.seq)
    BY <1>2 DEF OrderLands, AcceptsOrder, Accepts, TypeOK, Books, Orders
  <2>3. book'.seq \in Nat /\ book.seq <= book'.seq
    BY <2>1, <2>2
  <2> QED
    BY <2>1, <2>3, SeenPublishes, ReachKept DEF Live
<1>3. ASSUME UNCHANGED <<book, streamVars, tasks>>, flight' \subseteq flight PROVE SeenInv'
  <2>1. UNCHANGED <<onchainSeq, frames, missed>> /\ Live' \subseteq Live
    BY <1>3 DEF streamVars, Live
  <2> QED
    BY <1>3, <2>1, SeenSame, ReachKept DEF TypeOK, Books
<1>4. ASSUME NEW o \in onWay, OrderRefused(o) \/ OrderLost(o) PROVE SeenInv'
  BY <1>3, <1>4 DEF OrderRefused, OrderLost, vars, programVars, txVars
<1>5. ASSUME NEW w \in flight, WriteUnauthorised(w) PROVE SeenInv'
  BY <1>3, <1>5 DEF WriteUnauthorised, txVars
<1> QED
  BY <1>1, <1>2, <1>4, <1>5 DEF OperatorNext, Gives, Submits, Confirms, AttemptFails, allVars

LEMMA SeenStart == OperatorInit => SeenInv
<1> SUFFICES ASSUME OperatorInit PROVE SeenInv
  OBVIOUS
<1>1. Live = {} /\ frames = {} /\ onchainSeq = book.seq /\ book.seq \in Nat
  BY TypeInit DEF OperatorInit, Init, Live, LoadBook, TypeOK, Books
<1> QED
  BY <1>1 DEF SeenInv, ViewBehind, CatchesUp, WithinReach

\* The view is behind the book, and has caught up when the stream has.
THEOREM SeenCorrect == OperatorSpec => []SeenInv
<1>1. OperatorInv /\ SeenInv /\ [OperatorNext]_allVars => SeenInv'
  BY SeenStep
<1> QED
  BY <1>1, SeenStart, OperatorCorrect, PTL DEF OperatorSpec

(***************************************************************************)
(* The bot's repricing writes stay within the program's sequence jump when *)
(* the operator writes to the same book.                                   *)
(***************************************************************************)
THEOREM OperatorJumpCorrect == OperatorSpec => []RepriceWithinJump
<1>1. OperatorInv /\ SeenInv => RepriceWithinJump
  <2> SUFFICES ASSUME OperatorInv, SeenInv, NEW w \in Live, w.kind # "clear"
               PROVE  w.first <= book.seq + MaxJump
    BY DEF RepriceWithinJump
  <2>1. w \in Writes /\ book.seq \in Nat /\ WithinLead(w)
    BY LiveType DEF OperatorInv, OperatorTypeOK, TypeOK, Books, SeenInv, WithinReach
  <2> QED
    BY <2>1, EngineAssumption, ProgramAssumption DEF WithinLead, Writes
<1> QED
  BY <1>1, OperatorCorrect, SeenCorrect, PTL

(***************************************************************************)
(* A quoting write decided on a caught-up view is one the book would take  *)
(* at that moment, also after orders the engine knows nothing of.          *)
(***************************************************************************)
THEOREM FitCorrect == OperatorSpec => QuotesFitCaughtUpBook
<1> DEFINE Fit == \A w \in tasks' \ tasks : w.kind # "clear" /\ ~missed /\ frames = {} => Accepts(book, w)
<1>1. OperatorInv /\ SeenInv /\ [OperatorNext]_allVars => [Fit]_allVars
  <2> SUFFICES ASSUME OperatorInv, SeenInv, OperatorNext, NEW w \in tasks' \ tasks,
                      w.kind # "clear", ~missed, frames = {}
               PROVE  Accepts(book, w)
    OBVIOUS
  <2>1. TypeOK /\ onchainSeq = book.seq /\ book.seq \in Nat
    BY DEF OperatorInv, OperatorTypeOK, TypeOK, Books, SeenInv, CatchesUp
  <2>2. Next
    BY DEF OperatorNext, BotRuns, WriteUnauthorised, Gives, Submits, Confirms, AttemptFails,
       OrderLands, OrderRefused, OrderLost, vars, txVars
  <2>3. w.first = Synced + 1
    BY <2>1, <2>2, NewTask
  <2>4. onchainSeq <= Synced /\ Synced <= onchainSeq + MaxLead /\ Synced \in Nat
    BY <2>1, SyncedBounds, EngineAssumption DEF Synced, Drifted, TypeOK
  <2> QED
    BY <2>1, <2>3, <2>4, EngineAssumption, ProgramAssumption DEF Accepts
<1> QED
  BY <1>1, OperatorCorrect, SeenCorrect, PTL DEF OperatorSpec, QuotesFitCaughtUpBook
-----------------------------------------------------------------------------
(***************************************************************************)
(* Why a command is refused.  The account's locked balances are those of   *)
(* the book at the mid they were settled at; that is enough for withdraw   *)
(* to see every resting quote, and for an order to fit the book it was     *)
(* built from.                                                             *)
(***************************************************************************)
SplitInv == split = SettledAt(split.mid)

Fits(o) ==
  /\ o.slot <= book.slot /\ o.seq <= book.seq + 1
  /\ o.slot = book.slot => AcceptsOrder(o)

RefusalInv ==
  /\ SplitInv
  /\ \A o \in onWay : Fits(o)
  /\ step \in {"sending", "confirming"} => Fits(order)

\* With nothing resting, nothing is locked, before settling or after.
LEMMA NothingLocked ==
  ASSUME TypeOK, split \in Splits, SplitInv, ~HasResting
  PROVE  split.base = 0 /\ split.quote = 0 /\ ProjectedLocked = 0
<1> DEFINE b == [book EXCEPT !.mid = split.mid]
<1>1. book \in Books /\ b \in Books /\ split.mid \in Nat
  BY SettledType DEF TypeOK, Splits
<1>2. Demand(book) \in Funds /\ Demand(b) \in Funds /\ book.inv \in Funds
  BY <1>1, DemandType, OperatorAssumption DEF Books
<1>3. split.base = 0 /\ ProjectedLocked = 0
  <2>1. ProjectedLocked \in Nat /\ split.base \in Nat
    BY <1>2 DEF ProjectedLocked, Splits, Funds
  <2> QED
    BY <2>1 DEF HasResting
<1>4. split.quote = Smaller(Demand(b).quote, book.inv.quote)
  <2>1. b.inv = book.inv
    BY <1>1 DEF Books
  <2> QED
    BY <2>1 DEF SplitInv, SettledAt, SplitOf
<1>5. CASE ~Fundable
  BY <1>3, <1>5 DEF ProjectedLocked
<1>6. CASE Fundable
  <2>1. Demand(book).quote = 0
    BY <1>3, <1>6 DEF ProjectedLocked
  <2>2. Demand(b).quote = 0
    <3>1. b.levels = book.levels /\ b.mid = split.mid
      BY <1>1 DEF Books
    <3>2. CASE split.mid = book.mid
      <4>1. b = book
        BY <1>1, <3>2 DEF Books
      <4> QED
        BY <2>1, <4>1
    <3>3. CASE split.mid = 0
      <4>1. CASE book.levels = NoLevels
        BY <3>1, <4>1 DEF Demand, Nothing
      <4>2. CASE book.levels # NoLevels /\ book.levels.anchor # 0
        <5>1. BidPrice(b) = BidPrice(book)
          BY <3>1, <4>2 DEF BidPrice
        <5> QED
          BY <2>1, <3>1, <4>2, <5>1 DEF Demand
      <4>3. CASE book.levels # NoLevels /\ book.levels.anchor = 0
        <5>1. BidPrice(b) = 0
          BY <3>1, <3>3, <4>3 DEF BidPrice
        <5>2. SizeLots[book.levels.sizes].bids \in Nat
          BY <1>1, <4>3, OperatorAssumption DEF Books, Levels
        <5>3. (SizeLots[book.levels.sizes].bids * 0) \div QuoteUnit = 0
          BY <5>2, OperatorAssumption
        <5> QED
          BY <3>1, <4>3, <5>1, <5>3 DEF Demand
      <4> QED
        BY <4>1, <4>2, <4>3
    <3> QED
      BY <3>2, <3>3 DEF HasResting, PendingReprice
  <2> QED
    BY <1>2, <1>3, <1>4, <2>2 DEF Smaller, Funds
<1> QED
  BY <1>3, <1>5, <1>6

\* An order fits the book it is built from.
LEMMA OrderFits ==
  ASSUME TypeOK, split \in Splits, SplitInv, NEW kind \in Commands, NEW n, NEW m
  PROVE  Fits(Order(kind, n, m))
<1> DEFINE o == Order(kind, n, m)
<1>1. book.inv \in Funds /\ book.seq \in Nat /\ book.slot \in Nat
  BY OperatorAssumption DEF TypeOK, Books
<1>2. o.slot = book.slot /\ o.seq = book.seq + 1 /\ o.kind = kind
      /\ o.clear = (kind = "kill" \/ (kind = "withdraw" /\ HasResting))
      /\ (kind = "withdraw" => o.take = book.inv)
  BY TakesAll DEF Order, NextNumber
<1>3. Accepts(book, [first |-> book.seq + 1])
  BY <1>1, ProgramAssumption DEF Accepts
<1>4. Covers(book.inv, book.inv)
  BY <1>1 DEF Covers, Funds
<1>5. ~HasResting => Covers(FreeFunds, book.inv)
  BY <1>1, NothingLocked DEF Covers, FreeFunds, Larger, Funds
<1>6. AcceptsOrder(o)
  BY <1>2, <1>3, <1>4, <1>5 DEF AcceptsOrder
<1> QED
  BY <1>1, <1>2, <1>6 DEF Fits

\* A step leaves account and balances alone or makes another slot, with
\* balances settled or merely a mid moved.
LEMMA BookStep ==
  ASSUME OperatorInv, SeenInv, [OperatorNext]_allVars
  PROVE  \/ UNCHANGED <<book, split>>
         \/ /\ book'.slot = book.slot + 1 /\ book'.seq \in Nat /\ book.seq <= book'.seq
            /\ \/ split' = SplitOf(book') /\ book' \in Books
               \/ /\ UNCHANGED split /\ book' \in Books
                  /\ book'.levels = book.levels /\ book'.inv = book.inv
<1> USE DEF OperatorInv, OperatorTypeOK
<1>1. CASE BotRuns
  <2>1. TypeOK' /\ Next
    BY <1>1, TypeStep DEF BotRuns
  <2>2. UNCHANGED book \/ book'.slot = book.slot + 1
    BY <2>1, SlotStep
  <2>3. (book'.seq \in Nat /\ book.seq <= book'.seq) \/ UNCHANGED book
    BY <2>1, SeqGrows DEF SeenInv
  <2>4. CASE MidLands
    <3>1. PICK w \in flight : w.kind = "mid" /\ WriteLands(w)
      BY <2>4 DEF MidLands
    <3>2. w \in Writes /\ book \in Books
      BY DEF TypeOK
    <3>3. book'.levels = book.levels /\ book'.inv = book.inv
      BY <3>1, <3>2 DEF WriteLands, Lands, Execute, Books
    <3> QED
      BY <1>1, <2>1, <2>2, <2>3, <2>4, <3>3 DEF BotRuns, Resettles, TypeOK
  <2>5. CASE ~MidLands
    BY <1>1, <2>1, <2>2, <2>3, <2>5 DEF BotRuns, Resettles, TypeOK
  <2> QED
    BY <2>4, <2>5
<1>2. ASSUME NEW o \in onWay, OrderLands(o)
      PROVE  /\ book'.slot = book.slot + 1 /\ book'.seq \in Nat /\ book.seq <= book'.seq
             /\ split' = SplitOf(book') /\ book' \in Books
  <2>1. TypeOK'
    BY <1>2, LandsKeeps
  <2>2. book \in Books /\ o.seq \in Nat /\ (o.clear => book.seq < o.seq)
    BY <1>2 DEF OrderLands, AcceptsOrder, Accepts, TypeOK, Orders
  <2>3. book'.slot = book.slot + 1 /\ book'.seq = IF o.clear THEN o.seq ELSE book.seq
    BY <1>2, <2>2 DEF OrderLands, Books
  <2>4. split' = SplitOf(book')
    BY <1>2 DEF OrderLands
  <2>5. book.seq \in Nat /\ book' \in Books
    BY <2>1, <2>2 DEF TypeOK, Books
  <2> QED
    BY <2>2, <2>3, <2>4, <2>5
<1>3. (UNCHANGED <<book, split>>) \/ BotRuns \/ \E o \in onWay : OrderLands(o)
  BY DEF OperatorNext, WriteUnauthorised, Gives, Submits, Confirms, AttemptFails, OrderRefused,
     OrderLost, allVars, opVars, vars, programVars
<1> QED
  BY <1>1, <1>2, <1>3

LEMMA SplitStep ==
  ASSUME OperatorInv, SeenInv, SplitInv, [OperatorNext]_allVars
  PROVE  SplitInv'
<1>1. book \in Books /\ split \in Splits
  BY DEF OperatorInv, OperatorTypeOK, TypeOK
<1>2. CASE UNCHANGED <<book, split>>
  BY <1>2 DEF SplitInv, SettledAt, SplitOf, Demand, BidPrice
<1>3. CASE split' = SplitOf(book') /\ book' \in Books
  <2>1. split'.mid = book'.mid
    BY <1>3 DEF SplitOf
  <2>2. [book' EXCEPT !.mid = book'.mid] = book'
    BY <1>3 DEF Books
  <2> QED
    BY <1>3, <2>1, <2>2 DEF SplitInv, SettledAt
<1>4. CASE UNCHANGED split /\ book' \in Books /\ book'.levels = book.levels /\ book'.inv = book.inv
  <2> DEFINE b == [book EXCEPT !.mid = split.mid]
             c == [book' EXCEPT !.mid = split.mid]
  <2>1. b.mid = c.mid /\ b.levels = c.levels /\ b.inv = c.inv
    BY <1>1, <1>4 DEF Books
  <2>2. SplitOf(b) = SplitOf(c)
    BY <2>1 DEF SplitOf, Demand, BidPrice
  <2> QED
    BY <1>4, <2>2 DEF SplitInv, SettledAt
<1> QED
  BY <1>2, <1>3, <1>4, BookStep

LEMMA RefusalStep ==
  ASSUME OperatorInv, SeenInv, RefusalInv, [OperatorNext]_allVars
  PROVE  RefusalInv'
<1>1. SplitInv'
  BY SplitStep DEF RefusalInv
<1>2. ASSUME NEW o \in Orders, Fits(o) PROVE Fits(o)'
  <2>1. CASE UNCHANGED <<book, split>>
    BY <1>2, <2>1 DEF Fits, AcceptsOrder, Accepts, FreeFunds, ProjectedLocked, Fundable, Demand, BidPrice
  <2>2. CASE book'.slot = book.slot + 1 /\ book'.seq \in Nat /\ book.seq <= book'.seq
    <3>1. /\ o.slot \in Nat /\ o.seq \in Nat /\ book.slot \in Nat /\ book.seq \in Nat
          /\ o.slot <= book.slot /\ o.seq <= book.seq + 1
      BY <1>2 DEF Fits, Orders, OperatorInv, OperatorTypeOK, TypeOK, Books
    <3> QED
      BY <2>2, <3>1 DEF Fits
  <2> QED
    BY <2>1, <2>2, BookStep
<1>3. order \in Orders /\ onWay \subseteq Orders
  BY DEF OperatorInv, OperatorTypeOK
<1>4. ASSUME NEW o \in onWay' PROVE Fits(o)'
  <2>1. o \in onWay \/ (Submits /\ o = order)
    <3>1. CASE Submits
      BY <3>1, <1>4 DEF Submits
    <3>2. ASSUME NEW p \in onWay, OrderLands(p) \/ OrderRefused(p) \/ OrderLost(p)
          PROVE  onWay' \subseteq onWay
      BY <3>2 DEF OrderLands, OrderRefused, OrderLost
    <3>3. CASE BotRuns \/ UNCHANGED allVars
      BY <3>3, <1>4 DEF BotRuns, commandVars, allVars, opVars
    <3>4. CASE Confirms \/ AttemptFails \/ \E kind \in Commands : Gives(kind)
      BY <3>4, <1>4 DEF Confirms, AttemptFails, Gives
    <3>5. CASE \E w \in flight : WriteUnauthorised(w)
      BY <3>5, <1>4 DEF WriteUnauthorised, opVars, commandVars
    <3> QED
      BY <1>4, <3>1, <3>2, <3>3, <3>4, <3>5 DEF OperatorNext
  <2>2. CASE o \in onWay
    BY <1>2, <1>3, <2>2 DEF RefusalInv
  <2>3. CASE Submits /\ o = order
    BY <1>2, <1>3, <2>3 DEF RefusalInv, Submits
  <2> QED
    BY <2>1, <2>2, <2>3
<1>5. ASSUME step' \in {"sending", "confirming"} PROVE Fits(order)'
  <2>1. ASSUME NEW kind \in Commands, Gives(kind) PROVE Fits(order)'
    <3>1. PICK o : o = Order(kind, order.nth + 1, order.sig + 1)
      OBVIOUS
    <3>2. Fits(o)
      BY <3>1, OrderFits DEF OperatorInv, OperatorTypeOK, RefusalInv
    <3>3. order' = o /\ UNCHANGED <<book, split>>
      BY <2>1, <3>1 DEF Gives, vars, programVars
    <3> QED
      BY <3>2, <3>3 DEF Fits, AcceptsOrder, Accepts, FreeFunds, ProjectedLocked, Fundable, Demand, BidPrice
  <2>2. CASE UNCHANGED order /\ step \in {"sending", "confirming"}
    BY <1>2, <1>3, <2>2 DEF RefusalInv
  <2>3. (\E kind \in Commands : Gives(kind)) \/ (UNCHANGED order /\ step \in {"sending", "confirming"})
    BY <1>5 DEF OperatorNext, BotRuns, WriteUnauthorised, Submits, Confirms, AttemptFails,
       OrderLands, OrderRefused, OrderLost, allVars, opVars, commandVars
  <2> QED
    BY <2>1, <2>2, <2>3
<1> QED
  BY <1>1, <1>4, <1>5 DEF RefusalInv

LEMMA RefusalStart == OperatorInit => RefusalInv
<1> SUFFICES ASSUME OperatorInit PROVE RefusalInv
  OBVIOUS
<1>1. TypeOK
  BY TypeInit DEF OperatorInit
<1>2. PICK m \in EarlierMids : split = SettledAt(m)
  BY DEF OperatorInit
<1>3. split.mid = m
  <2>1. m \in Nat /\ book \in Books
    BY <1>1, PriceScaleAssumption DEF EarlierMids, TypeOK, Books
  <2> QED
    BY <1>2, <2>1 DEF SettledAt, SplitOf, Books
<1> QED
  BY <1>2, <1>3 DEF OperatorInit, RefusalInv, SplitInv

\* Only a refusal makes a signature known without an effect.
LEMMA RefusedFor ==
  ASSUME OperatorInv, RefusalInv, [OperatorNext]_allVars, NEW o \in onWay,
         o.sig \in processed', executed' = executed
  PROVE  Overtaken(o)
<1>1. PICK p \in onWay : p.sig = o.sig /\ ~AcceptsOrder(p)
  <2>1. o.sig \notin processed
    BY DEF OperatorInv, OrdersInv
  <2>2. ASSUME NEW p \in onWay, OrderLands(p) PROVE FALSE
    BY <2>2, AppendStep DEF OrderLands, OperatorInv, OperatorTypeOK
  <2>3. ASSUME NEW p \in onWay, OrderRefused(p)
        PROVE  p.sig = o.sig /\ ~AcceptsOrder(p)
    BY <2>1, <2>3 DEF OrderRefused
  <2>4. CASE UNCHANGED processed
    BY <2>1, <2>4
  <2>5. CASE \E p \in onWay : OrderRefused(p)
    BY <2>3, <2>5
  <2>6. (\E p \in onWay : OrderRefused(p)) \/ UNCHANGED processed
    BY <2>2 DEF OperatorNext, BotRuns, WriteUnauthorised, Gives, Submits, Confirms, AttemptFails,
       OrderLost, allVars, opVars, commandVars
  <2> QED
    BY <2>4, <2>5, <2>6
<1>2. p = o /\ Fits(o) /\ ~AcceptsOrder(o)
  BY <1>1 DEF OperatorInv, OrdersInv, RefusalInv
<1>3. ASSUME o.clear, book.seq < o.seq PROVE ~Covers(book.inv, o.take)
  <2>1. book.seq \in Nat /\ o.seq \in Nat
    BY DEF OperatorInv, OperatorTypeOK, TypeOK, Books, Orders
  <2>2. Accepts(book, [first |-> o.seq])
    BY <1>2, <1>3, <2>1, ProgramAssumption DEF Accepts, Fits
  <2> QED
    BY <1>2, <1>3, <2>2 DEF AcceptsOrder
<1>4. book.seq \in Nat /\ o.seq \in Nat
  BY DEF OperatorInv, OperatorTypeOK, TypeOK, Books, Orders
<1> QED
  BY <1>2, <1>3, <1>4 DEF Fits, Overtaken

(***************************************************************************)
(* The program refuses a command only if the book has changed since the    *)
(* command fetched it, a ClearBook only for its number or the funds:       *)
(* has_resting sees every quote that locks something, also while a reprice *)
(* is pending.                                                             *)
(***************************************************************************)
THEOREM RefusalCorrect == OperatorSpec => RefusedOnlyIfOvertaken
<1>1. OperatorSpec => []RefusalInv
  <2>1. OperatorInv /\ SeenInv /\ RefusalInv /\ [OperatorNext]_allVars => RefusalInv'
    BY RefusalStep
  <2> QED
    BY <2>1, RefusalStart, OperatorCorrect, SeenCorrect, PTL DEF OperatorSpec
<1>2. OperatorInv /\ RefusalInv /\ [OperatorNext]_allVars =>
        [\A o \in onWay : o.sig \in processed' /\ executed' = executed => Overtaken(o)]_allVars
  BY RefusedFor
<1> QED
  BY <1>1, <1>2, OperatorCorrect, PTL DEF OperatorSpec, RefusedOnlyIfOvertaken
=============================================================================
