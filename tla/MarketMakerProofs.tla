-------------------------- MODULE MarketMakerProofs --------------------------
(***************************************************************************)
(* The sequence numbers of MarketMaker, proved for every value of the      *)
(* constants.  TypeOK is inductive.  The ordering properties rest on       *)
(* SeqInv: it adds what the engine's counter knows of the writes that are  *)
(* still on their way, and splits them by era, within which the counter    *)
(* only grows.                                                             *)
(***************************************************************************)
EXTENDS MarketMakerProperties, TLAPS

\* What every write on its way has from the decision that made it.
Made(w) ==
  /\ w.first <= w.last
  /\ w.nth <= decided
  /\ w.era <= era
  /\ w.era = era => w.last <= localSeq

\* Decisions of one era use disjoint, growing sequence numbers.
InOrder(w, u) ==
  /\ w.era = u.era /\ w.nth < u.nth => w.last < u.first
  /\ w.nth = u.nth => w = u

\* Where w lies with respect to the last write that executed.
Placed(w) ==
  /\ w.nth # applied.nth
  /\ w.era = applied.era =>
       /\ w.nth < applied.nth => w.last <= book.seq
       /\ applied.nth < w.nth => book.seq < w.first

WithinLead(w) == w.kind # "clear" => w.first <= book.seq + MaxLead + 1

AppliedBehind ==
  /\ applied.nth <= decided
  /\ applied.era <= era
  /\ applied.era = era => book.seq <= localSeq

\* The engine's view of the sequence number is never ahead of the book.
ViewBehind ==
  /\ onchainSeq <= book.seq
  /\ \A f \in frames : f.seq <= book.seq

SeqInv ==
  /\ \A w \in Live : Made(w) /\ Placed(w) /\ WithinLead(w)
  /\ \A w, u \in Live : InOrder(w, u)
  /\ tasks \cap flight = {}
  /\ AppliedBehind
  /\ ViewBehind
-----------------------------------------------------------------------------
(***************************************************************************)
(* Types.                                                                  *)
(***************************************************************************)

LEMMA TargetType ==
  ASSUME NEW r \in Readings
  PROVE  Target(r) \in Levels /\ NewMid(r) \in Nat
  BY PriceScaleAssumption, QuotingAssumption DEF Readings, Target, Levels, Sizes, Anchor, NewMid

LEMMA ReadingType ==
  ASSUME TypeOK, price \in Prices
  PROVE  Reading \in Readings
<1>1. cachedMid \in Nat /\ lastSentMid \in Nat
  BY DEF TypeOK
<1>2. QED
  BY <1>1 DEF TypeOK, Reading, Readings

LEMMA SyncedType ==
  ASSUME TypeOK
  PROVE  Synced \in Nat /\ SyncedEra \in Nat
  BY DEF TypeOK, Synced, SyncedEra

LEMMA ClearType ==
  ASSUME TypeOK, NEW seq \in Nat, NEW e \in Nat
  PROVE  ClearTx(seq, e) \in Writes
  BY DEF TypeOK, ClearTx, Writes

LEMMA MidType ==
  ASSUME TypeOK, price \in Prices
  PROVE  MidTx \in Writes
  BY SyncedType, PriceScaleAssumption, QuotingAssumption DEF TypeOK, MidTx, Writes

LEMMA FullType ==
  ASSUME TypeOK, price \in Prices
  PROVE  /\ FullTx \in Writes
         /\ FullTx.first = Synced + 1
         /\ FullTx.last \in {Synced + 1, Synced + 2}
<1>1. Target(Reading) \in Levels /\ NewMid(Reading) \in Nat
  BY ReadingType, TargetType
<1>2. LastSequence(Reading, Synced + 1) \in {Synced + 1, Synced + 2}
  BY SyncedType DEF LastSequence
<1>3. QED
  BY <1>1, <1>2, SyncedType DEF TypeOK, FullTx, Writes

LEMMA ExecuteType ==
  ASSUME NEW b \in Books, NEW w \in Writes
  PROVE  /\ Execute(b, w) \in Books
         /\ Execute(b, w).seq = w.last
<1>1. /\ w.last \in Nat /\ w.mid \in Nat /\ w.levels \in Levels \cup {NoLevels}
      /\ b.slot + 1 \in Nat /\ b.mid \in Nat /\ b.levels \in Levels \cup {NoLevels}
  BY DEF Books, Writes
<1>2. /\ (IF MovesMid(w) THEN w.mid ELSE b.mid) \in Nat
      /\ (IF w.kind = "mid" THEN b.levels ELSE w.levels) \in Levels \cup {NoLevels}
  BY <1>1
<1>3. QED
  BY <1>1, <1>2 DEF Books, Execute

LEMMA InitialBookType ==
  ASSUME NEW b \in InitialBooks
  PROVE  b \in Books
<1>1. ASSUME NEW kind \in Kinds, NEW inv \in Inventories
      PROVE  EmptyBook(kind, inv) \in Books
  BY MarketMakerAssumption DEF EmptyBook, Books
<1>2. ASSUME NEW kind \in Kinds, NEW inv \in Inventories, NEW p \in Prices
      PROVE  QuotedBook(kind, inv, p) \in Books
  <2> DEFINE r == [price |-> p, inv |-> inv, vol |-> CalmVol, lo |-> kind = "LO"]
  <2>1. NewMid(r) \in Nat
    BY PriceScaleAssumption, QuotingAssumption DEF NewMid
  <2>2. Target(r) \in Levels
    BY PriceScaleAssumption, QuotingAssumption DEF Target, Levels, Sizes, Anchor
  <2>3. QED
    BY <1>1, <2>1, <2>2 DEF QuotedBook, EmptyBook, Books
<1>3. QED
  BY <1>1, <1>2 DEF InitialBooks

LEMMA TypeInit == Init => TypeOK
<1>1. SUFFICES ASSUME Init PROVE TypeOK
  OBVIOUS
<1>2. book \in Books
  BY <1>1, InitialBookType DEF Init
<1>3. cachedMid \in Nat /\ invSeen \in Inventories /\ onchainSeq \in Nat /\ localSeq \in Nat
  BY <1>1, <1>2 DEF Init, LoadBook, EngineInit, Books
<1>4. QED
  BY <1>1, <1>2, <1>3, PriceScaleAssumption, QuotingAssumption
  DEF Init, LoadBook, FeedInit, EngineInit, TypeOK, PCs, Frames

LEMMA SpendType ==
  ASSUME TypeOK, NEW event \in Events, Spend(event)
  PROVE  spent' \in [Events -> Nat]
  BY DEF TypeOK, Spend

\* Firing a well-typed write keeps the types of what it changes.
LEMMA SendsType ==
  ASSUME TypeOK, NEW w \in Writes, Sends(w)
  PROVE  /\ tasks' \subseteq Writes /\ failures' \in Nat
         /\ localSeq' \in Nat /\ decided' \in Nat /\ era' \in Nat
  BY DEF TypeOK, Sends, Fire, Writes

LEMMA SendsClearType ==
  ASSUME TypeOK, NEW w \in Writes, SendsClear(w)
  PROVE  /\ tasks' \subseteq Writes /\ failures' \in Nat
         /\ localSeq' \in Nat /\ decided' \in Nat /\ era' \in Nat
         /\ lastHash' = NoLevels /\ repeats' \in Nat
         /\ UNCHANGED <<lastSentMid, sentRecently>>
<1>1. Sends(w)
  BY DEF SendsClear
<1>2. QED
  BY <1>1, SendsType DEF TypeOK, SendsClear

LEMMA TypeQuotes == TypeOK /\ EngineQuotes => TypeOK'
<1>1. SUFFICES ASSUME TypeOK, EngineQuotes PROVE TypeOK'
  OBVIOUS
<1>2. UNCHANGED <<programVars, streamVars, feedVars, spent>>
  BY <1>1 DEF EngineQuotes
<1>3. price \in Prices /\ UNCHANGED controlVars
  BY <1>1 DEF TypeOK, EngineQuotes, EngineIdles, EngineReprices, EngineRequotes, EngineClears,
              EnginePullsStale, Steady, Selecting
<1>4. /\ tasks' \subseteq Writes /\ failures' \in Nat /\ localSeq' \in Nat
      /\ lastHash' \in Levels \cup {NoLevels} /\ lastSentMid' \in Nat
      /\ sentRecently' \in BOOLEAN
      /\ decided' \in Nat /\ era' \in Nat /\ repeats' \in Nat
  <2>1. CASE EngineIdles
    BY <1>1, <2>1, SyncedType DEF TypeOK, EngineIdles, txVars
  <2>2. CASE EngineReprices
    BY <1>1, <1>3, <2>2, MidType, SendsType, PriceScaleAssumption, QuotingAssumption DEF TypeOK, EngineReprices
  <2>3. CASE EngineRequotes
    BY <1>1, <1>3, <2>3, FullType, SendsType, ReadingType, TargetType DEF TypeOK, EngineRequotes
  <2>4. CASE EngineClears
    BY <1>1, <2>4, SyncedType, ClearType, SendsClearType DEF TypeOK, EngineClears
  <2>5. CASE EnginePullsStale
    <3>1. localSeq + 1 \in Nat /\ era \in Nat
      BY <1>1 DEF TypeOK
    <3>2. QED
      BY <1>1, <2>5, <3>1, ClearType, SendsClearType DEF TypeOK, EnginePullsStale
  <2>6. QED
    BY <1>1, <2>1, <2>2, <2>3, <2>4, <2>5 DEF EngineQuotes
<1>5. QED
  BY <1>1, <1>2, <1>3, <1>4
  DEF TypeOK, programVars, streamVars, viewVars, feedVars, controlVars

LEMMA TypeControl == TypeOK /\ EngineControl => TypeOK'
<1>1. SUFFICES ASSUME TypeOK, EngineControl PROVE TypeOK'
  OBVIOUS
<1>2. UNCHANGED <<programVars, streamVars, feedVars, spent>>
  BY <1>1 DEF EngineControl
<1>3. CASE EngineTrips
  <2>1. localSeq + 1 \in Nat /\ era \in Nat
    BY <1>1 DEF TypeOK
  <2>2. ClearTx(localSeq + 1, era) \in Writes
    BY <1>1, <2>1, ClearType
  <2>3. /\ tasks' \subseteq Writes /\ failures' \in Nat
        /\ localSeq' \in Nat /\ decided' \in Nat /\ era' \in Nat
        /\ lastHash' = NoLevels /\ repeats' \in Nat
        /\ UNCHANGED <<lastSentMid, sentRecently>>
    BY <1>1, <1>3, <2>2, SendsClearType DEF EngineTrips
  <2>4. pc' = "backoff" /\ UNCHANGED cancelled /\ price \in Prices
    BY <1>1, <1>3 DEF TypeOK, EngineTrips, Selecting
  <2>5. QED
    BY <1>1, <1>2, <2>3, <2>4
    DEF TypeOK, programVars, streamVars, viewVars, feedVars, PCs
<1>4. CASE PauseEnds \/ PauseCancelled \/ EngineReturns
  BY <1>1, <1>2, <1>4
  DEF TypeOK, PauseEnds, PauseCancelled, EngineReturns, programVars, streamVars, viewVars,
      feedVars, txVars, decisionVars, PCs
<1>5. CASE EngineCloses
  <2>1. ClearTx(localSeq + 1, era) \in Writes
    BY <1>1, ClearType DEF TypeOK
  <2>2. tasks' \subseteq Writes /\ localSeq' \in Nat /\ decided' \in Nat
    BY <1>1, <1>5, <2>1 DEF TypeOK, EngineCloses, Fire, Writes
  <2>3. QED
    BY <1>1, <1>2, <1>5, <2>2
    DEF TypeOK, EngineCloses, programVars, streamVars, viewVars, feedVars, PCs
<1>6. QED
  BY <1>1, <1>3, <1>4, <1>5 DEF EngineControl

LEMMA TypeWindow == TypeOK /\ WindowPasses => TypeOK'
  BY DEF TypeOK, WindowPasses, ResendWindowPasses, programVars, txVars, streamVars, viewVars,
         feedVars, controlVars

LEMMA PublishesType ==
  ASSUME TypeOK, NEW b \in Books, Publishes(b)
  PROVE  /\ frames' \subseteq Frames /\ missed' \in BOOLEAN
         /\ UNCHANGED <<subscribed, viewVars>>
<1>1. FrameOf(b) \in Frames
  BY DEF FrameOf, Frames, Books
<1>2. QED
  BY <1>1 DEF TypeOK, Publishes

LEMMA TypeNetwork == TypeOK /\ Network => TypeOK'
<1>1. SUFFICES ASSUME TypeOK, Network PROVE TypeOK'
  OBVIOUS
<1>2. ASSUME NEW w \in flight, WriteLands(w) PROVE TypeOK'
  <2>1. w \in Writes /\ book \in Books
    BY <1>1, <1>2 DEF TypeOK
  <2>2. book' \in Books /\ applied' \in [nth : Nat, era : Nat] /\ flight' \subseteq Writes
    BY <1>1, <1>2, <2>1, ExecuteType DEF TypeOK, WriteLands, Lands, Writes
  <2>3. /\ frames' \subseteq Frames /\ missed' \in BOOLEAN
        /\ UNCHANGED <<subscribed, viewVars>>
    BY <1>1, <1>2, <2>2, PublishesType DEF WriteLands
  <2>4. QED
    BY <1>1, <1>2, <2>2, <2>3
    DEF TypeOK, WriteLands, viewVars, txVars, feedVars, engineVars, controlVars, decisionVars
<1>3. ASSUME NEW w \in flight, WriteRefused(w) \/ WriteLost(w) PROVE TypeOK'
  <2>1. flight' \subseteq Writes /\ UNCHANGED <<book, applied>>
    BY <1>1, <1>3 DEF TypeOK, WriteRefused, Refused, WriteLost, Lost
  <2>2. spent' \in [Events -> Nat]
    BY <1>1, <1>3, SpendType DEF TypeOK, WriteRefused, WriteLost, Events
  <2>3. QED
    BY <1>1, <1>3, <2>1, <2>2
    DEF TypeOK, WriteRefused, WriteLost, streamVars, viewVars, txVars, feedVars, engineVars,
        controlVars, decisionVars
<1>4. CASE BalanceChanges
  <2>1. book' \in Books /\ UNCHANGED <<flight, applied>>
    <3>1. PICK inv \in Inventories : BalanceMoves(inv)
      BY <1>4 DEF BalanceChanges
    <3>2. book \in Books /\ book.slot + 1 \in Nat
      BY <1>1 DEF TypeOK, Books
    <3>3. QED
      BY <3>1, <3>2 DEF BalanceMoves, Books
  <2>2. /\ frames' \subseteq Frames /\ missed' \in BOOLEAN
        /\ UNCHANGED <<subscribed, viewVars>>
    BY <1>1, <1>4, <2>1, PublishesType DEF BalanceChanges
  <2>3. spent' \in [Events -> Nat]
    BY <1>1, <1>4, SpendType DEF BalanceChanges, Events
  <2>4. QED
    BY <1>1, <1>4, <2>1, <2>2, <2>3
    DEF TypeOK, BalanceChanges, viewVars, txVars, feedVars, engineVars, controlVars, decisionVars
<1>5. QED
  BY <1>1, <1>2, <1>3, <1>4 DEF Network

LEMMA TypeTasks == TypeOK /\ Tasks => TypeOK'
<1>1. SUFFICES ASSUME TypeOK, NEW w \in tasks,
                      TaskSucceeds(w) \/ TaskFails(w) \/ FinalClearTimesOut(w)
               PROVE  TypeOK'
  BY DEF Tasks
<1>2. tasks' \subseteq Writes /\ flight' \subseteq Writes /\ failures' \in Nat
  BY <1>1 DEF TypeOK, TaskSucceeds, SendAccepted, TaskFails, SendFailed, FinalClearTimesOut,
              CloseTimesOut, SendAbandoned
<1>3. spent' \in [Events -> Nat]
  BY <1>1, SpendType DEF TypeOK, TaskSucceeds, TaskFails, FinalClearTimesOut, Events
<1>4. QED
  BY <1>1, <1>2, <1>3
  DEF TypeOK, TaskSucceeds, TaskFails, FinalClearTimesOut, CloseTimesOut, streamVars, viewVars,
      feedVars, engineVars, controlVars, decisionVars, PCs

LEMMA TypeInputs == TypeOK /\ Inputs => TypeOK'
<1>1. SUFFICES ASSUME TypeOK, Inputs PROVE TypeOK'
  OBVIOUS
<1>2. CASE PriceTicks
  <2>1. price' \in Prices /\ vol' \in Vols /\ fresh' \in BOOLEAN
    BY <1>2 DEF PriceTicks, Tick
  <2>2. spent' \in [Events -> Nat]
    BY <1>1, <1>2, SpendType DEF PriceTicks, Events
  <2>3. QED
    BY <1>1, <1>2, <2>1, <2>2
    DEF TypeOK, PriceTicks, programVars, txVars, streamVars, viewVars, engineVars, controlVars,
        decisionVars
<1>3. CASE PriceGoesStale
  <2>1. spent' \in [Events -> Nat]
    BY <1>1, <1>3, SpendType DEF PriceGoesStale, Events
  <2>2. QED
    BY <1>1, <1>3, <2>1
    DEF TypeOK, PriceGoesStale, GoesStale, programVars, txVars, streamVars, viewVars, engineVars,
        controlVars, decisionVars
<1>4. ASSUME NEW f \in frames, AccountArrives(f) PROVE TypeOK'
  <2>1. /\ cachedMid' \in Nat /\ invSeen' \in Inventories /\ onchainSeq' \in Nat
        /\ frames' \subseteq Frames /\ UNCHANGED <<subscribed, missed>>
    BY <1>1, <1>4 DEF TypeOK, AccountArrives, HandleAccount, Frames
  <2>2. QED
    BY <1>1, <1>4, <2>1
    DEF TypeOK, AccountArrives, programVars, txVars, feedVars, engineVars, controlVars,
        decisionVars
<1>5. CASE SubscriptionDrops \/ SubscriptionReturns \/ \E f \in frames : AccountUnreadable(f)
  <2>1. spent' \in [Events -> Nat]
    BY <1>1, <1>5, SpendType
    DEF TypeOK, AccountUnreadable, SubscriptionDrops, SubscriptionReturns, Events
  <2>2. /\ subscribed' \in BOOLEAN /\ frames' \subseteq Frames /\ missed' \in BOOLEAN
        /\ UNCHANGED viewVars
    BY <1>1, <1>5
    DEF TypeOK, AccountUnreadable, SkipsFrame, SubscriptionDrops, SubscriptionReturns, StreamDrops,
        Resubscribes, Frames
  <2>3. QED
    BY <1>1, <1>5, <2>1, <2>2
    DEF TypeOK, AccountUnreadable, SubscriptionDrops, SubscriptionReturns, programVars, txVars, viewVars, feedVars,
        engineVars, controlVars, decisionVars
<1>6. QED
  BY <1>1, <1>2, <1>3, <1>4, <1>5 DEF Inputs

LEMMA TypeLifecycle == TypeOK /\ Lifecycle => TypeOK'
<1>1. SUFFICES ASSUME TypeOK, Lifecycle PROVE TypeOK'
  OBVIOUS
<1>2. CASE StartEngine
  BY <1>1, <1>2
  DEF TypeOK, StartEngine, PCs, programVars, txVars, streamVars, viewVars, feedVars, decisionVars
<1>3. CASE Exit
  BY <1>1, <1>3
  DEF TypeOK, Exit, PCs, Writes, programVars, streamVars, viewVars, feedVars, decisionVars
<1>4. CASE StartTimesOut
  BY <1>1, <1>4
  DEF TypeOK, StartTimesOut, StreamEnds, PCs, Frames, programVars, txVars, viewVars, feedVars,
      decisionVars
<1>5. CASE CtrlC
  <2>1. spent' \in [Events -> Nat]
    BY <1>1, <1>5, SpendType DEF CtrlC, Events
  <2>2. QED
    BY <1>1, <1>5, <2>1
    DEF TypeOK, CtrlC, StreamEnds, Frames, programVars, txVars, viewVars, feedVars, decisionVars
<1>6. CASE Crash
  <2>1. spent' \in [Events -> Nat]
    BY <1>1, <1>6, SpendType DEF Crash, Events
  <2>2. QED
    BY <1>1, <1>6, <2>1
    DEF TypeOK, Crash, StreamEnds, Frames, PCs, Writes, programVars, viewVars, feedVars,
        decisionVars
<1>7. CASE Restart
  <2>1. spent' \in [Events -> Nat]
    BY <1>1, <1>7, SpendType DEF Restart, Events
  <2>2. book.mid \in Nat /\ book.inv \in Inventories /\ book.seq \in Nat
    BY <1>1 DEF TypeOK, Books
  <2>3. /\ cachedMid' \in Nat /\ invSeen' \in Inventories /\ onchainSeq' \in Nat
        /\ localSeq' \in Nat /\ frames' \subseteq Frames /\ vol' \in Vols
    BY <1>7, <2>2, PriceScaleAssumption, QuotingAssumption DEF Restart
  <2>4. /\ era' \in Nat /\ lastHash' \in Levels \cup {NoLevels} /\ lastSentMid' \in Nat
        /\ repeats' \in Nat /\ failures' \in Nat /\ price' \in Prices \cup {0}
    BY <1>1, <1>7 DEF TypeOK, Restart
  <2>5. /\ pc' \in PCs /\ pc' = "starting" /\ cancelled' \in BOOLEAN /\ fresh' \in BOOLEAN
        /\ subscribed' \in BOOLEAN /\ missed' \in BOOLEAN /\ sentRecently' \in BOOLEAN
        /\ UNCHANGED <<book, flight, applied, tasks, decided>>
    BY <1>7 DEF Restart, PCs, programVars
  <2>6. QED
    BY <1>1, <2>1, <2>3, <2>4, <2>5 DEF TypeOK
<1>8. QED
  BY <1>1, <1>2, <1>3, <1>4, <1>5, <1>6, <1>7 DEF Lifecycle

LEMMA TypeStep == TypeOK /\ [Next]_vars => TypeOK'
<1>1. TypeOK /\ UNCHANGED vars => TypeOK'
  BY DEF TypeOK, vars, programVars, txVars, streamVars, feedVars, engineVars, controlVars,
         decisionVars
<1>2. QED
  BY <1>1, TypeQuotes, TypeControl, TypeWindow, TypeNetwork, TypeTasks, TypeInputs,
     TypeLifecycle DEF Next

(***************************************************************************)
(* Every component keeps its variables within their types, and the engine  *)
(* never quotes before a price has arrived.                                *)
(***************************************************************************)
THEOREM TypeCorrect == Spec => []TypeOK
  BY TypeInit, TypeStep, PTL DEF Spec
-----------------------------------------------------------------------------
(***************************************************************************)
(* The sequence numbers.  Three lemmas say what a step does to the writes  *)
(* on their way: none is added, one is fired, one executes.                *)
(***************************************************************************)

LEMMA LiveType == TypeOK => Live \subseteq Writes
  BY DEF TypeOK, Live

LEMMA SeqShrinks ==
  ASSUME TypeOK, SeqInv,
         Live' \subseteq Live, tasks' \cap flight' = {},
         book'.seq = book.seq, UNCHANGED <<applied, decided>>,
         era' \in Nat, era <= era',
         localSeq' \in Nat, era' = era => localSeq <= localSeq',
         ViewBehind'
  PROVE  SeqInv'
<1>1. ASSUME NEW w \in Live' PROVE Made(w)' /\ Placed(w)' /\ WithinLead(w)'
  <2>1. w \in Live /\ w \in Writes /\ era \in Nat /\ localSeq \in Nat
    BY <1>1, LiveType DEF TypeOK
  <2>2. Made(w) /\ Placed(w) /\ WithinLead(w)
    BY <2>1 DEF SeqInv
  <2>3. QED
    BY <2>1, <2>2 DEF Made, Placed, WithinLead, Writes
<1>2. ASSUME NEW w \in Live', NEW u \in Live' PROVE InOrder(w, u)
  BY <1>2 DEF SeqInv
<1>3. AppliedBehind'
  BY DEF SeqInv, AppliedBehind, TypeOK, Books
<1>4. QED
  BY <1>1, <1>2, <1>3 DEF SeqInv, InOrder

LEMMA SeqFires ==
  ASSUME TypeOK, SeqInv,
         NEW x \in Writes,
         tasks' = tasks \cup {x},
         UNCHANGED <<flight, book, applied, onchainSeq, frames>>,
         localSeq' = x.last, decided' = x.nth, era' = x.era,
         x.nth = decided + 1, x.first <= x.last, era <= x.era,
         x.era = era => localSeq < x.first,
         WithinLead(x)
  PROVE  SeqInv'
<1>1. /\ Live' = Live \cup {x} /\ Live \subseteq Writes
      /\ era \in Nat /\ decided \in Nat /\ localSeq \in Nat /\ book.seq \in Nat
      /\ applied.nth \in Nat /\ applied.era \in Nat
  BY LiveType DEF Live, TypeOK, Books
<1>2. ASSUME NEW w \in Live PROVE Made(w)' /\ Placed(w)' /\ WithinLead(w)'
  <2>1. w \in Writes /\ Made(w) /\ Placed(w) /\ WithinLead(w)
    BY <1>1, <1>2 DEF SeqInv
  <2>2. QED
    BY <1>1, <2>1 DEF Made, Placed, WithinLead, Writes
<1>3. Made(x)' /\ Placed(x)' /\ WithinLead(x)'
  <2>1. AppliedBehind
    BY DEF SeqInv
  <2>2. QED
    BY <1>1, <2>1 DEF Made, Placed, WithinLead, Writes, AppliedBehind
<1>4. ASSUME NEW w \in Live PROVE InOrder(w, x) /\ InOrder(x, w)
  <2>1. w \in Writes /\ Made(w)
    BY <1>1, <1>4 DEF SeqInv
  <2>2. QED
    BY <1>1, <2>1 DEF Made, InOrder, Writes
<1>5. AppliedBehind'
  BY <1>1 DEF SeqInv, AppliedBehind, Writes
<1>6. ViewBehind'
  BY DEF SeqInv, ViewBehind
<1>7. InOrder(x, x)
  BY <1>1 DEF InOrder, Writes
<1>8. ASSUME NEW w \in Live', NEW u \in Live' PROVE InOrder(w, u)
  BY <1>1, <1>4, <1>7, <1>8 DEF SeqInv
<1>9. tasks' \cap flight' = {}
  <2>1. x \notin Live
    BY <1>1 DEF SeqInv, Made, Writes
  <2>2. QED
    BY <2>1 DEF SeqInv, Live
<1>10. QED
  BY <1>1, <1>2, <1>3, <1>5, <1>6, <1>8, <1>9 DEF SeqInv, InOrder

LEMMA SeqLands ==
  ASSUME TypeOK, SeqInv, NEW w \in flight, Lands(w), Publishes(book'),
         UNCHANGED <<tasks, localSeq, decided, era>>
  PROVE  SeqInv'
<1>1. /\ w \in Live /\ w \in Writes /\ Live \subseteq Writes /\ Live' \subseteq Live
      /\ book'.seq = w.last /\ book.seq < w.first
      /\ applied' = [nth |-> w.nth, era |-> w.era]
      /\ era \in Nat /\ localSeq \in Nat /\ book.seq \in Nat
  <2>1. w \in Writes /\ book \in Books
    BY DEF TypeOK
  <2>2. QED
    BY <2>1, ExecuteType, LiveType DEF Live, Lands, Accepts, TypeOK, Books
<1>2. w \notin Live' /\ tasks' \cap flight' = {}
  BY DEF SeqInv, Live, Lands
<1>3. ASSUME NEW u \in Live' PROVE Made(u)' /\ Placed(u)' /\ WithinLead(u)'
  <2>1. u \in Live /\ u \in Writes /\ u # w
    BY <1>1, <1>2, <1>3
  <2>2. /\ Made(u) /\ Placed(u) /\ WithinLead(u) /\ Made(w)
        /\ InOrder(u, w) /\ InOrder(w, u)
    BY <1>1, <2>1 DEF SeqInv
  <2>3. Made(u)'
    BY <2>2 DEF Made
  <2>4. Placed(u)'
    BY <1>1, <2>1, <2>2 DEF Placed, InOrder, Made, Writes
  <2>5. WithinLead(u)'
    BY <1>1, <2>1, <2>2, EngineAssumption DEF WithinLead, Made, Writes
  <2>6. QED
    BY <2>3, <2>4, <2>5
<1>4. ASSUME NEW u \in Live', NEW v \in Live' PROVE InOrder(u, v)
  BY <1>1, <1>4 DEF SeqInv
<1>5. AppliedBehind'
  BY <1>1 DEF SeqInv, Made, AppliedBehind, Writes
<1>6. ViewBehind'
  <2>1. ASSUME NEW f \in frames' PROVE f.seq <= book'.seq
    <3>1. CASE f \in frames
      <4>1. f.seq \in Nat /\ f.seq <= book.seq
        BY <3>1 DEF TypeOK, Frames, SeqInv, ViewBehind
      <4>2. QED
        BY <1>1, <4>1 DEF SeqInv, Made, Writes
    <3>2. CASE f \notin frames
      <4>1. f = FrameOf(book')
        BY <2>1, <3>2 DEF Publishes
      <4>2. QED
        BY <1>1, <4>1 DEF FrameOf, Writes
    <3>3. QED
      BY <3>1, <3>2
  <2>2. onchainSeq' <= book'.seq
    BY <1>1 DEF SeqInv, ViewBehind, Publishes, viewVars, Made, Writes, TypeOK
  <2>3. QED
    BY <2>1, <2>2 DEF ViewBehind
<1>7. QED
  BY <1>2, <1>3, <1>4, <1>5, <1>6 DEF SeqInv, InOrder

LEMMA SeqInit == Init => SeqInv
<1>1. SUFFICES ASSUME Init PROVE SeqInv
  OBVIOUS
<1>2. Live = {} /\ tasks \cap flight = {} /\ frames = {}
  BY <1>1 DEF Init, Live, LoadBook
<1>3. onchainSeq = book.seq /\ book.seq \in Nat
  BY <1>1, TypeInit DEF Init, LoadBook, TypeOK, Books
<1>4. AppliedBehind
  BY <1>1 DEF Init, AppliedBehind
<1>5. QED
  BY <1>2, <1>3, <1>4 DEF SeqInv, ViewBehind

\* A reset of the counter opens a new era; otherwise it never moves back.
LEMMA SyncedBounds ==
  ASSUME TypeOK
  PROVE  /\ Synced \in Nat /\ SyncedEra \in {era, era + 1}
         /\ SyncedEra = era => localSeq <= Synced
         /\ Synced <= onchainSeq + MaxLead
  BY EngineAssumption DEF TypeOK, Synced, SyncedEra, Drifted

LEMMA SeqQuotes == TypeOK /\ SeqInv /\ EngineQuotes => SeqInv'
<1>1. SUFFICES ASSUME TypeOK, SeqInv, EngineQuotes PROVE SeqInv'
  OBVIOUS
<1>2. /\ UNCHANGED <<book, flight, applied, onchainSeq, frames>>
      /\ era \in Nat /\ localSeq \in Nat /\ decided \in Nat
      /\ book.seq \in Nat /\ onchainSeq <= book.seq /\ onchainSeq \in Nat /\ MaxLead \in Nat
  BY <1>1, EngineAssumption
  DEF EngineQuotes, programVars, streamVars, TypeOK, Books, SeqInv, ViewBehind
<1>3. CASE EngineIdles
  <2>1. Live' = Live /\ tasks' \cap flight' = {} /\ decided' = decided
    BY <1>1, <1>2, <1>3 DEF EngineIdles, txVars, Live, SeqInv
  <2>2. /\ era' \in Nat /\ era <= era' /\ localSeq' \in Nat
        /\ era' = era => localSeq <= localSeq'
    BY <1>1, <1>2, <1>3, SyncedBounds DEF EngineIdles
  <2>3. ViewBehind'
    BY <1>1, <1>2 DEF SeqInv, ViewBehind
  <2>4. QED
    BY <1>1, <1>2, <2>1, <2>2, <2>3, SeqShrinks
<1>4. ASSUME NEW x \in Writes, Sends(x), x.nth = decided + 1,
             x.first = Synced + 1, x.first <= x.last, x.era = SyncedEra
      PROVE  SeqInv'
  <2>1. /\ tasks' = tasks \cup {x} /\ localSeq' = x.last /\ decided' = x.nth /\ era' = x.era
        /\ era <= x.era
        /\ x.era = era => localSeq < x.first
    BY <1>1, <1>2, <1>4, SyncedBounds DEF Sends, Fire
  <2>2. WithinLead(x)
    BY <1>1, <1>2, <1>4, SyncedBounds DEF WithinLead
  <2>3. QED
    BY <1>1, <1>2, <1>4, <2>1, <2>2, SeqFires
<1>5. CASE EngineReprices
  <2>1. price \in Prices /\ Sends(MidTx)
    BY <1>1, <1>5 DEF EngineReprices, Steady, Selecting, TypeOK
  <2>2. /\ MidTx.nth = decided + 1 /\ MidTx.first = Synced + 1 /\ MidTx.last = Synced + 1
        /\ MidTx.era = SyncedEra
    BY DEF MidTx
  <2>3. QED
    BY <1>1, <1>4, <2>1, <2>2, MidType, SyncedBounds
<1>6. CASE EngineRequotes
  <2>1. price \in Prices /\ Sends(FullTx)
    BY <1>1, <1>6 DEF EngineRequotes, Steady, Selecting, TypeOK
  <2>2. FullTx.nth = decided + 1 /\ FullTx.era = SyncedEra
    BY DEF FullTx
  <2>3. QED
    BY <1>1, <1>4, <2>1, <2>2, FullType, SyncedBounds
<1>7. CASE EngineClears
  <2> DEFINE x == ClearTx(Synced + 1, SyncedEra)
  <2>1. x \in Writes /\ Sends(x)
    BY <1>1, <1>7, SyncedType, ClearType DEF EngineClears, SendsClear
  <2>2. /\ x.nth = decided + 1 /\ x.first = Synced + 1 /\ x.last = Synced + 1
        /\ x.era = SyncedEra
    BY DEF ClearTx
  <2>3. x.first <= x.last
    BY <1>1, <2>2, SyncedBounds
  <2> HIDE DEF x
  <2>4. QED
    BY <1>4, <2>1, <2>2, <2>3
<1>8. CASE EnginePullsStale
  <2> DEFINE x == ClearTx(localSeq + 1, era)
  <2>1. x \in Writes /\ Sends(x)
    BY <1>1, <1>2, <1>8, ClearType DEF EnginePullsStale, SendsClear
  <2>2. /\ x.nth = decided + 1 /\ x.first = localSeq + 1 /\ x.last = localSeq + 1
        /\ x.era = era /\ x.kind = "clear"
    BY DEF ClearTx
  <2> HIDE DEF x
  <2>3. QED
    BY <1>1, <1>2, <2>1, <2>2, SeqFires DEF Sends, Fire, WithinLead
<1>9. QED
  BY <1>1, <1>3, <1>5, <1>6, <1>7, <1>8 DEF EngineQuotes

LEMMA SeqControl == TypeOK /\ SeqInv /\ EngineControl => SeqInv'
<1>1. SUFFICES ASSUME TypeOK, SeqInv, EngineControl PROVE SeqInv'
  OBVIOUS
<1>2. /\ UNCHANGED <<book, flight, applied, onchainSeq, frames>>
      /\ era \in Nat /\ localSeq \in Nat /\ decided \in Nat /\ book.seq \in Nat
      /\ ViewBehind'
  BY <1>1 DEF EngineControl, programVars, streamVars, TypeOK, Books, SeqInv, ViewBehind
<1>3. CASE EngineTrips \/ EngineCloses
  <2> DEFINE x == ClearTx(localSeq + 1, era)
  <2>1. /\ x \in Writes
        /\ tasks' = tasks \cup {x} /\ localSeq' = x.last /\ decided' = x.nth /\ era' = x.era
    <3>1. x \in Writes /\ x.era = era
      BY <1>1, <1>2, ClearType DEF ClearTx
    <3>2. QED
      BY <1>3, <3>1 DEF EngineTrips, EngineCloses, SendsClear, Sends, Fire
  <2>2. /\ x.nth = decided + 1 /\ x.first = localSeq + 1 /\ x.last = localSeq + 1
        /\ x.era = era /\ x.kind = "clear"
    BY DEF ClearTx
  <2> HIDE DEF x
  <2>3. QED
    BY <1>1, <1>2, <2>1, <2>2, SeqFires DEF WithinLead
<1>4. CASE PauseEnds \/ PauseCancelled \/ EngineReturns
  <2>1. UNCHANGED <<tasks, localSeq, decided, era>>
    BY <1>4 DEF PauseEnds, PauseCancelled, EngineReturns, txVars, decisionVars
  <2>2. Live' = Live /\ tasks' \cap flight' = {}
    BY <1>1, <1>2, <2>1 DEF Live, SeqInv
  <2>3. QED
    BY <1>1, <1>2, <2>1, <2>2, SeqShrinks
<1>5. QED
  BY <1>1, <1>3, <1>4 DEF EngineControl

LEMMA SeqNetwork == TypeOK /\ SeqInv /\ Network => SeqInv'
<1>1. SUFFICES ASSUME TypeOK, SeqInv, Network PROVE SeqInv'
  OBVIOUS
<1>2. era \in Nat /\ localSeq \in Nat /\ book.seq \in Nat
  BY <1>1 DEF TypeOK, Books
<1>3. ASSUME NEW w \in flight, WriteLands(w) PROVE SeqInv'
  <2>1. Lands(w) /\ Publishes(book') /\ UNCHANGED <<tasks, localSeq, decided, era>>
    BY <1>3 DEF WriteLands, txVars, engineVars, decisionVars
  <2>2. QED
    BY <1>1, <1>3, <2>1, SeqLands
<1>4. ASSUME NEW w \in flight, WriteRefused(w) \/ WriteLost(w) PROVE SeqInv'
  <2>1. /\ UNCHANGED <<tasks, localSeq, decided, era, book, applied, onchainSeq, frames>>
        /\ flight' \subseteq flight
    BY <1>4 DEF WriteRefused, Refused, WriteLost, Lost, txVars, engineVars, decisionVars,
                streamVars
  <2>2. Live' \subseteq Live /\ tasks' \cap flight' = {} /\ ViewBehind'
    BY <1>1, <2>1 DEF Live, SeqInv, ViewBehind
  <2>3. QED
    BY <1>1, <1>2, <2>1, <2>2, SeqShrinks
<1>5. CASE BalanceChanges
  <2>1. PICK inv \in Inventories : BalanceMoves(inv)
    BY <1>5 DEF BalanceChanges
  <2>2. /\ UNCHANGED <<tasks, localSeq, decided, era, flight, applied>>
        /\ book'.seq = book.seq /\ Publishes(book')
    BY <1>1, <1>5, <2>1
    DEF BalanceChanges, BalanceMoves, txVars, engineVars, decisionVars, TypeOK, Books
  <2>3. ViewBehind'
    <3>1. \A f \in frames' : f \in frames \/ f.seq = book.seq
      BY <2>2 DEF Publishes, FrameOf
    <3>2. onchainSeq' = onchainSeq
      BY <2>2 DEF Publishes, viewVars
    <3>3. QED
      BY <1>1, <1>2, <2>2, <3>1, <3>2 DEF SeqInv, ViewBehind
  <2>4. Live' = Live /\ tasks' \cap flight' = {}
    BY <1>1, <2>2 DEF Live, SeqInv
  <2>5. QED
    BY <1>1, <1>2, <2>2, <2>3, <2>4, SeqShrinks
<1>6. QED
  BY <1>1, <1>3, <1>4, <1>5 DEF Network

LEMMA SeqTasks == TypeOK /\ SeqInv /\ Tasks => SeqInv'
<1>1. SUFFICES ASSUME TypeOK, SeqInv, NEW w \in tasks,
                      TaskSucceeds(w) \/ TaskFails(w) \/ FinalClearTimesOut(w)
               PROVE  SeqInv'
  BY DEF Tasks
<1>2. era \in Nat /\ localSeq \in Nat
  BY <1>1 DEF TypeOK
<1>3. /\ tasks' = tasks \ {w} /\ flight' \subseteq flight \cup {w}
      /\ UNCHANGED <<book, applied, onchainSeq, frames, localSeq, decided, era>>
  BY <1>1 DEF TaskSucceeds, SendAccepted, TaskFails, SendFailed, FinalClearTimesOut,
              CloseTimesOut, SendAbandoned, streamVars, engineVars, decisionVars
<1>4. Live' \subseteq Live /\ tasks' \cap flight' = {} /\ ViewBehind'
  BY <1>1, <1>3 DEF Live, SeqInv, ViewBehind
<1>5. QED
  BY <1>1, <1>2, <1>3, <1>4, SeqShrinks

\* Steps that leave the engine's counters and the chain alone.
LEMMA SeqElsewhere ==
  ASSUME TypeOK, SeqInv, tasks' \subseteq tasks,
         UNCHANGED <<book, flight, applied, localSeq, decided, era>>, ViewBehind'
  PROVE  SeqInv'
<1>1. era \in Nat /\ localSeq \in Nat
  BY DEF TypeOK
<1>2. Live' \subseteq Live /\ tasks' \cap flight' = {}
  BY DEF Live, SeqInv
<1>3. QED
  BY <1>1, <1>2, SeqShrinks

LEMMA SeqInputs == TypeOK /\ SeqInv /\ (Inputs \/ WindowPasses) => SeqInv'
<1>1. SUFFICES ASSUME TypeOK, SeqInv, Inputs \/ WindowPasses PROVE SeqInv'
  OBVIOUS
<1>2. ASSUME NEW f \in frames, AccountArrives(f) PROVE SeqInv'
  <2>1. UNCHANGED <<book, flight, applied, tasks, localSeq, decided, era>>
    BY <1>2 DEF AccountArrives, programVars, txVars, engineVars, decisionVars
  <2>2. ViewBehind'
    BY <1>1, <1>2, <2>1 DEF AccountArrives, HandleAccount, SeqInv, ViewBehind
  <2>3. QED
    BY <1>1, <2>1, <2>2, SeqElsewhere
<1>3. CASE \/ PriceTicks \/ PriceGoesStale \/ SubscriptionDrops \/ SubscriptionReturns
           \/ WindowPasses \/ \E f \in frames : AccountUnreadable(f)
  <2>1. /\ UNCHANGED <<book, flight, applied, tasks, localSeq, decided, era, onchainSeq>>
        /\ frames' \subseteq frames
    BY <1>3 DEF PriceTicks, PriceGoesStale, SubscriptionDrops, StreamDrops, SubscriptionReturns,
                AccountUnreadable, SkipsFrame, Resubscribes, WindowPasses, ResendWindowPasses, programVars, txVars, streamVars,
                viewVars, engineVars, decisionVars
  <2>2. ViewBehind'
    BY <1>1, <2>1 DEF SeqInv, ViewBehind
  <2>3. QED
    BY <1>1, <2>1, <2>2, SeqElsewhere
<1>4. QED
  BY <1>1, <1>2, <1>3 DEF Inputs

LEMMA SeqLifecycle == TypeOK /\ SeqInv /\ Lifecycle => SeqInv'
<1>1. SUFFICES ASSUME TypeOK, SeqInv, Lifecycle PROVE SeqInv'
  OBVIOUS
<1>2. CASE StartEngine \/ StartTimesOut \/ CtrlC \/ Exit \/ Crash
  <2>1. /\ UNCHANGED <<book, flight, applied, localSeq, decided, era, onchainSeq>>
        /\ frames' \subseteq frames /\ tasks' \subseteq tasks
    BY <1>2 DEF StartEngine, StartTimesOut, CtrlC, Exit, Crash, StreamEnds, programVars, txVars,
                streamVars, viewVars, decisionVars
  <2>2. ViewBehind'
    BY <1>1, <2>1 DEF SeqInv, ViewBehind
  <2>3. QED
    BY <1>1, <2>1, <2>2, SeqElsewhere
<1>3. CASE Restart
  <2>1. /\ UNCHANGED <<book, flight, applied, tasks, decided>>
        /\ frames' = {} /\ onchainSeq' = book.seq /\ localSeq' = book.seq /\ era' = era + 1
    BY <1>3 DEF Restart, programVars
  <2>2. book.seq \in Nat /\ era \in Nat
    BY <1>1 DEF TypeOK, Books
  <2>3. Live' = Live /\ tasks' \cap flight' = {} /\ ViewBehind'
    BY <1>1, <2>1, <2>2 DEF Live, SeqInv, ViewBehind
  <2>4. QED
    BY <1>1, <2>1, <2>2, <2>3, SeqShrinks
<1>4. QED
  BY <1>1, <1>2, <1>3 DEF Lifecycle

(***************************************************************************)
(* The inductive invariant behind the ordering properties.                 *)
(***************************************************************************)
THEOREM SeqCorrect == Spec => []SeqInv
<1>1. TypeOK /\ SeqInv /\ [Next]_vars => SeqInv'
  <2>1. TypeOK /\ SeqInv /\ UNCHANGED vars => SeqInv'
    <3>1. SUFFICES ASSUME TypeOK, SeqInv, UNCHANGED vars PROVE SeqInv'
      OBVIOUS
    <3>2. /\ UNCHANGED <<book, flight, applied, localSeq, decided, era, onchainSeq, frames>>
          /\ tasks' \subseteq tasks
      BY <3>1 DEF vars, programVars, txVars, streamVars, engineVars, decisionVars
    <3>3. ViewBehind'
      BY <3>1, <3>2 DEF SeqInv, ViewBehind
    <3>4. QED
      BY <3>1, <3>2, <3>3, SeqElsewhere
  <2>2. QED
    BY <2>1, SeqQuotes, SeqControl, SeqNetwork, SeqTasks, SeqInputs, SeqLifecycle DEF Next
<1>2. QED
  BY <1>1, SeqInit, TypeCorrect, PTL DEF Spec
(***************************************************************************)
(* MAX_LOCAL_SEQ_LEAD keeps every repricing write inside the program's     *)
(* sequence jump, whatever is lost and however late the account stream is. *)
(***************************************************************************)
THEOREM JumpCorrect == Spec => []RepriceWithinJump
<1>1. TypeOK /\ SeqInv => RepriceWithinJump
  <2>1. SUFFICES ASSUME TypeOK, SeqInv, NEW w \in Live, w.kind # "clear"
                 PROVE  w.first <= book.seq + MaxJump
    BY DEF RepriceWithinJump
  <2>2. w \in Writes /\ WithinLead(w) /\ book.seq \in Nat
    BY <2>1, LiveType DEF SeqInv, TypeOK, Books
  <2>3. QED
    BY <2>1, <2>2, EngineAssumption, ProgramAssumption DEF WithinLead, Writes
<1>2. QED
  BY <1>1, TypeCorrect, SeqCorrect, PTL

(***************************************************************************)
(* The counter of update_instructions is in step with the chain: in an     *)
(* era, the program finds stale exactly what a later decision overtook.    *)
(***************************************************************************)
LEMMA StaleStep == TypeOK /\ SeqInv => StaleIffOvertaken
<1>1. SUFFICES ASSUME TypeOK, SeqInv, NEW w \in Live, w.era = applied.era
               PROVE  w.first <= book.seq <=> w.nth < applied.nth
  BY DEF StaleIffOvertaken
<1>2. /\ w \in Writes /\ Placed(w) /\ w.first <= w.last
      /\ book.seq \in Nat /\ applied.nth \in Nat
  BY <1>1, LiveType DEF SeqInv, Made, TypeOK, Books
<1>3. QED
  BY <1>1, <1>2 DEF Placed, Writes

THEOREM StaleCorrect == Spec => []StaleIffOvertaken
<1>1. QED
  BY StaleStep, TypeCorrect, SeqCorrect, PTL

(***************************************************************************)
(* In an era, the book only ever moves on to later decisions.              *)
(***************************************************************************)
THEOREM OrderCorrect == Spec => LandsInDecisionOrder
<1> DEFINE Later == applied' # applied /\ applied'.era = applied.era
                      => applied'.nth > applied.nth
<1>1. TypeOK /\ SeqInv /\ [Next]_vars => [Later]_vars
  <2>1. SUFFICES ASSUME TypeOK, SeqInv, Next, applied' # applied, applied'.era = applied.era
                 PROVE  applied'.nth > applied.nth
    OBVIOUS
  <2>2. ~(Tasks \/ Inputs \/ Lifecycle \/ EngineQuotes \/ EngineControl \/ WindowPasses)
    BY <2>1
    DEF Tasks, TaskSucceeds, TaskFails, FinalClearTimesOut, Inputs, PriceTicks, PriceGoesStale,
        AccountArrives, AccountUnreadable, SubscriptionDrops, SubscriptionReturns, Lifecycle, StartEngine,
        StartTimesOut, CtrlC, Exit, Crash, Restart, EngineQuotes, EngineControl, WindowPasses,
        programVars
  <2>3. Network
    BY <2>1, <2>2 DEF Next
  <2>4. PICK w \in flight : Lands(w)
    BY <2>1, <2>3
    DEF Network, WriteLands, WriteRefused, Refused, WriteLost, Lost, BalanceChanges, BalanceMoves
  <2>5. /\ w \in Live /\ w \in Writes /\ applied' = [nth |-> w.nth, era |-> w.era]
        /\ book.seq < w.first /\ book.seq \in Nat /\ applied.nth \in Nat
    BY <2>1, <2>4, LiveType DEF Lands, Accepts, Live, TypeOK, Books
  <2>6. w.nth # applied.nth /\ ~(w.nth < applied.nth)
    BY <2>1, <2>5, StaleStep DEF SeqInv, Placed, StaleIffOvertaken, Writes
  <2>7. QED
    BY <2>5, <2>6 DEF Writes
<1>2. QED
  BY <1>1, TypeCorrect, SeqCorrect, PTL DEF Spec, LandsInDecisionOrder
-----------------------------------------------------------------------------
(***************************************************************************)
(* The clear that ends quoting.  While the engine pauses, closes or has    *)
(* returned, the decision made last is that clear.                         *)
(***************************************************************************)
IsLastClear(w) == w.kind = "clear" /\ w.levels = NoLevels /\ w.era = era

WithdrawInv ==
  Withdrawing =>
    /\ \A w \in Live : w.nth = decided => IsLastClear(w)
    /\ applied.nth = decided => book.levels = NoLevels /\ applied.era = era

\* A write that lands on a book that shows the last decision is of another era.
LEMMA LandsOverClear ==
  ASSUME TypeOK, SeqInv, WithdrawInv, Withdrawing, applied.nth = decided,
         NEW w \in flight, Lands(w)
  PROVE  w.era # era
<1>1. /\ w \in Writes /\ Made(w) /\ Placed(w) /\ applied.era = era
      /\ book.seq < w.first /\ book.seq \in Nat /\ decided \in Nat
  BY LiveType DEF SeqInv, WithdrawInv, Live, Lands, Accepts, TypeOK, Books
<1> QED
  BY <1>1 DEF Made, Placed, Writes

LEMMA WithdrawLands ==
  ASSUME TypeOK, SeqInv, WithdrawInv, NEW w \in flight, WriteLands(w)
  PROVE  WithdrawInv'
<1>1. /\ Lands(w) /\ Live' \subseteq Live /\ UNCHANGED <<pc, decided, era>>
  BY DEF WriteLands, Lands, Live, txVars, engineVars, controlVars, decisionVars
<1>2. ASSUME Withdrawing, w.nth = decided
      PROVE  book'.levels = NoLevels /\ applied' = [nth |-> w.nth, era |-> era]
  <2>1. IsLastClear(w) /\ book \in Books
    BY <1>2 DEF WithdrawInv, Live, TypeOK
  <2> QED
    BY <1>1, <2>1 DEF IsLastClear, Lands, Execute, Books
<1>3. applied'.nth = w.nth
  BY <1>1 DEF Lands
<1> QED
  BY <1>1, <1>2, <1>3 DEF WithdrawInv, Withdrawing, IsLastClear

\* Steps that decide on nothing and move no write onto the book.
LEMMA WithdrawKept ==
  ASSUME WithdrawInv, Withdrawing' => Withdrawing, Live' \subseteq Live,
         UNCHANGED <<applied, decided, era>>, book'.levels = book.levels
  PROVE  WithdrawInv'
  BY DEF WithdrawInv, IsLastClear

LEMMA WithdrawClears ==
  ASSUME TypeOK, SeqInv, EngineTrips \/ EngineCloses, UNCHANGED <<flight, book, applied>>
  PROVE  WithdrawInv'
<1> DEFINE x == ClearTx(localSeq + 1, era)
<1>1. /\ x.nth = decided + 1 /\ x.kind = "clear" /\ x.levels = NoLevels /\ x.era = era
  BY DEF ClearTx
<1>2. Live' = Live \cup {x} /\ decided' = decided + 1 /\ era' = era
  BY <1>1 DEF EngineTrips, EngineCloses, SendsClear, Sends, Fire, Live
<1>3. decided \in Nat /\ applied.nth \in Nat /\ applied.nth <= decided
  BY DEF TypeOK, SeqInv, AppliedBehind
<1>4. \A w \in Live : w.nth \in Nat /\ w.nth <= decided
  BY LiveType DEF SeqInv, Made, Writes
<1> HIDE DEF x
<1> QED
  BY <1>1, <1>2, <1>3, <1>4 DEF WithdrawInv, IsLastClear

LEMMA WithdrawStep == TypeOK /\ SeqInv /\ WithdrawInv /\ [Next]_vars => WithdrawInv'
<1> SUFFICES ASSUME TypeOK, SeqInv, WithdrawInv, [Next]_vars PROVE WithdrawInv'
  OBVIOUS
<1>1. CASE EngineQuotes \/ WindowPasses \/ Restart \/ StartEngine \/ StartTimesOut \/ Exit \/ Crash
  <2>1. ~Withdrawing'
    BY <1>1 DEF EngineQuotes, EngineIdles, EngineReprices, EngineRequotes, EngineClears,
       EnginePullsStale, Steady, Selecting, controlVars, WindowPasses, ResendWindowPasses, Restart,
       StartEngine, StartTimesOut, Exit, Crash, Withdrawing
  <2> QED
    BY <2>1 DEF WithdrawInv
<1>2. CASE EngineControl
  <2>1. UNCHANGED <<flight, book, applied>>
    BY <1>2 DEF EngineControl, programVars
  <2>2. CASE EngineTrips \/ EngineCloses
    BY <2>1, <2>2, WithdrawClears
  <2>3. CASE PauseEnds
    BY <2>3 DEF PauseEnds, WithdrawInv, Withdrawing
  <2>4. CASE PauseCancelled \/ EngineReturns
    <3>1. Withdrawing /\ UNCHANGED <<tasks, decided, era>>
      BY <2>4 DEF PauseCancelled, EngineReturns, Withdrawing, txVars, decisionVars
    <3> QED
      BY <2>1, <3>1, WithdrawKept DEF Live
  <2> QED
    BY <1>2, <2>2, <2>3, <2>4 DEF EngineControl
<1>3. CASE Network
  <2>1. ASSUME NEW w \in flight, WriteRefused(w) \/ WriteLost(w) PROVE WithdrawInv'
    <3>1. /\ Live' \subseteq Live /\ UNCHANGED <<book, applied, pc, decided, era>>
      BY <2>1 DEF WriteRefused, Refused, WriteLost, Lost, Live, txVars, engineVars, controlVars,
         decisionVars
    <3> QED
      BY <3>1, WithdrawKept DEF Withdrawing
  <2>2. CASE BalanceChanges
    <3>1. PICK inv \in Inventories : BalanceMoves(inv)
      BY <2>2 DEF BalanceChanges
    <3>2. UNCHANGED <<tasks, pc, decided, era>>
      BY <2>2 DEF BalanceChanges, txVars, engineVars, controlVars, decisionVars
    <3>3. book'.levels = book.levels /\ UNCHANGED <<flight, applied>>
      BY <3>1 DEF BalanceMoves, TypeOK, Books
    <3> QED
      BY <3>2, <3>3, WithdrawKept DEF Withdrawing, Live
  <2> QED
    BY <1>3, <2>1, <2>2, WithdrawLands DEF Network
<1>4. CASE Tasks
  <2>1. PICK w \in tasks : TaskSucceeds(w) \/ TaskFails(w) \/ FinalClearTimesOut(w)
    BY <1>4 DEF Tasks
  <2>2. /\ Live' \subseteq Live /\ UNCHANGED <<book, applied, decided, era>>
        /\ Withdrawing' => Withdrawing
    BY <2>1 DEF TaskSucceeds, SendAccepted, TaskFails, SendFailed, FinalClearTimesOut,
       CloseTimesOut, SendAbandoned, Live, engineVars, controlVars, decisionVars, Withdrawing
  <2> QED
    BY <2>2, WithdrawKept
<1>5. CASE Inputs \/ CtrlC \/ UNCHANGED vars
  <2>1. UNCHANGED <<book, flight, applied, tasks, decided, era, pc>>
    BY <1>5 DEF Inputs, PriceTicks, PriceGoesStale, AccountArrives, AccountUnreadable, SubscriptionDrops,
       SubscriptionReturns, CtrlC, vars, programVars, txVars, engineVars, controlVars, decisionVars
  <2> QED
    BY <2>1, WithdrawKept DEF Live, Withdrawing
<1> QED
  BY <1>1, <1>2, <1>3, <1>4, <1>5 DEF Next, Lifecycle

(***************************************************************************)
(* Once the clear of the breaker or of the shutdown has executed, nothing  *)
(* that was sent before brings quotes back, unless the counter was reset.  *)
(***************************************************************************)
THEOREM LastWordCorrect == Spec => ClearIsLastWord
<1> DEFINE Last == Withdrawing /\ applied.nth = decided =>
                     /\ book.levels = NoLevels
                     /\ book'.levels # NoLevels => applied'.era # era
<1>1. TypeOK /\ SeqInv /\ WithdrawInv /\ [Next]_vars => [Last]_vars
  <2> SUFFICES ASSUME TypeOK, SeqInv, WithdrawInv, Next, Withdrawing, applied.nth = decided,
                      book'.levels # book.levels
               PROVE  applied'.era # era
    BY DEF WithdrawInv
  <2>1. PICK w \in flight : Lands(w)
    <3>1. Network
      BY DEF Next, Tasks, TaskSucceeds, TaskFails, FinalClearTimesOut, Inputs, PriceTicks,
         PriceGoesStale, AccountArrives, AccountUnreadable, SubscriptionDrops, SubscriptionReturns,
         Lifecycle, StartEngine, StartTimesOut, CtrlC, Exit, Crash, Restart, EngineQuotes, EngineControl,
         WindowPasses, programVars
    <3>2. ASSUME NEW inv \in Inventories, BalanceMoves(inv) PROVE book'.levels = book.levels
      BY <3>2 DEF BalanceMoves, TypeOK, Books
    <3> QED
      BY <3>1, <3>2 DEF Network, BalanceChanges, WriteLands, WriteRefused, Refused, WriteLost, Lost
  <2> QED
    BY <2>1, LandsOverClear DEF Lands
<1>2. Init => WithdrawInv
  BY DEF Init, EngineInit, WithdrawInv, Withdrawing
<1> QED
  BY <1>1, <1>2, WithdrawStep, TypeCorrect, SeqCorrect, PTL DEF Spec, ClearIsLastWord
-----------------------------------------------------------------------------
(***************************************************************************)
(* The numbers do what DecisionOrder says of decisions without numbers.    *)
(***************************************************************************)
Fired(x) ==
  /\ tasks' = tasks \cup {x}
  /\ x.nth = decided + 1 /\ x.era \in {era, era + 1}
  /\ decided' = x.nth /\ era' = x.era
  /\ x.first <= x.last
  /\ x.kind # "clear" => x.first = Synced + 1

\* A cycle fires one write, or none; in either case it may reset the counter.
LEMMA EngineFires ==
  ASSUME TypeOK, EngineQuotes \/ EngineControl
  PROVE  \/ \E x \in Writes : Fired(x)
         \/ UNCHANGED <<tasks, decided>> /\ era' \in {era, era + 1}
<1>1. /\ SyncedEra \in {era, era + 1} /\ Synced \in Nat /\ SyncedEra \in Nat
      /\ era \in Nat /\ localSeq \in Nat
  BY SyncedBounds, SyncedType DEF TypeOK
<1>2. ASSUME NEW x \in Writes, Sends(x), x.nth = decided + 1, x.era \in {era, era + 1},
             x.first <= x.last, x.kind # "clear" => x.first = Synced + 1
      PROVE  \E y \in Writes : Fired(y)
  BY <1>2 DEF Fired, Sends, Fire
<1>3. ASSUME NEW seq \in Nat, NEW e \in {era, era + 1}
      PROVE  /\ ClearTx(seq, e) \in Writes /\ ClearTx(seq, e).nth = decided + 1
             /\ ClearTx(seq, e).era = e /\ ClearTx(seq, e).kind = "clear"
             /\ ClearTx(seq, e).first <= ClearTx(seq, e).last
  BY <1>1, ClearType DEF ClearTx
<1>4. CASE EngineReprices
  <2>1. price \in Prices /\ Sends(MidTx)
    BY <1>4 DEF EngineReprices, Steady, Selecting, TypeOK
  <2> QED
    BY <1>1, <1>2, <2>1, MidType DEF MidTx
<1>5. CASE EngineRequotes
  <2>1. price \in Prices /\ Sends(FullTx)
    BY <1>5 DEF EngineRequotes, Steady, Selecting, TypeOK
  <2>2. FullTx.nth = decided + 1 /\ FullTx.era = SyncedEra
    BY DEF FullTx
  <2> QED
    BY <1>1, <1>2, <2>1, <2>2, FullType
<1>6. CASE EngineClears \/ EnginePullsStale \/ EngineTrips
  <2>1. \E seq \in Nat, e \in {era, era + 1} : Sends(ClearTx(seq, e))
    BY <1>1, <1>6 DEF EngineClears, EnginePullsStale, EngineTrips, SendsClear
  <2> QED
    BY <1>2, <1>3, <2>1
<1>7. CASE EngineCloses
  <2>1. Fired(ClearTx(localSeq + 1, era))
    BY <1>1, <1>3, <1>7 DEF EngineCloses, Fire, Fired
  <2> QED
    BY <1>1, <1>3, <2>1
<1>8. CASE EngineIdles \/ PauseEnds \/ PauseCancelled \/ EngineReturns
  BY <1>1, <1>8 DEF EngineIdles, PauseEnds, PauseCancelled, EngineReturns, txVars, decisionVars
<1> QED
  BY <1>4, <1>5, <1>6, <1>7, <1>8 DEF EngineQuotes, EngineControl

\* The decisions on their way.
Pending == {Decision(w) : w \in Live}

LEMMA OrderDecides ==
  ASSUME NEW x \in Writes, Fired(x), UNCHANGED <<flight, applied, book>>
  PROVE  Ordered!Decides
<1>1. Live' = Live \cup {x}
  BY DEF Fired, Live
<1>2. Pending' = Pending \cup {Decision(x)} /\ Decision(x) \in Pending'
  BY <1>1 DEF Pending
<1>3. Decision(x).nth = x.nth /\ Decision(x).era = x.era
  BY DEF Decision
<1> QED
  BY <1>2, <1>3 DEF Ordered!Decides, Fired, Pending

LEMMA OrderShows ==
  ASSUME TypeOK, SeqInv, NEW w \in flight, WriteLands(w)
  PROVE  \E d \in Pending : Ordered!TakesEffect(d)
<1>1. /\ w \in Live /\ w \in Writes /\ Lands(w) /\ book \in Books
      /\ UNCHANGED <<tasks, decided, era>>
  BY LiveType DEF Live, TypeOK, WriteLands, txVars, engineVars, decisionVars
<1>2. /\ Decision(w).nth = w.nth /\ Decision(w).era = w.era /\ Decision(w).levels = w.levels
      /\ Decision(w).keeps = (w.kind = "mid")
  BY DEF Decision
<1>3. Ordered!Follows(Decision(w))
  <2>1. applied.nth \in Nat /\ book.seq \in Nat /\ Placed(w) /\ w.first <= w.last
    BY <1>1 DEF TypeOK, Books, SeqInv, Made
  <2>2. w.era = applied.era => applied.nth < w.nth
    BY <1>1, <2>1 DEF Placed, Lands, Accepts, Writes
  <2> QED
    BY <1>2, <2>2 DEF Ordered!Follows
<1>4. Pending' = Pending \ {Decision(w)}
  <2>1. Live' = Live \ {w}
    BY <1>1 DEF Live, Lands, SeqInv
  <2>2. ASSUME NEW u \in Live, Decision(u) = Decision(w) PROVE u = w
    <3>1. u.nth = w.nth
      BY <2>2 DEF Decision
    <3> QED
      BY <1>1, <3>1 DEF SeqInv, InOrder
  <2> QED
    BY <1>1, <2>1, <2>2 DEF Pending
<1>5. book'.levels = IF w.kind = "mid" THEN book.levels ELSE w.levels
  BY <1>1 DEF Lands, Execute, Books
<1>6. applied' = [nth |-> w.nth, era |-> w.era]
  BY <1>1 DEF Lands
<1>7. Ordered!TakesEffect(Decision(w))
  BY <1>1, <1>2, <1>3, <1>4, <1>5, <1>6 DEF Ordered!TakesEffect, Pending
<1> QED
  BY <1>1, <1>7 DEF Pending

\* Steps that move nothing onto the book and decide on nothing.
LEMMA OrderVanish ==
  ASSUME Live' \subseteq Live, UNCHANGED <<applied, decided, era>>, book'.levels = book.levels
  PROVE  Ordered!Vanish
<1>1. Pending' \subseteq Pending
  BY DEF Pending
<1> QED
  BY <1>1 DEF Ordered!Vanish, Pending

LEMMA OrderResets ==
  ASSUME Live' = Live, UNCHANGED <<applied, decided>>, book'.levels = book.levels, era' = era + 1
  PROVE  Ordered!CountsAnew
<1>1. Pending' = Pending
  BY DEF Pending
<1> QED
  BY <1>1 DEF Ordered!CountsAnew, Pending

LEMMA OrderStep == TypeOK /\ SeqInv /\ [Next]_vars => Ordered!OrderNext
<1> SUFFICES ASSUME TypeOK, SeqInv, [Next]_vars PROVE Ordered!OrderNext
  OBVIOUS
<1>1. CASE EngineQuotes \/ EngineControl
  <2>1. UNCHANGED <<flight, applied, book>>
    BY <1>1 DEF EngineQuotes, EngineControl, programVars
  <2>2. CASE \E x \in Writes : Fired(x)
    BY <2>1, <2>2, OrderDecides DEF Ordered!OrderNext
  <2>3. CASE UNCHANGED <<tasks, decided>> /\ era' \in {era, era + 1}
    <3>1. Live' = Live
      BY <2>1, <2>3 DEF Live
    <3> QED
      BY <2>1, <2>3, <3>1, OrderVanish, OrderResets DEF Ordered!OrderNext
  <2> QED
    BY <1>1, <2>2, <2>3, EngineFires
<1>2. ASSUME NEW w \in flight, WriteLands(w) PROVE Ordered!OrderNext
  BY <1>2, OrderShows DEF Ordered!OrderNext, Pending
<1>3. ASSUME NEW w \in flight, WriteRefused(w) \/ WriteLost(w) PROVE Ordered!OrderNext
  <2>1. Live' \subseteq Live /\ UNCHANGED <<book, applied, decided, era>>
    BY <1>3 DEF WriteRefused, Refused, WriteLost, Lost, Live, txVars, engineVars, decisionVars
  <2> QED
    BY <2>1, OrderVanish DEF Ordered!OrderNext
<1>4. CASE BalanceChanges
  <2>1. PICK inv \in Inventories : BalanceMoves(inv)
    BY <1>4 DEF BalanceChanges
  <2>2. book'.levels = book.levels /\ UNCHANGED <<flight, applied, tasks, decided, era>>
    BY <1>4, <2>1 DEF BalanceChanges, BalanceMoves, TypeOK, Books, txVars, engineVars, decisionVars
  <2> QED
    BY <2>2, OrderVanish DEF Ordered!OrderNext, Live
<1>5. CASE Tasks
  <2>1. PICK w \in tasks : TaskSucceeds(w) \/ TaskFails(w) \/ FinalClearTimesOut(w)
    BY <1>5 DEF Tasks
  <2>2. Live' \subseteq Live /\ UNCHANGED <<book, applied, decided, era>>
    BY <2>1 DEF TaskSucceeds, SendAccepted, TaskFails, SendFailed, FinalClearTimesOut,
       CloseTimesOut, SendAbandoned, Live, engineVars, decisionVars
  <2> QED
    BY <2>2, OrderVanish DEF Ordered!OrderNext
<1>6. CASE Restart
  <2>1. Live' = Live /\ UNCHANGED <<book, applied, decided>> /\ era' = era + 1
    BY <1>6 DEF Restart, programVars, Live
  <2> QED
    BY <2>1, OrderResets DEF Ordered!OrderNext
<1>7. CASE Inputs \/ WindowPasses \/ StartEngine \/ StartTimesOut \/ CtrlC \/ Exit \/ Crash \/ UNCHANGED vars
  <2>1. UNCHANGED <<book, flight, applied, decided, era>> /\ tasks' \subseteq tasks
    BY <1>7 DEF Inputs, PriceTicks, PriceGoesStale, AccountArrives, AccountUnreadable, SubscriptionDrops,
       SubscriptionReturns, WindowPasses, ResendWindowPasses, StartEngine, StartTimesOut, CtrlC,
       Exit, Crash, vars, programVars, txVars, engineVars, decisionVars
  <2> QED
    BY <2>1, OrderVanish DEF Ordered!OrderNext, Live
<1> QED
  BY <1>1, <1>2, <1>3, <1>4, <1>5, <1>6, <1>7 DEF Next, Network, Lifecycle

(***************************************************************************)
(* Engine, send tasks, account stream and chain implement DecisionOrder:   *)
(* the book shows the engine's decisions in the order they were made,      *)
(* whatever is lost, late or overtaken, until the counter is reset.        *)
(***************************************************************************)
THEOREM OrderImplements == Spec => KeepsOrder
<1>1. Init => Ordered!OrderInit
  <2> SUFFICES ASSUME Init PROVE Ordered!OrderInit
    OBVIOUS
  <2>1. Live = {} /\ decided = 0 /\ era = 1 /\ applied = [nth |-> 0, era |-> 0]
    BY DEF Init, Live
  <2> QED
    BY <2>1 DEF Ordered!OrderInit
<1> QED
  BY <1>1, OrderStep, TypeCorrect, SeqCorrect, PTL DEF Spec, KeepsOrder, Ordered!OrderSpec
-----------------------------------------------------------------------------
(***************************************************************************)
(* The account stream.  The book's last change is on its way, and the one  *)
(* to be handled last; or it has been handled.                             *)
(***************************************************************************)
ViewIsBook == cachedMid = book.mid /\ invSeen = book.inv /\ onchainSeq = book.seq

StreamInv ==
  /\ \A f \in frames : f.slot <= book.slot /\ (f.slot = book.slot => f = FrameOf(book))
  /\ FramesOrdered /\ ~missed =>
       IF frames = {} THEN ViewIsBook ELSE FrameOf(book) \in frames

LEMMA StreamInit == Init => StreamInv
<1>1. QED
  BY DEF Init, LoadBook, StreamInv, ViewIsBook

LEMMA StreamSame ==
  ASSUME StreamInv, UNCHANGED <<book, frames, missed, viewVars>>
  PROVE  StreamInv'
<1>1. QED
  BY DEF StreamInv, ViewIsBook, FrameOf, viewVars

\* What is dropped with a subscription is missed.
LEMMA StreamLoses ==
  ASSUME StreamInv, UNCHANGED <<book, viewVars>>, frames' = {}, missed' \in BOOLEAN,
         ~missed' => ~missed /\ frames = {}
  PROVE  StreamInv'
<1>1. QED
  BY DEF StreamInv, ViewIsBook, viewVars

LEMMA StreamPublishes ==
  ASSUME TypeOK, StreamInv, Publishes(book'), book'.slot = book.slot + 1
  PROVE  StreamInv'
<1>1. /\ book.slot \in Nat
      /\ \A f \in frames : f.slot \in Nat /\ f.slot <= book.slot
  BY DEF TypeOK, Books, Frames, StreamInv
<1>2. FrameOf(book').slot = book'.slot
  BY DEF FrameOf
<1>3. ASSUME NEW f \in frames'
      PROVE  f.slot <= book'.slot /\ (f.slot = book'.slot => f = FrameOf(book'))
  <2>1. CASE f \in frames
    BY <1>1, <2>1
  <2>2. CASE f = FrameOf(book')
    BY <1>1, <1>2, <2>2
  <2>3. QED
    BY <1>3, <2>1, <2>2 DEF Publishes
<1>4. ~missed' => FrameOf(book') \in frames'
  BY DEF Publishes
<1>5. FrameOf(book)' = FrameOf(book')
  BY DEF FrameOf
<1>6. QED
  BY <1>3, <1>4, <1>5 DEF StreamInv

\* The last frame in slot order is the book; the number is never ahead of it.
LEMMA StreamHandles ==
  ASSUME TypeOK, SeqInv, StreamInv, NEW f \in frames, HandleAccount(f), UNCHANGED book
  PROVE  StreamInv'
<1>1. /\ book.slot \in Nat /\ book.seq \in Nat /\ onchainSeq \in Nat /\ onchainSeq <= book.seq
      /\ \A g \in frames : g.slot \in Nat
  BY DEF TypeOK, Books, Frames, SeqInv, ViewBehind
<1>2. frames' = frames \ {f} /\ UNCHANGED missed
  BY DEF HandleAccount
<1>3. FrameOf(book)' = FrameOf(book)
  BY DEF FrameOf
<1>4. ASSUME FramesOrdered, ~missed, f = FrameOf(book) PROVE frames' = {} /\ ViewIsBook'
  <2>1. ASSUME NEW g \in frames PROVE g = f
    <3>1. f.slot <= g.slot /\ g.slot <= book.slot /\ f.slot = book.slot
      BY <1>4 DEF HandleAccount, StreamInv, FrameOf
    <3>2. g.slot = book.slot
      BY <1>1, <3>1
    <3>3. QED
      BY <1>4, <3>2 DEF StreamInv
  <2>2. f.mid = book.mid /\ f.inv = book.inv /\ f.seq = book.seq
    BY <1>4 DEF FrameOf
  <2>3. onchainSeq' = book.seq
    BY <1>1, <2>2 DEF HandleAccount
  <2>4. QED
    BY <1>2, <2>1, <2>2, <2>3 DEF HandleAccount, ViewIsBook
<1>5. ASSUME FramesOrdered, ~missed, f # FrameOf(book) PROVE FrameOf(book) \in frames'
  BY <1>2, <1>5 DEF StreamInv
<1>6. \A g \in frames' : g.slot <= book'.slot /\ (g.slot = book'.slot => g = FrameOf(book'))
  BY <1>2 DEF StreamInv
<1>7. FramesOrdered /\ ~missed' => IF frames' = {} THEN ViewIsBook' ELSE FrameOf(book) \in frames'
  BY <1>2, <1>4, <1>5
<1>8. QED
  BY <1>3, <1>6, <1>7 DEF StreamInv

\* A frame is skipped: another one than the book's, or the last change is missed.
LEMMA StreamSkips ==
  ASSUME StreamInv, NEW f \in frames, SkipsFrame(f), UNCHANGED book
  PROVE  StreamInv'
<1>1. /\ frames' = frames \ {f} /\ missed' = (missed \/ f.slot = book.slot)
      /\ UNCHANGED viewVars
  BY DEF SkipsFrame
<1>2. FrameOf(book)' = FrameOf(book) /\ FrameOf(book).slot = book.slot
  BY DEF FrameOf
<1>3. ~missed' => ~missed /\ FrameOf(book) # f
  BY <1>1, <1>2
<1> QED
  BY <1>1, <1>2, <1>3 DEF StreamInv

LEMMA StreamNetwork == TypeOK /\ StreamInv /\ Network => StreamInv'
<1>1. SUFFICES ASSUME TypeOK, StreamInv, Network PROVE StreamInv'
  OBVIOUS
<1>2. book.slot \in Nat
  BY <1>1 DEF TypeOK, Books
<1>3. ASSUME NEW w \in flight, WriteLands(w) PROVE StreamInv'
  <2>1. Publishes(book') /\ book'.slot = book.slot + 1
    BY <1>1, <1>2, <1>3 DEF WriteLands, Lands, Execute, TypeOK, Books
  <2>2. QED
    BY <1>1, <2>1, StreamPublishes
<1>4. ASSUME NEW w \in flight, WriteRefused(w) \/ WriteLost(w) PROVE StreamInv'
  <2>1. UNCHANGED <<book, frames, missed, viewVars>>
    BY <1>4 DEF WriteRefused, Refused, WriteLost, Lost, streamVars, viewVars
  <2>2. QED
    BY <1>1, <2>1, StreamSame
<1>5. CASE BalanceChanges
  <2>1. PICK inv \in Inventories : BalanceMoves(inv)
    BY <1>5 DEF BalanceChanges
  <2>2. Publishes(book') /\ book'.slot = book.slot + 1
    BY <1>1, <1>2, <1>5, <2>1 DEF BalanceChanges, BalanceMoves, TypeOK, Books
  <2>3. QED
    BY <1>1, <2>2, StreamPublishes
<1>6. QED
  BY <1>1, <1>3, <1>4, <1>5 DEF Network

LEMMA StreamInputs == TypeOK /\ SeqInv /\ StreamInv /\ Inputs => StreamInv'
<1>1. SUFFICES ASSUME TypeOK, SeqInv, StreamInv, Inputs PROVE StreamInv'
  OBVIOUS
<1>2. CASE PriceTicks \/ PriceGoesStale \/ SubscriptionReturns
  <2>1. UNCHANGED <<book, frames, missed, viewVars>>
    BY <1>2 DEF PriceTicks, PriceGoesStale, SubscriptionReturns, Resubscribes, programVars,
       streamVars, viewVars
  <2>2. QED
    BY <1>1, <2>1, StreamSame
<1>3. ASSUME NEW f \in frames, AccountArrives(f) PROVE StreamInv'
  BY <1>1, <1>3, StreamHandles DEF AccountArrives, programVars
<1>5. ASSUME NEW f \in frames, AccountUnreadable(f) PROVE StreamInv'
  BY <1>1, <1>5, StreamSkips DEF AccountUnreadable, programVars
<1>4. CASE SubscriptionDrops
  <2>1. /\ UNCHANGED <<book, viewVars>> /\ frames' = {} /\ missed' \in BOOLEAN
        /\ ~missed' => ~missed /\ frames = {}
    BY <1>1, <1>4 DEF SubscriptionDrops, StreamDrops, programVars, TypeOK
  <2>2. QED
    BY <1>1, <2>1, StreamLoses
<1>6. QED
  BY <1>1, <1>2, <1>3, <1>4, <1>5 DEF Inputs

LEMMA StreamLifecycle == TypeOK /\ StreamInv /\ Lifecycle => StreamInv'
<1>1. SUFFICES ASSUME TypeOK, StreamInv, Lifecycle PROVE StreamInv'
  OBVIOUS
<1>2. CASE StartEngine \/ Exit
  <2>1. UNCHANGED <<book, frames, missed, viewVars>>
    BY <1>2 DEF StartEngine, Exit, programVars, streamVars, viewVars
  <2>2. QED
    BY <1>1, <2>1, StreamSame
<1>3. CASE CtrlC \/ StartTimesOut \/ Crash
  <2>1. UNCHANGED <<book, viewVars>> /\ frames' = {} /\ missed' = TRUE
    BY <1>3 DEF CtrlC, StartTimesOut, Crash, StreamEnds, programVars
  <2>2. QED
    BY <1>1, <2>1, StreamLoses
<1>4. CASE Restart
  BY <1>4 DEF Restart, programVars, StreamInv, ViewIsBook
<1>5. QED
  BY <1>1, <1>2, <1>3, <1>4 DEF Lifecycle

LEMMA StreamStep == TypeOK /\ SeqInv /\ StreamInv /\ [Next]_vars => StreamInv'
<1>1. SUFFICES ASSUME TypeOK, SeqInv, StreamInv, [Next]_vars PROVE StreamInv'
  OBVIOUS
<1>2. CASE EngineQuotes \/ EngineControl \/ WindowPasses \/ Tasks \/ UNCHANGED vars
  <2>1. UNCHANGED <<book, frames, missed, viewVars>>
    BY <1>2 DEF EngineQuotes, EngineControl, WindowPasses, Tasks, TaskSucceeds, TaskFails,
       FinalClearTimesOut, vars, programVars, streamVars, viewVars
  <2>2. QED
    BY <1>1, <2>1, StreamSame
<1>3. QED
  BY <1>1, <1>2, StreamNetwork, StreamInputs, StreamLifecycle DEF Next

(***************************************************************************)
(* With frames in slot order, a stream that has delivered everything and   *)
(* lost nothing shows the account as it is.                                *)
(***************************************************************************)
THEOREM ViewCorrect == Spec => []CaughtUpViewIsExact
<1>1. StreamInv => CaughtUpViewIsExact
  BY DEF StreamInv, ViewIsBook, CaughtUpViewIsExact
<1>2. QED
  BY <1>1, StreamInit, StreamStep, TypeCorrect, SeqCorrect, PTL DEF Spec
-----------------------------------------------------------------------------
(***************************************************************************)
(* What the engine remembers of its last write, for as long as that write  *)
(* is on its way: its mid and that it was sent recently, unless a clear    *)
(* has made it forget the structure.                                       *)
(***************************************************************************)
Remembered(u) == (lastSentMid = u.mid /\ sentRecently) \/ lastHash = NoLevels

AwaitedInv ==
  WindowCoversDelivery =>
    \A u \in Live : u.nth = decided /\ u.kind # "clear" => Remembered(u)

LEMMA AwaitedKept ==
  ASSUME AwaitedInv, Live' \subseteq Live, UNCHANGED decided,
         UNCHANGED <<lastHash, lastSentMid, sentRecently>> \/ lastHash' = NoLevels
  PROVE  AwaitedInv'
<1> QED
  BY DEF AwaitedInv, Remembered

LEMMA AwaitedSent ==
  ASSUME TypeOK, SeqInv, NEW x \in Writes, tasks' = tasks \cup {x}, UNCHANGED flight,
         x.nth = decided + 1, decided' = x.nth,
         x.kind = "clear" \/ (lastSentMid' = x.mid /\ sentRecently')
  PROVE  AwaitedInv'
<1>1. Live' = Live \cup {x}
  BY DEF Live
<1>2. ASSUME NEW u \in Live PROVE u.nth # decided'
  <2>1. u.nth \in Nat /\ u.nth <= decided /\ decided \in Nat
    BY LiveType DEF SeqInv, Made, TypeOK, Writes
  <2> QED
    BY <2>1
<1> QED
  BY <1>1, <1>2 DEF AwaitedInv, Remembered

LEMMA AwaitedEngine ==
  ASSUME TypeOK, SeqInv, AwaitedInv, EngineQuotes \/ EngineControl
  PROVE  AwaitedInv'
<1>1. UNCHANGED flight /\ decided \in Nat /\ SyncedEra \in Nat /\ Synced \in Nat
      /\ localSeq \in Nat /\ era \in Nat
  BY SyncedType DEF EngineQuotes, EngineControl, programVars, TypeOK
<1>2. ASSUME NEW seq \in Nat, NEW e \in Nat, Sends(ClearTx(seq, e)) PROVE AwaitedInv'
  <2>1. ClearTx(seq, e).kind = "clear" /\ ClearTx(seq, e).nth = decided + 1
    BY DEF ClearTx
  <2> QED
    BY <1>1, <1>2, <2>1, ClearType, AwaitedSent DEF Sends, Fire
<1>3. CASE EngineReprices
  <2>1. price \in Prices /\ Sends(MidTx) /\ lastSentMid' = price /\ sentRecently' = TRUE
    BY <1>3 DEF EngineReprices, Steady, Selecting, TypeOK
  <2>2. MidTx.mid = price /\ MidTx.nth = decided + 1
    BY DEF MidTx
  <2> QED
    BY <1>1, <2>1, <2>2, MidType, AwaitedSent DEF Sends, Fire
<1>4. CASE EngineRequotes
  <2>1. price \in Prices /\ Sends(FullTx) /\ lastSentMid' = NewMid(Reading) /\ sentRecently' = TRUE
    BY <1>4 DEF EngineRequotes, Steady, Selecting, TypeOK
  <2>2. FullTx.mid = NewMid(Reading) /\ FullTx.nth = decided + 1
    BY DEF FullTx
  <2> QED
    BY <1>1, <2>1, <2>2, FullType, AwaitedSent DEF Sends, Fire
<1>5. CASE EngineClears \/ EnginePullsStale \/ EngineTrips
  <2>1. \E seq \in Nat, e \in Nat : Sends(ClearTx(seq, e))
    BY <1>1, <1>5 DEF EngineClears, EnginePullsStale, EngineTrips, SendsClear
  <2> QED
    BY <1>2, <2>1
<1>6. CASE EngineCloses
  <2> DEFINE x == ClearTx(localSeq + 1, era)
  <2>1. x \in Writes /\ tasks' = tasks \cup {x} /\ decided' = x.nth
    BY <1>1, <1>6, ClearType DEF EngineCloses, Fire
  <2>2. x.kind = "clear" /\ x.nth = decided + 1
    BY DEF ClearTx
  <2> QED
    BY <1>1, <2>1, <2>2, AwaitedSent
<1>7. CASE EngineIdles \/ PauseEnds \/ PauseCancelled \/ EngineReturns
  <2>1. Live' = Live /\ UNCHANGED <<decided, lastHash, lastSentMid, sentRecently>>
    BY <1>1, <1>7
    DEF EngineIdles, PauseEnds, PauseCancelled, EngineReturns, txVars, decisionVars, Live
  <2> QED
    BY <2>1, AwaitedKept
<1> QED
  BY <1>3, <1>4, <1>5, <1>6, <1>7 DEF EngineQuotes, EngineControl

LEMMA AwaitedStep == TypeOK /\ SeqInv /\ AwaitedInv /\ [Next]_vars => AwaitedInv'
<1> SUFFICES ASSUME TypeOK, SeqInv, AwaitedInv, [Next]_vars PROVE AwaitedInv'
  OBVIOUS
<1>1. CASE EngineQuotes \/ EngineControl
  BY <1>1, AwaitedEngine
<1>2. CASE WindowPasses
  <2>1. UNCHANGED <<tasks, flight, decided>>
    BY <1>2 DEF WindowPasses, ResendWindowPasses, programVars, txVars
  <2>2. WindowCoversDelivery => Live' = {}
    BY <1>2, <2>1 DEF WindowPasses, ResendWindowPasses, Live
  <2> QED
    BY <2>2 DEF AwaitedInv
<1>3. CASE Network
  <2>1. UNCHANGED <<tasks, decided, lastHash, lastSentMid, sentRecently>> /\ flight' \subseteq flight
    BY <1>3 DEF Network, WriteLands, Lands, WriteRefused, Refused, WriteLost, Lost,
       BalanceChanges, BalanceMoves, txVars, engineVars, decisionVars
  <2> QED
    BY <2>1, AwaitedKept DEF Live
<1>4. CASE Tasks
  <2>1. PICK w \in tasks : TaskSucceeds(w) \/ TaskFails(w) \/ FinalClearTimesOut(w)
    BY <1>4 DEF Tasks
  <2>2. Live' \subseteq Live /\ UNCHANGED <<decided, lastHash, lastSentMid, sentRecently>>
    BY <2>1 DEF TaskSucceeds, SendAccepted, TaskFails, SendFailed, FinalClearTimesOut,
       CloseTimesOut, SendAbandoned, Live, engineVars, decisionVars
  <2> QED
    BY <2>2, AwaitedKept
<1>5. CASE Restart
  <2>1. Live' = Live /\ UNCHANGED decided /\ lastHash' = NoLevels
    BY <1>5 DEF Restart, programVars, Live
  <2> QED
    BY <2>1, AwaitedKept
<1>6. CASE Inputs \/ StartEngine \/ StartTimesOut \/ CtrlC \/ Exit \/ Crash \/ UNCHANGED vars
  <2>1. /\ UNCHANGED <<flight, decided, lastHash, lastSentMid, sentRecently>>
        /\ tasks' \subseteq tasks
    BY <1>6 DEF Inputs, PriceTicks, PriceGoesStale, AccountArrives, AccountUnreadable, SubscriptionDrops,
       SubscriptionReturns, StartEngine, StartTimesOut, CtrlC, Exit, Crash, vars, programVars,
       txVars, engineVars, decisionVars
  <2> QED
    BY <2>1, AwaitedKept DEF Live
<1> QED
  BY <1>1, <1>2, <1>3, <1>4, <1>5, <1>6 DEF Next, Lifecycle

\* Only one action sends a mid update.
LEMMA MidIsRepricing ==
  ASSUME TypeOK, [Next]_vars, NEW w \in tasks' \ tasks, w.kind = "mid"
  PROVE  EngineReprices /\ w = MidTx
<1>1. ASSUME NEW x, Sends(x) PROVE w = x
  BY <1>1 DEF Sends, Fire
<1>2. CASE EngineReprices
  BY <1>1, <1>2 DEF EngineReprices
<1>3. CASE EngineRequotes
  <2>1. FullTx.kind = "full"
    BY DEF FullTx
  <2> QED
    BY <1>1, <1>3, <2>1 DEF EngineRequotes
<1>4. CASE EngineClears \/ EnginePullsStale \/ EngineTrips \/ EngineCloses
  <2>1. \E seq, e : w = ClearTx(seq, e)
    BY <1>1, <1>4 DEF EngineClears, EnginePullsStale, EngineTrips, EngineCloses, SendsClear, Fire
  <2> QED
    BY <2>1 DEF ClearTx
<1>5. CASE EngineIdles \/ PauseEnds \/ PauseCancelled \/ EngineReturns
  BY <1>5 DEF EngineIdles, PauseEnds, PauseCancelled, EngineReturns, txVars
<1>6. CASE Tasks
  BY <1>6 DEF Tasks, TaskSucceeds, SendAccepted, TaskFails, SendFailed, FinalClearTimesOut,
     CloseTimesOut, SendAbandoned
<1>7. CASE Network \/ Inputs \/ Lifecycle \/ WindowPasses \/ UNCHANGED vars
  <2>1. tasks' \subseteq tasks
    BY <1>7 DEF Network, WriteLands, WriteRefused, WriteLost, BalanceChanges, Inputs, PriceTicks,
       PriceGoesStale, AccountArrives, AccountUnreadable, SubscriptionDrops, SubscriptionReturns, Lifecycle,
       StartEngine, StartTimesOut, CtrlC, Exit, Crash, Restart, WindowPasses,
       ResendWindowPasses, vars, txVars
  <2> QED
    BY <2>1
<1> QED
  BY <1>2, <1>3, <1>4, <1>5, <1>6, <1>7 DEF Next, EngineQuotes, EngineControl

(***************************************************************************)
(* A mid update is sent only if it is needed: not while the last write     *)
(* carries its mid and may still land, nor when a caught-up stream says    *)
(* that the book has it (engine.rs, MID_RESEND_AFTER).                     *)
(***************************************************************************)
THEOREM NeededCorrect == Spec => RepricesOnlyIfNeeded
<1>1. ASSUME TypeOK, StreamInv, AwaitedInv, [Next]_vars, WindowCoversDelivery,
             NEW w \in tasks' \ tasks, w.kind = "mid"
      PROVE  /\ ~Underway(w.mid)
             /\ FramesOrdered /\ ~missed /\ frames = {} => book.mid # w.mid
  <2>1. WantsMid(Reading) /\ ~MidIsFine /\ w.mid = price
    <3>1. EngineReprices /\ w = MidTx
      BY <1>1, MidIsRepricing
    <3>2. MidTx.mid = price
      BY DEF MidTx
    <3> QED
      BY <3>1, <3>2 DEF EngineReprices
  <2>2. lastHash # NoLevels
    <3>1. price \in Prices
      BY <1>1, MidIsRepricing DEF EngineReprices, Steady, Selecting, TypeOK
    <3>2. lastHash \in Levels
      BY <1>1, <2>1, <3>1, ReadingType, TargetType DEF WantsMid, Settled, Reading
    <3> QED
      BY <3>2, NoLevelsAssumption
  <2>3. ~Underway(w.mid)
    BY <1>1, <2>1, <2>2 DEF Underway, AwaitedInv, Remembered, MidIsFine
  <2>4. FramesOrdered /\ ~missed /\ frames = {} => book.mid # w.mid
    BY <1>1, <2>1 DEF StreamInv, ViewIsBook, MidIsFine
  <2> QED
    BY <2>3, <2>4
<1>2. TypeOK /\ StreamInv /\ AwaitedInv /\ [Next]_vars =>
        (WindowCoversDelivery =>
           \A w \in tasks' \ tasks : w.kind = "mid" =>
             /\ ~Underway(w.mid)
             /\ FramesOrdered /\ ~missed /\ frames = {} => book.mid # w.mid)
  BY <1>1
<1>3. Init => AwaitedInv
  BY DEF Init, Live, AwaitedInv
<1> QED
  BY <1>2, <1>3, AwaitedStep, StreamInit, StreamStep, TypeCorrect, SeqCorrect, PTL
  DEF Spec, RepricesOnlyIfNeeded
=============================================================================
