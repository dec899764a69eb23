------------------------- MODULE PriceHandoffProofs -------------------------
(***************************************************************************)
(* Proofs about the price's way from the feed to the engine, for every     *)
(* window, set of quotes and number of messages.                           *)
(***************************************************************************)
EXTENDS PriceHandoff, SequenceTheorems, TLAPS

-----------------------------------------------------------------------------
(***************************************************************************)
(* The ring buffer.                                                        *)
(***************************************************************************)
RingType ==
  /\ ring \in [Slots -> Values \cup {0}]
  /\ head \in Slots /\ count \in 0 .. Window
  /\ samples \in Seq(Values)

\* The walk is defined: what it visits has been pushed.
RingFilled ==
  /\ count < Window => head = count
  /\ \A i \in 1 .. count : ring[(Oldest + i - 1) % Window] \in Values

LEMMA WindowType == Window \in Nat /\ Window > 1
BY WindowAssumption

LEMMA ValuesType == Values \subseteq Nat \ {0}
BY FeedAssumption DEF Values

\* What a push does with the prices the feed has.
Pushed(p) ==
  /\ ring' = [ring EXCEPT ![head] = p]
  /\ head' = (head + 1) % Window
  /\ count' = IF count < Window THEN count + 1 ELSE count
  /\ samples' = Append(samples, p)

LEMMA PushStores ==
  ASSUME NEW p \in Values, Push(p)
  PROVE  Pushed(p)
BY ValuesType DEF Push, Pushed

LEMMA SeqIsFunction ==
  ASSUME NEW S, NEW s \in Seq(S)
  PROVE  s \in [1 .. Len(s) -> S]
OBVIOUS

\* The remainder modulo Window of a number below 2 * Window.
LEMMA Wraps ==
  ASSUME NEW i \in Nat, i < 2 * Window
  PROVE  i % Window = IF i < Window THEN i ELSE i - Window
<1>1. CASE i < Window
  BY <1>1, WindowType, SMT
<1>2. CASE i >= Window
  <2>1. (i - Window) % Window = i - Window
    BY <1>2, WindowType, SMT
  <2>2. i = Window * 1 + (i - Window)
    BY WindowType
  <2> QED
    BY <1>2, <2>1, <2>2, WindowType, SMT
<1> QED
  BY <1>1, <1>2, WindowType

LEMMA WalkType ==
  ASSUME RingType, RingFilled
  PROVE  Walk \in [1 .. count -> Values] /\ Walk \in Seq(Values) /\ Len(Walk) = count
<1>1. count \in Nat
  BY WindowType DEF RingType
<1>2. Walk \in [1 .. count -> Values]
  BY DEF Walk, RingFilled
<1> QED
  BY <1>1, <1>2

(***************************************************************************)
(* A push appends to the walk and, once the ring is full, drops its oldest *)
(* sample (VolatilityTracker::push against the order of realized_vol).     *)
(***************************************************************************)
LEMMA PushWalk ==
  ASSUME RingType, RingFilled, NEW p \in Values, Pushed(p)
  PROVE  /\ RingType' /\ RingFilled'
         /\ count < Window => Walk' = Append(Walk, p)
         /\ count = Window => Walk' = Tail(Append(Walk, p))
<1> USE WindowType
<1>1. head \in Slots /\ count \in 0 .. Window /\ ring \in [Slots -> Values \cup {0}]
  BY DEF RingType
<1>0. head \in 0 .. Window - 1
  BY <1>1 DEF Slots
<1>2. head' = IF head + 1 < Window THEN head + 1 ELSE 0
  <2>1. head + 1 \in Nat /\ head + 1 < 2 * Window /\ head + 1 <= Window
    BY <1>1 DEF Slots
  <2>2. (head + 1) % Window = IF head + 1 < Window THEN head + 1 ELSE head + 1 - Window
    BY <1>0, <2>1, Wraps
  <2> QED
    BY <1>1, <2>1, <2>2 DEF Pushed, Slots
<1>3. RingType'
  BY <1>1, <1>2 DEF RingType, Pushed, Slots
<1>4. Walk \in [1 .. count -> Values] /\ Walk \in Seq(Values) /\ Len(Walk) = count
  BY WalkType
<1>5. CASE count < Window
  <2>1. head = count /\ Oldest = 0 /\ Oldest' = 0 /\ count' = count + 1
    BY <1>1, <1>2, <1>5 DEF RingFilled, Oldest, Pushed, Slots
  <2>2. \A i \in 1 .. count : ring'[(Oldest' + i - 1) % Window] = Walk[i]
    <3> TAKE i \in 1 .. count
    <3>1. (i - 1) % Window = i - 1 /\ i - 1 \in Slots /\ i - 1 # head
      BY <1>1, <1>5, <2>1, Wraps DEF Slots
    <3> QED
      BY <1>1, <2>1, <3>1 DEF Walk, Pushed
  <2>3. ring'[(Oldest' + count' - 1) % Window] = p
    <3>1. count % Window = count
      BY <1>1, <1>5, Wraps
    <3> QED
      BY <1>1, <2>1, <3>1 DEF Pushed
  <2>4. \A i \in 1 .. count' : ring'[(Oldest' + i - 1) % Window] = Append(Walk, p)[i]
    BY <1>1, <1>4, <2>1, <2>2, <2>3
  <2>5. Walk' = [i \in 1 .. count' |-> Append(Walk, p)[i]]
    BY <2>4 DEF Walk
  <2>6. Append(Walk, p) \in [1 .. count' -> Values]
    <3>1. Append(Walk, p) \in Seq(Values) /\ Len(Append(Walk, p)) = count'
      BY <1>4, <2>1
    <3> QED
      BY <3>1, SeqIsFunction
  <2>7. Walk' = Append(Walk, p)
    BY <2>5, <2>6
  <2>8. RingFilled'
    BY <1>1, <1>2, <2>1, <2>4, <2>6 DEF RingFilled, Pushed, Slots
  <2> QED
    BY <1>3, <1>5, <2>7, <2>8
<1>6. CASE count = Window
  <2>1. Oldest = head /\ Oldest' = head' /\ count' = Window
    BY <1>1, <1>6 DEF Oldest, Pushed
  <2>2. \A i \in 1 .. Window - 1 : ring'[(Oldest' + i - 1) % Window] = Walk[i + 1]
    <3> TAKE i \in 1 .. Window - 1
    <3> DEFINE j == IF head + i < Window THEN head + i ELSE head + i - Window
    <3>1. head + i \in Nat /\ head + i < 2 * Window /\ head' + i - 1 \in Nat
          /\ head' + i - 1 < 2 * Window
      BY <1>1, <1>2 DEF Slots
    <3>2. (head + i) % Window = j /\ j \in Slots /\ j # head
      <4>1. (head + i) % Window = j
        BY <1>0, <3>1, Wraps
      <4> QED
        BY <1>1, <4>1 DEF Slots
    <3>3. (head' + i - 1) % Window = j
      <4>1. head' \in 0 .. Window - 1
        BY <1>0, <1>2
      <4>2. PICK k \in Nat : k = head' + i - 1
        BY <3>1
      <4>3. k % Window = IF k < Window THEN k ELSE k - Window
        BY <3>1, <4>2, Wraps
      <4> QED
        BY <1>0, <1>2, <4>1, <4>2, <4>3
    <3>4. Walk[i + 1] = ring[j]
      BY <1>1, <1>6, <2>1, <3>2 DEF Walk, Slots
    <3> HIDE DEF j
    <3> QED
      BY <1>1, <2>1, <3>2, <3>3, <3>4 DEF Pushed
  <2>3. ring'[(Oldest' + Window - 1) % Window] = p
    <3>1. (head' + Window - 1) % Window = head
      BY <1>1, <1>2, Wraps DEF Slots
    <3> QED
      BY <1>1, <2>1, <3>1 DEF Pushed
  <2>4. \A i \in 1 .. count' : ring'[(Oldest' + i - 1) % Window] = Tail(Append(Walk, p))[i]
    BY <1>1, <1>4, <1>6, <2>1, <2>2, <2>3
  <2>5. Walk' = [i \in 1 .. count' |-> Tail(Append(Walk, p))[i]]
    BY <2>4 DEF Walk
  <2>6. Tail(Append(Walk, p)) \in [1 .. count' -> Values]
    <3>1. Append(Walk, p) \in Seq(Values) /\ Len(Append(Walk, p)) = Window + 1
      BY <1>4, <1>6
    <3>2. Tail(Append(Walk, p)) \in Seq(Values) /\ Len(Tail(Append(Walk, p))) = Window
      BY <3>1
    <3> QED
      BY <2>1, <3>2, SeqIsFunction
  <2>7. Walk' = Tail(Append(Walk, p))
    BY <2>5, <2>6
  <2>8. RingFilled'
    <3>1. \A i \in 1 .. count' : Tail(Append(Walk, p))[i] \in Values
      BY <2>6
    <3>2. \A i \in 1 .. count' : ring'[(Oldest' + i - 1) % Window] \in Values
      BY <2>4, <3>1, Zenon
    <3> QED
      BY <2>1, <3>2 DEF RingFilled
  <2> QED
    BY <1>3, <1>6, <2>7, <2>8
<1> QED
  BY <1>1, <1>5, <1>6

-----------------------------------------------------------------------------
(***************************************************************************)
(* The inductive invariant: types, the ring, the price handle_tick has     *)
(* stored, and what an engine without a pending notification has seen.     *)
(***************************************************************************)
StoresInOrder == step \in {"stamp", "sample", "notify"} => midPrice = mid

\* Nothing was stored and notified since the engine last woke.
Untold == ~permit /\ step \in {"idle", "store"}

WakeInv ==
  /\ reader = "volatility" => priceRead > 0
  /\ Untold /\ reader = "volatility" => priceRead = midPrice
  /\ Untold /\ reader = "stamp" /\ midPrice > 0 => ~onTime
  /\ Untold /\ reader = "waiting" /\ midPrice > 0
       => \/ acted = [stale |-> FALSE, price |-> midPrice, vol |-> volCell]
          \/ acted.stale /\ ~onTime

FeedInv == TypeOK /\ RingFilled /\ StoresInOrder /\ WakeInv

LEMMA RateType ==
  ASSUME NEW now \in [Legs -> Quotes \cup {0}], Priced(now)
  PROVE  Rate[now] \in Values
<1>1. \A s \in Legs : now[s] \in Quotes
  BY FeedAssumption DEF Priced
<1>2. now \in [Legs -> Quotes]
  BY <1>1
<1> QED
  BY <1>2 DEF Values

LEMMA TypeRing == TypeOK => RingType
BY DEF TypeOK, RingType

LEMMA ShortWalk ==
  ASSUME NEW s \in Seq(Values), Len(s) \in 0 .. Window
  PROVE  s \in Walks
<1>1. s \in [1 .. Len(s) -> Values]
  BY SeqIsFunction
<1> QED
  BY <1>1 DEF Walks

\* What StoresVolatility computes is a sequence of prices, not over-long.
LEMMA VolAfterType ==
  ASSUME TypeOK, RingFilled, NEW p \in Values
  PROVE  VolAfter(p) \in Seq(Values) /\ VolAfter(p) \in Walks
<1>1. RingType
  BY TypeRing
<1>2. Walk \in Seq(Values) /\ Len(Walk) = count /\ count \in 0 .. Window
  BY <1>1, WalkType DEF RingType
<1>3. Append(Walk, p) \in Seq(Values) /\ Len(Append(Walk, p)) = count + 1
  BY <1>2
<1>4. CASE count = 0
  <2>1. VolAfter(p) = <<>>
    BY <1>4 DEF VolAfter
  <2>2. <<>> \in Seq(Values) /\ Len(<<>>) = 0 /\ 0 \in 0 .. Window
    BY WindowType
  <2> QED
    BY <2>1, <2>2, ShortWalk
<1>5. CASE count # 0 /\ count = Window
  <2>1. VolAfter(p) = Tail(Append(Walk, p))
    BY <1>5 DEF VolAfter
  <2>2. Tail(Append(Walk, p)) \in Seq(Values) /\ Len(Tail(Append(Walk, p))) = Window
    BY <1>3, <1>5, WindowType
  <2>3. VolAfter(p) \in Seq(Values) /\ Len(VolAfter(p)) \in 0 .. Window
    BY <2>1, <2>2, WindowType
  <2> QED
    BY <2>3, ShortWalk
<1>6. CASE count # 0 /\ count # Window
  <2>1. VolAfter(p) = Append(Walk, p)
    BY <1>6 DEF VolAfter
  <2>2. count + 1 \in 0 .. Window
    BY <1>2, <1>6, WindowType
  <2> QED
    BY <1>3, <2>1, <2>2, ShortWalk
<1> QED
  BY <1>4, <1>5, <1>6

\* Its last price is the one pushed.
LEMMA VolAfterEnds ==
  ASSUME TypeOK, RingFilled, NEW p \in Values
  PROVE  EndsWith(VolAfter(p), p)
<1>1. Walk \in Seq(Values) /\ Len(Walk) = count /\ count \in Nat
  BY TypeRing, WalkType, WindowType DEF RingType
<1> DEFINE walk == Append(Walk, p)
<1>2. walk \in Seq(Values) /\ Len(walk) = count + 1 /\ walk[count + 1] = p
  BY <1>1
<1>3. CASE count = 0
  BY <1>3 DEF VolAfter, EndsWith
<1>4. CASE count # 0 /\ count = Window
  <2>1. Len(Tail(walk)) = count /\ Tail(walk)[count] = walk[count + 1]
    BY <1>1, <1>2, <1>4
  <2> QED
    BY <1>2, <1>4, <2>1 DEF VolAfter, EndsWith
<1>5. CASE count # 0 /\ count # Window
  BY <1>2, <1>5 DEF VolAfter, EndsWith
<1> QED
  BY <1>3, <1>4, <1>5

\* The volatility stored is the one of the window after the push.
LEMMA VolatilityStored ==
  ASSUME TypeOK, RingFilled, NEW p \in Values, Pushed(p)
  PROVE  RealizedVol' = VolAfter(p)
<1>1. RingType /\ count \in 0 .. Window
  BY TypeRing DEF RingType
<1>2. /\ count < Window => Walk' = Append(Walk, p)
      /\ count = Window => Walk' = Tail(Append(Walk, p))
  BY <1>1, PushWalk
<1>3. count' = IF count < Window THEN count + 1 ELSE count
  BY DEF Pushed
<1>4. count' < 2 <=> count = 0
  BY <1>1, <1>3, WindowType
<1>5. RealizedVol' = IF count' < 2 THEN <<>> ELSE Walk'
  BY DEF RealizedVol
<1>6. CASE count = 0
  BY <1>4, <1>5, <1>6 DEF VolAfter
<1>7. CASE count # 0
  <2>1. RealizedVol' = Walk'
    BY <1>4, <1>5, <1>7
  <2>2. VolAfter(p) = IF count = Window THEN Tail(Append(Walk, p)) ELSE Append(Walk, p)
    BY <1>7 DEF VolAfter
  <2> QED
    BY <1>1, <1>2, <2>1, <2>2, WindowType
<1> QED
  BY <1>6, <1>7

-----------------------------------------------------------------------------
(***************************************************************************)
(* Types, and the order of handle_tick's stores.                           *)
(***************************************************************************)
LEMMA TypeInit == Init => TypeOK /\ RingFilled /\ StoresInOrder /\ WakeInv
<1> SUFFICES ASSUME Init PROVE TypeOK /\ RingFilled /\ StoresInOrder /\ WakeInv
  OBVIOUS
<1> USE DEF Init, FeedTaskInit, VolatilityInit
<1>1. 0 \in Slots /\ 0 \in 0 .. Window
  BY WindowType DEF Slots
<1>2. TypeOK
  <2>1. ring \in [Slots -> Values \cup {0}] /\ head \in Slots /\ count \in 0 .. Window
    BY <1>1
  <2>2. legs \in [Legs -> Quotes \cup {0}]
    BY DEF Silent
  <2>3. <<>> \in Seq(Values) /\ <<>> \in Seq(Messages)
    OBVIOUS
  <2>4. acted \in [stale : BOOLEAN, price : Values \cup {0}, vol : Seq(Values)]
    BY <2>3
  <2> QED
    BY <2>1, <2>2, <2>3, <2>4 DEF TypeOK, Links, Steps, Readers
<1>3. RingFilled
  BY DEF RingFilled
<1>4. StoresInOrder /\ WakeInv
  BY DEF StoresInOrder, WakeInv
<1> QED
  BY <1>2, <1>3, <1>4

\* Steps that leave the ring alone.
RingStays == UNCHANGED volatilityVars

LEMMA RingKept ==
  ASSUME RingFilled, RingStays
  PROVE  RingFilled'
BY DEF RingFilled, RingStays, volatilityVars, Oldest

LEMMA ConnectionKeeps ==
  ASSUME TypeOK, StoresInOrder, WakeInv, Connection, UNCHANGED readerVars
  PROVE  TypeOK' /\ RingStays /\ StoresInOrder' /\ WakeInv'
<1> USE DEF TypeOK, StoresInOrder, WakeInv, Untold, RingStays, Links, readerVars, linkVars,
            cellVars, tickVars, boundVars
<1>1. CASE Dials
  BY <1>1 DEF Dials, volatilityVars
<1>2. CASE StopsDialling
  BY <1>2 DEF StopsDialling, volatilityVars
<1>3. CASE Connects
  <2>1. legs' \in [Legs -> Quotes \cup {0}]
    BY <1>3 DEF Connects, Silent
  <2>2. inbox' \in Seq(Messages)
    BY <1>3 DEF Connects
  <2>3. step' = "idle" /\ ticked' = FALSE /\ link' = "up"
    BY <1>3 DEF Connects
  <2>4. TypeOK'
    BY <1>3, <2>1, <2>2, <2>3 DEF Connects, volatilityVars
  <2>5. RingStays /\ StoresInOrder' /\ WakeInv'
    BY <1>3 DEF Connects, volatilityVars
  <2> QED
    BY <2>4, <2>5
<1>4. CASE ConnectFails
  BY <1>4 DEF ConnectFails, volatilityVars
<1>5. CASE SubscribeFails
  BY <1>5 DEF SubscribeFails, volatilityVars
<1>6. CASE Breaks
  BY <1>6 DEF Breaks, volatilityVars
<1>7. CASE BackoffPasses
  BY <1>7 DEF BackoffPasses, volatilityVars
<1>8. CASE StopsReading
  BY <1>8 DEF StopsReading, volatilityVars
<1> QED
  BY <1>1, <1>2, <1>3, <1>4, <1>5, <1>6, <1>7, <1>8 DEF Connection

LEMMA AgingKeepsWake == WakeInv /\ PriceAges /\ UNCHANGED readerVars => WakeInv'
<1> SUFFICES ASSUME WakeInv, PriceAges, UNCHANGED readerVars PROVE WakeInv'
  OBVIOUS
<1>1. /\ UNCHANGED <<midPrice, volCell, permit, step, reader, priceRead, acted>>
      /\ onTime /\ ~onTime'
  BY DEF PriceAges, readerVars, tickVars
<1> QED
  BY <1>1 DEF WakeInv, Untold

LEMMA EnvironmentKeeps ==
  ASSUME TypeOK, StoresInOrder, WakeInv, FeedEnvironment, UNCHANGED readerVars
  PROVE  TypeOK' /\ RingStays /\ StoresInOrder' /\ WakeInv'
<1> USE DEF TypeOK, StoresInOrder, WakeInv, Untold, RingStays, readerVars, linkVars,
            cellVars, tickVars, boundVars
<1>1. CASE \E s \in Legs, q \in Quotes \cup {0} : MarketMoves(s, q)
  <2>1. PICK s \in Legs, q \in Quotes \cup {0} : MarketMoves(s, q)
    BY <1>1
  <2>2. [leg |-> s, quote |-> q] \in Messages
    BY DEF Messages
  <2>3. inbox' \in Seq(Messages)
    BY <2>1, <2>2 DEF MarketMoves
  <2>4. market' \in [Legs -> Quotes]
    BY <2>1 DEF MarketMoves
  <2> QED
    BY <2>1, <2>3, <2>4 DEF MarketMoves, volatilityVars
<1>2. CASE PriceAges
  <2>1. RingStays /\ StoresInOrder'
    BY <1>2 DEF PriceAges, volatilityVars
  <2>2. onTime' \in BOOLEAN
    BY <1>2, Zenon DEF PriceAges
  <2>3. ages' \in Nat
    BY <1>2 DEF PriceAges
  <2>4. TypeOK'
    BY <1>2, <2>2, <2>3 DEF PriceAges, volatilityVars
  <2>5. WakeInv'
    BY <1>2, AgingKeepsWake
  <2> QED
    BY <2>1, <2>4, <2>5
<1>3. CASE Cancels
  BY <1>3 DEF Cancels, volatilityVars
<1> QED
  BY <1>1, <1>2, <1>3 DEF FeedEnvironment

LEMMA ReaderKeeps ==
  ASSUME TypeOK, StoresInOrder, WakeInv, EngineReads
  PROVE  TypeOK' /\ RingStays /\ StoresInOrder' /\ WakeInv'
<1> USE DEF TypeOK, StoresInOrder, WakeInv, Untold, RingStays, Readers, runFeedVars, linkVars,
            cellVars, tickVars, boundVars
<1>1. CASE Wakes
  BY <1>1 DEF Wakes, volatilityVars
<1>2. CASE Heartbeat
  BY <1>2 DEF Heartbeat, volatilityVars
<1>3. CASE FindsNone
  BY <1>3 DEF FindsNone, Stamped, volatilityVars
<1>7. CASE FindsStale
  BY <1>7 DEF FindsStale, volatilityVars
<1>8. CASE FindsNoneStill
  BY <1>8 DEF FindsNoneStill, volatilityVars
<1>4. CASE FindsFresh
  BY <1>4 DEF FindsFresh, volatilityVars
<1>5. CASE ReadsPrice
  BY <1>5, ValuesType DEF ReadsPrice, volatilityVars
<1>6. CASE ReadsVolatility
  BY <1>6, ValuesType DEF ReadsVolatility, volatilityVars
<1> QED
  BY <1>1, <1>2, <1>3, <1>4, <1>5, <1>6, <1>7, <1>8 DEF EngineReads

LEMMA TickingKeeps ==
  ASSUME TypeOK, RingFilled, StoresInOrder, WakeInv, Ticking, UNCHANGED readerVars
  PROVE  TypeOK' /\ RingFilled' /\ StoresInOrder' /\ WakeInv'
<1> USE DEF TypeOK, StoresInOrder, WakeInv, Untold, RingStays, Steps, readerVars, linkVars,
            cellVars, tickVars, boundVars
<1>1. CASE Skips
  BY <1>1, RingKept DEF Skips, Reading, volatilityVars
<1>2. CASE Hears
  <2> DEFINE m == Head(inbox)
  <2>1. m \in Messages /\ m.quote > 0 /\ Tail(inbox) \in Seq(Messages)
    BY <1>2 DEF Hears, Reading
  <2>2. Heard(m) \in [Legs -> Quotes \cup {0}]
    BY <2>1 DEF Heard, Messages
  <2>3. Priced(Heard(m)) => Rate[Heard(m)] \in Values
    BY <2>2, RateType
  <2> HIDE DEF m
  <2>4. /\ legs' = Heard(m)
        /\ IF Priced(Heard(m)) THEN step' = "store" /\ mid' = Rate[Heard(m)]
                               ELSE UNCHANGED tickVars
        /\ step = "idle" /\ link = "up"
        /\ inbox' = Tail(inbox)
        /\ UNCHANGED <<market, link, ticked, cellVars, cancelled, boundVars, volatilityVars>>
    BY <1>2 DEF Hears, Reading, m
  <2> QED
    BY <2>1, <2>2, <2>3, <2>4, RingKept DEF volatilityVars
<1>3. CASE StoresPrice
  BY <1>3, RingKept DEF StoresPrice, volatilityVars
<1>4. CASE StoresTimestamp
  BY <1>4, RingKept DEF StoresTimestamp, volatilityVars
<1>5. CASE StoresVolatility
  <2>0. mid \in Values /\ Pushed(mid)
    BY <1>5, PushStores DEF StoresVolatility, TypeOK
  <2>1. RealizedVol' = VolAfter(mid) /\ VolAfter(mid) \in Seq(Values)
    BY <2>0, VolatilityStored, VolAfterType
  <2>2. RingType' /\ RingFilled'
    BY <2>0, PushWalk, TypeRing
  <2> QED
    BY <1>5, <2>1, <2>2 DEF StoresVolatility, RingType
<1>6. CASE Notifies
  BY <1>6, RingKept DEF Notifies, volatilityVars
<1> QED
  BY <1>1, <1>2, <1>3, <1>4, <1>5, <1>6 DEF Ticking

LEMMA Stutters ==
  ASSUME FeedInv, UNCHANGED vars
  PROVE  FeedInv'
BY RingKept DEF FeedInv, vars, TypeOK, StoresInOrder, WakeInv, Untold, RingStays, runFeedVars,
                readerVars, linkVars, cellVars, tickVars, boundVars, volatilityVars

THEOREM FeedInvariant == Spec => []FeedInv
<1>1. Init => FeedInv
  BY TypeInit DEF FeedInv
<1>2. FeedInv /\ [Next]_vars => FeedInv'
  <2> SUFFICES ASSUME FeedInv, [Next]_vars PROVE FeedInv'
    OBVIOUS
  <2>1. CASE Connection /\ UNCHANGED readerVars
    BY <2>1, ConnectionKeeps, RingKept DEF FeedInv
  <2>2. CASE Ticking /\ UNCHANGED readerVars
    BY <2>2, TickingKeeps DEF FeedInv
  <2>3. CASE FeedEnvironment /\ UNCHANGED readerVars
    BY <2>3, EnvironmentKeeps, RingKept DEF FeedInv
  <2>4. CASE EngineReads
    BY <2>4, ReaderKeeps, RingKept DEF FeedInv
  <2>5. CASE UNCHANGED vars
    BY <2>5, Stutters
  <2> QED
    BY <2>1, <2>2, <2>3, <2>4, <2>5 DEF Next, FeedTaskNext
<1> QED
  BY <1>1, <1>2, PTL DEF Spec

(***************************************************************************)
(* Every variable of the feed task and of the engine's reading keeps its   *)
(* type.                                                                   *)
(***************************************************************************)
THEOREM HandoffTypeCorrect == Spec => []TypeOK
BY FeedInvariant, PTL DEF FeedInv

(***************************************************************************)
(* No tick is slept through: an engine that waits without a notification   *)
(* has acted on the latest price and its volatility, or pulled for age.    *)
(***************************************************************************)
THEOREM NoTickLost == Spec => []NoTickSleptThrough
<1>1. FeedInv => NoTickSleptThrough
  BY DEF FeedInv, WakeInv, Untold, NoTickSleptThrough
<1> QED
  BY <1>1, FeedInvariant, PTL

-----------------------------------------------------------------------------
(***************************************************************************)
(* The walk of the ring is the last samples.                               *)
(***************************************************************************)
LEMMA SameSeq ==
  ASSUME NEW S, NEW s \in Seq(S), NEW t \in Seq(S), Len(s) = Len(t),
         \A i \in 1 .. Len(s) : s[i] = t[i]
  PROVE  s = t
OBVIOUS

\* Appending to a suffix gives a suffix of the longer sequence.
LEMMA SuffixGrows ==
  ASSUME NEW S, NEW s \in Seq(S), NEW p \in S, NEW n \in Nat, n = Len(s),
         NEW a \in 1 .. n + 1
  PROVE  Append(SubSeq(s, a, n), p) = SubSeq(Append(s, p), a, n + 1)
<1>1. PICK t : t = SubSeq(s, a, n)
  OBVIOUS
<1>2. t \in Seq(S) /\ Len(t) = n - a + 1 /\ \A i \in 1 .. n - a + 1 : t[i] = s[a + i - 1]
  BY <1>1, SubSeqProperties
<1>3. PICK r : r = Append(s, p)
  OBVIOUS
<1>4. r \in Seq(S) /\ Len(r) = n + 1 /\ r[n + 1] = p /\ \A i \in 1 .. n : r[i] = s[i]
  BY <1>3
<1>5. PICK u : u = SubSeq(r, a, n + 1)
  OBVIOUS
<1>6. \A i \in a .. n + 1 : r[i] \in S
  BY <1>4
<1>7. u \in Seq(S) /\ Len(u) = n - a + 2 /\ \A i \in 1 .. n - a + 2 : u[i] = r[a + i - 1]
  BY <1>5, <1>6, SubSeqProperties
<1>8. PICK v : v = Append(t, p)
  OBVIOUS
<1>9. v \in Seq(S) /\ Len(v) = n - a + 2 /\ v[n - a + 2] = p /\ \A i \in 1 .. n - a + 1 : v[i] = t[i]
  BY <1>2, <1>8
<1>10. \A i \in 1 .. n - a + 2 : v[i] = u[i]
  <2> TAKE i \in 1 .. n - a + 2
  <2>1. CASE i = n - a + 2
    BY <1>4, <1>7, <1>9, <2>1
  <2>2. CASE i \in 1 .. n - a + 1
    <3>1. a + i - 1 \in 1 .. n
      BY <2>2
    <3>2. v[i] = s[a + i - 1] /\ u[i] = r[a + i - 1]
      BY <1>2, <1>7, <1>9, <2>2
    <3> QED
      BY <1>4, <3>1, <3>2
  <2> QED
    BY <2>1, <2>2
<1>11. v = u
  BY <1>7, <1>9, <1>10, SameSeq
<1> QED
  BY <1>1, <1>3, <1>5, <1>8, <1>11

LEMMA PushKeepsSuffix ==
  ASSUME RingType, RingFilled, WalksLastSamples, NEW p \in Values, Pushed(p)
  PROVE  WalksLastSamples'
<1>1. PICK n \in Nat : n = Len(samples)
  BY DEF RingType
<1>2. samples \in Seq(Values) /\ count \in 0 .. Window
  BY DEF RingType
<1>3. samples' = Append(samples, p) /\ Len(samples') = n + 1 /\ samples' \in Seq(Values)
  BY <1>1, <1>2 DEF Pushed
<1>4. count = IF n < Window THEN n ELSE Window
  BY <1>1 DEF WalksLastSamples
<1>5. count' = IF n + 1 < Window THEN n + 1 ELSE Window
  BY <1>2, <1>4, WindowType DEF Pushed
<1>6. PICK a \in 1 .. n + 1 : a = n - count + 1
  <2>1. count \in 0 .. n
    BY <1>4, WindowType
  <2> QED
    BY <2>1
<1>7. Append(Walk, p) = SubSeq(samples', a, n + 1)
  <2>1. Walk = SubSeq(samples, a, n)
    BY <1>1, <1>6 DEF WalksLastSamples
  <2> QED
    BY <1>1, <1>2, <1>3, <2>1, SuffixGrows
<1>8. Walk' = SubSeq(samples', n + 1 - count' + 1, n + 1)
  <2>1. CASE count < Window
    <3>1. a = n + 1 - count' + 1
      BY <1>2, <1>4, <1>5, <1>6, <2>1, WindowType
    <3> QED
      BY <1>7, <2>1, <3>1, PushWalk
  <2>2. CASE count = Window
    <3>1. a + 1 = n + 1 - count' + 1
      BY <1>2, <1>4, <1>5, <1>6, <2>2, WindowType
    <3>2. Tail(SubSeq(samples', a, n + 1)) = SubSeq(samples', a + 1, n + 1)
      BY <1>3, HeadTailOfSubSeq
    <3> QED
      BY <1>7, <2>2, <3>1, <3>2, PushWalk
  <2> QED
    BY <1>2, <2>1, <2>2, WindowType
<1>9. count' = IF Len(samples') < Window THEN Len(samples') ELSE Window
  BY <1>3, <1>5
<1>10. Walk' = SubSeq(samples', Len(samples') - count' + 1, Len(samples'))
  <2>1. Len(samples') - count' + 1 = n + 1 - count' + 1
    BY <1>3, <1>5, WindowType
  <2> QED
    BY <1>3, <1>8, <2>1
<1> QED
  BY <1>9, <1>10 DEF WalksLastSamples

(***************************************************************************)
(* realized_vol walks exactly the last Window samples, in their order, for *)
(* every window and any number of ticks.                                   *)
(***************************************************************************)
THEOREM WalkCorrect == Spec => []WalksLastSamples
<1>1. Init => WalksLastSamples
  <2> SUFFICES ASSUME Init PROVE WalksLastSamples
    OBVIOUS
  <2>1. samples = <<>> /\ Len(samples) = 0 /\ count = 0
    BY DEF Init, FeedTaskInit, VolatilityInit
  <2>2. Walk = <<>>
    BY <2>1 DEF Walk
  <2>3. SubSeq(samples, Len(samples) - count + 1, Len(samples)) = <<>>
    BY <2>1
  <2> QED
    BY <2>1, <2>2, <2>3, WindowType DEF WalksLastSamples
<1>2. FeedInv /\ WalksLastSamples /\ [Next]_vars => WalksLastSamples'
  <2> SUFFICES ASSUME FeedInv, WalksLastSamples, [Next]_vars PROVE WalksLastSamples'
    OBVIOUS
  <2>1. CASE RingStays
    BY <2>1 DEF RingStays, volatilityVars, WalksLastSamples, Walk, Oldest
  <2>2. CASE StoresVolatility
    <3>1. mid \in Values /\ Pushed(mid)
      BY <2>2, PushStores DEF StoresVolatility, FeedInv, TypeOK
    <3> QED
      BY <3>1, PushKeepsSuffix, TypeRing DEF FeedInv
  <2>3. RingStays \/ StoresVolatility
    <3>1. CASE Connection /\ UNCHANGED readerVars
      BY <3>1, ConnectionKeeps DEF FeedInv
    <3>2. CASE FeedEnvironment /\ UNCHANGED readerVars
      BY <3>2, EnvironmentKeeps DEF FeedInv
    <3>3. CASE EngineReads
      BY <3>3, ReaderKeeps DEF FeedInv
    <3>4. CASE Ticking
      BY <3>4 DEF Ticking, Skips, Hears, StoresPrice, StoresTimestamp, Notifies, RingStays
    <3>5. CASE UNCHANGED vars
      BY <3>5 DEF vars, runFeedVars, RingStays
    <3> QED
      BY <3>1, <3>2, <3>3, <3>4, <3>5 DEF Next, FeedTaskNext
  <2> QED
    BY <2>1, <2>2, <2>3
<1> QED
  BY <1>1, <1>2, FeedInvariant, PTL DEF Spec

-----------------------------------------------------------------------------
(***************************************************************************)
(* The feed implements PriceFeed.                                          *)
(***************************************************************************)
PromisedStep ==
  (\E p \in Values, v \in Walks : Promised!Tick(p, v)) \/ Promised!GoesStale

PairFits == EndsWith(VolSeen, PriceSeen)

SeenStays == UNCHANGED <<PriceSeen, VolSeen, FreshSeen>>

\* Steps that touch neither the tick, nor the cells, nor the ring.
LEMMA SeenKept ==
  ASSUME UNCHANGED <<step, mid, midPrice, onTime, volCell, volatilityVars>>
  PROVE  SeenStays
BY DEF SeenStays, PriceSeen, VolSeen, FreshSeen, InTick, VolAfter, Walk, Oldest, volatilityVars

LEMMA TickStarts ==
  ASSUME FeedInv, Hears, Priced(Heard(Head(inbox)))
  PROVE  (\E p \in Values, v \in Walks : Promised!Tick(p, v)) /\ PairFits'
<1>1. step' = "store" /\ mid' = Rate[Heard(Head(inbox))] /\ UNCHANGED volatilityVars
  BY DEF Hears
<1>2. mid' \in Values
  <2>1. Head(inbox) \in Messages
    BY DEF FeedInv, TypeOK, Hears, Reading
  <2>2. Heard(Head(inbox)) \in [Legs -> Quotes \cup {0}]
    BY <2>1 DEF FeedInv, TypeOK, Heard, Messages
  <2> QED
    BY <1>1, <2>2, RateType
<1>3. PriceSeen' = mid' /\ FreshSeen' = TRUE
  BY <1>1 DEF PriceSeen, FreshSeen, InTick
<1>4. VolSeen' = VolAfter(mid')
  BY <1>1 DEF VolSeen, InTick, VolAfter, Walk, Oldest, volatilityVars
<1>5. VolAfter(mid') \in Walks /\ EndsWith(VolAfter(mid'), mid')
  BY <1>2, VolAfterType, VolAfterEnds DEF FeedInv
<1>6. PairFits'
  BY <1>3, <1>4, <1>5 DEF PairFits, EndsWith
<1> QED
  BY <1>2, <1>3, <1>4, <1>5, <1>6 DEF Promised!Tick

LEMMA TickEnds ==
  ASSUME FeedInv, Notifies
  PROVE  SeenStays \/ Promised!GoesStale
<1>1. /\ step = "notify" /\ step' = "idle" /\ midPrice = mid /\ midPrice > 0
      /\ UNCHANGED <<midPrice, onTime, volCell>>
  BY ValuesType DEF FeedInv, TypeOK, StoresInOrder, Notifies
<1>2. PriceSeen' = PriceSeen /\ VolSeen' = VolSeen /\ PriceSeen > 0
  BY <1>1 DEF PriceSeen, VolSeen, InTick
<1>3. FreshSeen
  BY <1>1 DEF FreshSeen, InTick
<1>4. CASE onTime
  <2>1. FreshSeen' = FreshSeen
    BY <1>1, <1>4 DEF FreshSeen, InTick
  <2> QED
    BY <1>2, <2>1 DEF SeenStays
<1>5. CASE ~onTime
  <2>1. FreshSeen' = FALSE
    BY <1>1, <1>5 DEF FreshSeen, InTick
  <2> QED
    BY <1>2, <1>3, <2>1 DEF Promised!GoesStale
<1> QED
  BY <1>4, <1>5

LEMMA Ages ==
  ASSUME FeedInv, PriceAges
  PROVE  SeenStays \/ Promised!GoesStale
<1>1. /\ UNCHANGED <<step, mid, midPrice, volCell, volatilityVars>>
      /\ midPrice > 0 /\ onTime /\ onTime' = FALSE
  BY DEF PriceAges, tickVars
<1>2. PriceSeen' = PriceSeen /\ VolSeen' = VolSeen
  BY <1>1 DEF PriceSeen, VolSeen, InTick, VolAfter, Walk, Oldest, volatilityVars
<1>3. CASE step # "idle"
  <2>1. FreshSeen' = FreshSeen
    BY <1>1, <1>3 DEF FreshSeen, InTick
  <2> QED
    BY <1>2, <2>1 DEF SeenStays
<1>4. CASE step = "idle"
  <2>1. PriceSeen > 0 /\ FreshSeen /\ FreshSeen' = FALSE
    BY <1>1, <1>4 DEF PriceSeen, FreshSeen, InTick
  <2> QED
    BY <1>2, <2>1 DEF Promised!GoesStale
<1> QED
  BY <1>3, <1>4

LEMMA StoresUnseen ==
  ASSUME FeedInv, StoresPrice \/ StoresTimestamp \/ StoresVolatility
  PROVE  SeenStays
<1>1. step \in {"store", "stamp", "sample"} /\ step' \in {"stamp", "sample", "notify"} /\ mid' = mid
  BY DEF StoresPrice, StoresTimestamp, StoresVolatility
<1>2. PriceSeen' = PriceSeen /\ FreshSeen' = FreshSeen
  BY <1>1 DEF PriceSeen, FreshSeen, InTick
<1>3. VolSeen = VolAfter(mid)
  BY <1>1 DEF VolSeen, InTick
<1>4. CASE StoresVolatility
  <2>1. mid \in Values /\ Pushed(mid) /\ volCell' = RealizedVol' /\ step' = "notify"
    BY <1>4, PushStores DEF StoresVolatility, FeedInv, TypeOK
  <2>2. volCell' = VolAfter(mid)
    BY <2>1, VolatilityStored DEF FeedInv
  <2> QED
    BY <1>2, <1>3, <2>1, <2>2 DEF SeenStays, VolSeen
<1>5. CASE StoresPrice \/ StoresTimestamp
  <2>1. step' \in {"stamp", "sample"} /\ UNCHANGED volatilityVars
    BY <1>5 DEF StoresPrice, StoresTimestamp
  <2>2. VolSeen' = VolAfter(mid)
    BY <1>1, <2>1 DEF VolSeen, InTick, VolAfter, Walk, Oldest, volatilityVars
  <2> QED
    BY <1>2, <1>3, <2>2 DEF SeenStays
<1> QED
  BY <1>4, <1>5

(***************************************************************************)
(* Everything the engine can observe of run_feed is a behaviour of         *)
(* PriceFeed: prices are real ones, price and volatility change with a     *)
(* tick only and belong to the same one, and only a tick makes a stale     *)
(* price fresh.                                                            *)
(***************************************************************************)
THEOREM FeedImplements == Spec => KeepsPromise
<1>1. Init => Promised!FeedInit /\ PairFits
  BY DEF Init, FeedTaskInit, Promised!FeedInit, PairFits, EndsWith, PriceSeen, VolSeen, FreshSeen, InTick
<1>2. FeedInv /\ [Next]_vars =>
        \/ (\E p \in Values, v \in Walks : Promised!Tick(p, v)) /\ PairFits'
        \/ Promised!GoesStale \/ SeenStays
  <2> SUFFICES ASSUME FeedInv, [Next]_vars
               PROVE  \/ (\E p \in Values, v \in Walks : Promised!Tick(p, v)) /\ PairFits'
                      \/ Promised!GoesStale \/ SeenStays
    OBVIOUS
  <2>1. CASE Connection
    BY <2>1, SeenKept DEF Connection, Dials, StopsDialling, Connects, ConnectFails, SubscribeFails,
       Breaks, BackoffPasses, StopsReading, cellVars, tickVars
  <2>2. CASE Skips
    BY <2>2, SeenKept DEF Skips, cellVars, tickVars
  <2>3. CASE Hears
    <3>1. CASE Priced(Heard(Head(inbox)))
      BY <2>3, <3>1, TickStarts
    <3>2. CASE ~Priced(Heard(Head(inbox)))
      BY <2>3, <3>2, SeenKept DEF Hears, cellVars, tickVars
    <3> QED
      BY <3>1, <3>2
  <2>4. CASE StoresPrice \/ StoresTimestamp \/ StoresVolatility
    BY <2>4, StoresUnseen
  <2>5. CASE Notifies
    BY <2>5, TickEnds
  <2>6. CASE PriceAges
    BY <2>6, Ages
  <2>7. CASE Cancels \/ \E s \in Legs, q \in Quotes \cup {0} : MarketMoves(s, q)
    BY <2>7, SeenKept DEF Cancels, MarketMoves, cellVars, tickVars
  <2>8. CASE EngineReads
    BY <2>8, SeenKept DEF EngineReads, Wakes, Heartbeat, FindsFresh, FindsNone, FindsStale, FindsNoneStill, ReadsPrice,
       ReadsVolatility, runFeedVars, cellVars, tickVars
  <2>9. CASE UNCHANGED vars
    BY <2>9, SeenKept DEF vars, runFeedVars, cellVars, tickVars
  <2> QED
    BY <2>1, <2>2, <2>3, <2>4, <2>5, <2>6, <2>7, <2>8, <2>9
       DEF Next, FeedTaskNext, Ticking, FeedEnvironment
<1>3. FeedInv /\ [Next]_vars => [PromisedStep]_<<PriceSeen, VolSeen, FreshSeen>>
  BY <1>2 DEF PromisedStep, SeenStays
<1>4. FeedInv /\ PairFits /\ [Next]_vars => PairFits'
  BY <1>2 DEF PairFits, SeenStays, Promised!GoesStale, EndsWith
<1> QED
  BY <1>1, <1>3, <1>4, FeedInvariant, PTL
  DEF Spec, KeepsPromise, Promised!FeedSpec, Promised!feedVars, PromisedStep, PairFits
-----------------------------------------------------------------------------
(***************************************************************************)
(* The price is that of the exchange's quotes: what a connection has not   *)
(* said yet of a symbol is in its inbox, and what it has said was heard.   *)
(***************************************************************************)
Says(box, i, s) == box[i].leg = s /\ box[i].quote > 0

\* The last message about a symbol has its present quote.
LastSays(s) ==
  \A i \in 1 .. Len(inbox) :
    Says(inbox, i, s) /\ (\A j \in 1 .. Len(inbox) : j > i => ~Says(inbox, j, s))
      => inbox[i].quote = market[s]

\* With no message about it left, what was heard is its present quote.
HeardLast(s) ==
  (\A i \in 1 .. Len(inbox) : ~Says(inbox, i, s)) /\ legs[s] > 0 => legs[s] = market[s]

LegsInv == link = "up" => \A s \in Legs : LastSays(s) /\ HeardLast(s)

PublishedInv ==
  /\ step # "idle" => Priced(legs) /\ mid = Rate[legs]
  /\ link = "up" /\ step = "idle" /\ ticked => Priced(legs) /\ midPrice = Rate[legs]

MarketInv == LegsInv /\ PublishedInv

LEMMA MarketStart == Init => MarketInv
BY DEF Init, FeedTaskInit, MarketInv, LegsInv, PublishedInv

LEMMA MarketStays ==
  ASSUME MarketInv, UNCHANGED <<market, linkVars, tickVars, midPrice>>
  PROVE  MarketInv'
BY DEF MarketInv, LegsInv, LastSays, HeardLast, Says, PublishedInv, Priced, linkVars, tickVars

\* A new connection has said nothing and published nothing.
LEMMA MarketConnection ==
  ASSUME TypeOK, MarketInv, Connection
  PROVE  MarketInv'
<1>1. UNCHANGED <<market, tickVars, midPrice>>
  BY DEF Connection, Dials, StopsDialling, Connects, ConnectFails, SubscribeFails, Breaks,
         BackoffPasses, StopsReading, cellVars
<1>2. CASE Connects
  <2>1. link = "connecting" /\ inbox' = <<>> /\ legs' = Silent /\ ticked' = FALSE
    BY <1>2 DEF Connects
  <2>2. step = "idle" /\ step' = "idle"
    BY <1>1, <2>1 DEF TypeOK, tickVars
  <2>3. \A s \in Legs : ~(legs'[s] > 0)
    BY <2>1 DEF Silent
  <2> QED
    BY <2>1, <2>2, <2>3 DEF MarketInv, LegsInv, LastSays, HeardLast, PublishedInv
<1>3. CASE ~Connects
  <2>1. link' # "up" /\ UNCHANGED legs
    BY <1>3 DEF Connection, Dials, StopsDialling, ConnectFails, SubscribeFails, Breaks,
                BackoffPasses, StopsReading
  <2> QED
    BY <1>1, <2>1 DEF MarketInv, LegsInv, PublishedInv, Priced, tickVars
<1> QED
  BY <1>2, <1>3

LEMMA AppendedInbox ==
  ASSUME NEW box \in Seq(Messages), NEW m \in Messages
  PROVE  /\ Len(box) \in Nat /\ Len(Append(box, m)) = Len(box) + 1
         /\ \A i \in 1 .. Len(box) : Append(box, m)[i] = box[i]
         /\ Append(box, m)[Len(box) + 1] = m
OBVIOUS

LEMMA TailOfInbox ==
  ASSUME NEW box \in Seq(Messages), box # <<>>
  PROVE  /\ Len(box) \in Nat /\ Len(box) > 0 /\ Len(Tail(box)) = Len(box) - 1
         /\ \A i \in 1 .. Len(Tail(box)) : Tail(box)[i] = box[i + 1]
         /\ Head(box) = box[1]
OBVIOUS

\* The exchange says what it changes.
LEMMA MarketSaid ==
  ASSUME TypeOK, MarketInv, NEW s \in Legs, NEW q \in Quotes \cup {0}, MarketMoves(s, q)
  PROVE  MarketInv'
<1> DEFINE m == [leg |-> s, quote |-> q]
<1>1. UNCHANGED <<link, legs, ticked, step, mid, midPrice>>
  BY DEF MarketMoves, cellVars, tickVars
<1>2. PublishedInv'
  BY <1>1 DEF MarketInv, PublishedInv, Priced
<1>3. CASE link # "up"
  BY <1>1, <1>2, <1>3 DEF MarketInv, LegsInv
<1>4. CASE link = "up"
  <2>1. m \in Messages /\ inbox \in Seq(Messages) /\ inbox' = Append(inbox, m)
        /\ market \in [Legs -> Quotes]
    BY <1>4 DEF MarketMoves, Messages, TypeOK
  <2>2. \A t \in Legs : market'[t] = IF t = s /\ q # 0 THEN q ELSE market[t]
    BY <2>1 DEF MarketMoves
  <2>3. /\ Len(inbox) \in Nat /\ Len(inbox') = Len(inbox) + 1
        /\ \A i \in 1 .. Len(inbox) : inbox'[i] = inbox[i]
        /\ inbox'[Len(inbox) + 1].leg = s /\ inbox'[Len(inbox) + 1].quote = q
    <3> HIDE DEF m
    <3>1. /\ Len(inbox) \in Nat /\ Len(inbox') = Len(inbox) + 1
          /\ \A i \in 1 .. Len(inbox) : inbox'[i] = inbox[i]
          /\ inbox'[Len(inbox) + 1] = m
      BY <2>1, AppendedInbox
    <3> QED
      BY <3>1 DEF m
  <2>4. q \in Nat
    BY FeedAssumption
  <2>5. ASSUME NEW t \in Legs PROVE LastSays(t)'
    <3>1. SUFFICES ASSUME NEW i \in 1 .. Len(inbox'), Says(inbox', i, t),
                          \A j \in 1 .. Len(inbox') : j > i => ~Says(inbox', j, t)
                   PROVE  inbox'[i].quote = market'[t]
      BY DEF LastSays
    <3>2. CASE i = Len(inbox) + 1
      BY <2>2, <2>3, <2>4, <3>1, <3>2 DEF Says
    <3>3. CASE i \in 1 .. Len(inbox)
      <4>1. ~(t = s /\ q > 0)
        BY <2>3, <3>1, <3>3 DEF Says
      <4>2. Says(inbox, i, t) /\ \A j \in 1 .. Len(inbox) : j > i => ~Says(inbox, j, t)
        BY <2>3, <3>1, <3>3 DEF Says
      <4>3. LastSays(t)
        BY <1>4 DEF MarketInv, LegsInv
      <4>4. inbox[i].quote = market[t]
        BY <3>3, <4>2, <4>3 DEF LastSays
      <4> QED
        BY <2>2, <2>3, <2>4, <3>3, <4>1, <4>4
    <3> QED
      BY <2>3, <3>1, <3>2, <3>3
  <2>6. ASSUME NEW t \in Legs PROVE HeardLast(t)'
    <3>1. SUFFICES ASSUME \A i \in 1 .. Len(inbox') : ~Says(inbox', i, t), legs[t] > 0
                   PROVE  legs[t] = market'[t]
      BY <1>1 DEF HeardLast
    <3>2. ~(t = s /\ q > 0) /\ \A i \in 1 .. Len(inbox) : ~Says(inbox, i, t)
      BY <2>3, <3>1 DEF Says
    <3>3. HeardLast(t)
      BY <1>4 DEF MarketInv, LegsInv
    <3> QED
      BY <2>2, <2>4, <3>1, <3>2, <3>3 DEF HeardLast
  <2> QED
    BY <1>2, <2>5, <2>6 DEF MarketInv, LegsInv
<1> QED
  BY <1>3, <1>4

\* Reading a message takes it over, or skips it.
LEMMA MarketHeard ==
  ASSUME TypeOK, MarketInv, Skips \/ Hears
  PROVE  MarketInv'
<1> DEFINE m == Head(inbox)
<1>1. /\ inbox \in Seq(Messages) /\ inbox # <<>> /\ inbox' = Tail(inbox)
      /\ link = "up" /\ link' = "up" /\ step = "idle" /\ UNCHANGED <<market, ticked, midPrice>>
  BY DEF Skips, Hears, Reading, TypeOK, cellVars
<1>2. m \in Messages /\ m.leg \in Legs /\ m.quote \in Nat
  <2>1. m \in Messages
    BY <1>1
  <2> HIDE DEF m
  <2>2. m.leg \in Legs /\ m.quote \in Quotes \cup {0}
    BY <2>1 DEF Messages
  <2>3. Quotes \cup {0} \subseteq Nat
    BY FeedAssumption
  <2> QED
    BY <2>1, <2>2, <2>3
<1>3. /\ Len(inbox) \in Nat /\ Len(inbox) > 0 /\ Len(inbox') = Len(inbox) - 1
      /\ \A i \in 1 .. Len(inbox') : inbox'[i] = inbox[i + 1]
      /\ m = inbox[1]
  BY <1>1, TailOfInbox
<1>4. legs \in [Legs -> Quotes \cup {0}]
      /\ \A t \in Legs : legs'[t] = IF t = m.leg /\ m.quote > 0 THEN m.quote ELSE legs[t]
  BY <1>2 DEF Skips, Hears, Heard, TypeOK
<1> HIDE DEF m
<1>5. ASSUME NEW t \in Legs PROVE LastSays(t)'
  <2>1. SUFFICES ASSUME NEW i \in 1 .. Len(inbox'), Says(inbox', i, t),
                        \A j \in 1 .. Len(inbox') : j > i => ~Says(inbox', j, t)
                 PROVE  inbox'[i].quote = market[t]
    BY <1>1 DEF LastSays
  <2>2. i + 1 \in 1 .. Len(inbox) /\ Says(inbox, i + 1, t)
    BY <1>3, <2>1 DEF Says
  <2>3. ASSUME NEW j \in 1 .. Len(inbox), j > i + 1 PROVE ~Says(inbox, j, t)
    <3>1. j - 1 \in 1 .. Len(inbox') /\ j - 1 > i /\ (j - 1) + 1 = j
      BY <1>3, <2>1, <2>3
    <3> QED
      BY <1>3, <2>1, <3>1 DEF Says
  <2>4. inbox[i + 1].quote = market[t]
    BY <1>1, <2>2, <2>3 DEF MarketInv, LegsInv, LastSays
  <2> QED
    BY <1>3, <2>1, <2>4
<1>6. ASSUME NEW t \in Legs PROVE HeardLast(t)'
  <2>1. SUFFICES ASSUME \A i \in 1 .. Len(inbox') : ~Says(inbox', i, t), legs'[t] > 0
                 PROVE  legs'[t] = market[t]
    BY <1>1 DEF HeardLast
  <2>2. ASSUME NEW j \in 1 .. Len(inbox), j > 1 PROVE ~Says(inbox, j, t)
    <3>1. j - 1 \in 1 .. Len(inbox') /\ (j - 1) + 1 = j
      BY <1>3, <2>2
    <3> QED
      BY <1>3, <2>1, <3>1 DEF Says
  <2>3. 1 \in 1 .. Len(inbox)
    BY <1>3
  <2>4. CASE t = m.leg /\ m.quote > 0
    <3>1. inbox[1].quote = market[t]
      BY <1>1, <1>3, <2>2, <2>3, <2>4 DEF MarketInv, LegsInv, LastSays, Says
    <3> QED
      BY <1>3, <1>4, <2>4, <3>1
  <2>5. CASE ~(t = m.leg /\ m.quote > 0)
    <3>1. ~Says(inbox, 1, t)
      BY <1>3, <2>5 DEF Says
    <3>2. \A j \in 1 .. Len(inbox) : j = 1 \/ j > 1
      BY <1>3
    <3>3. \A j \in 1 .. Len(inbox) : ~Says(inbox, j, t)
      BY <2>2, <3>1, <3>2
    <3> QED
      BY <1>1, <1>4, <2>1, <2>5, <3>3 DEF MarketInv, LegsInv, HeardLast
  <2> QED
    BY <2>4, <2>5
<1>7. PublishedInv'
  <2>1. CASE Skips
    BY <1>1, <2>1 DEF Skips, MarketInv, PublishedInv, Priced, tickVars
  <2>2. CASE Hears /\ Priced(Heard(m))
    BY <2>2 DEF Hears, PublishedInv, Priced, m
  <2>3. CASE Hears /\ ~Priced(Heard(m))
    <3>1. ~Priced(legs)
      BY <1>2, <1>4, <2>3 DEF Hears, Heard, Priced, m
    <3>2. UNCHANGED <<step, mid>>
      BY <2>3 DEF Hears, tickVars, m
    <3> QED
      BY <1>1, <3>1, <3>2 DEF MarketInv, PublishedInv
  <2> QED
    BY <2>1, <2>2, <2>3
<1> QED
  BY <1>1, <1>5, <1>6, <1>7 DEF MarketInv, LegsInv

\* The stores publish the price of the legs.
LEMMA MarketStored ==
  ASSUME TypeOK, StoresInOrder, MarketInv,
         StoresPrice \/ StoresTimestamp \/ StoresVolatility \/ Notifies
  PROVE  MarketInv'
<1>1. UNCHANGED <<market, link, inbox, legs, mid>> /\ step # "idle"
  BY DEF StoresPrice, StoresTimestamp, StoresVolatility, Notifies, linkVars
<1>2. LegsInv'
  BY <1>1 DEF MarketInv, LegsInv, LastSays, HeardLast, Says
<1>3. step' = "idle" => midPrice' = mid
  BY DEF StoresPrice, StoresTimestamp, StoresVolatility, Notifies, StoresInOrder
<1>4. PublishedInv'
  BY <1>1, <1>3 DEF MarketInv, PublishedInv, Priced
<1> QED
  BY <1>2, <1>4 DEF MarketInv

LEMMA MarketStep == FeedInv /\ MarketInv /\ [Next]_vars => MarketInv'
<1> SUFFICES ASSUME FeedInv, MarketInv, [Next]_vars PROVE MarketInv'
  OBVIOUS
<1>1. TypeOK /\ StoresInOrder
  BY DEF FeedInv
<1>2. CASE EngineReads \/ PriceAges \/ Cancels \/ UNCHANGED vars
  <2>1. UNCHANGED <<market, linkVars, tickVars, midPrice>>
    BY <1>2 DEF EngineReads, Wakes, Heartbeat, FindsFresh, FindsNone, FindsStale,
                FindsNoneStill, ReadsPrice, ReadsVolatility,
                PriceAges, Cancels, vars, runFeedVars, cellVars
  <2> QED
    BY <2>1, MarketStays
<1>3. CASE Connection
  BY <1>1, <1>3, MarketConnection
<1>4. CASE Ticking
  BY <1>1, <1>4, MarketHeard, MarketStored DEF Ticking
<1>5. CASE \E s \in Legs, q \in Quotes \cup {0} : MarketMoves(s, q)
  BY <1>1, <1>5, MarketSaid
<1> QED
  BY <1>2, <1>3, <1>4, <1>5 DEF Next, FeedTaskNext, FeedEnvironment

(***************************************************************************)
(* A synthetic price never mixes two moments of the market: when all that  *)
(* came on a connection has been read, the price is that of the exchange's *)
(* present quotes.                                                         *)
(***************************************************************************)
THEOREM PriceCorrect == Spec => []PriceIsMarkets
<1>1. FeedInv /\ MarketInv => PriceIsMarkets
  <2> SUFFICES ASSUME FeedInv, MarketInv, link = "up", ticked, step = "idle", inbox = <<>>
               PROVE  midPrice = Rate[market]
    BY DEF PriceIsMarkets
  <2>1. Priced(legs) /\ midPrice = Rate[legs]
    BY DEF MarketInv, PublishedInv
  <2>2. Len(inbox) = 0
    OBVIOUS
  <2>3. \A s \in Legs : legs[s] = market[s]
    BY <2>1, <2>2 DEF MarketInv, LegsInv, HeardLast, Priced
  <2>4. legs = market
    BY <2>3 DEF FeedInv, TypeOK
  <2> QED
    BY <2>1, <2>4
<1> QED
  BY <1>1, MarketStart, MarketStep, FeedInvariant, PTL DEF Spec
=============================================================================
