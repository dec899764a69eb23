-------------------------------- MODULE Feed --------------------------------
(***************************************************************************)
(* run_feed (src/feed.rs): one connection to the exchange after another,   *)
(* the quotes of one or two symbols heard on the current one, and the      *)
(* stores of handle_tick into the shared state, which the engine's thread  *)
(* can read between any two of them.  Environment: the exchange pushes a   *)
(* symbol's quote when it changes, in order, on a connection that may      *)
(* break at any moment.                                                    *)
(***************************************************************************)
EXTENDS Volatility

CONSTANTS
  Legs,      \* {"primary"}, or {"primary", "cross"} for a synthetic price
  Quotes,    \* the quotes of a symbol, as numbers
  Rate,      \* [Legs -> Quotes] to the mid the quotes give
  MaxMoves,  \* bound: messages of the exchange
  MaxBreaks, \* bound: connections that fail after they were made
  MaxAges    \* bound: times the last price outlives staleness_timeout_ms

ASSUME FeedAssumption ==
  /\ Legs \in {{"primary"}, {"primary", "cross"}}
  /\ Quotes \subseteq Nat \ {0}
  /\ Rate \in [[Legs -> Quotes] -> Nat \ {0}]
  /\ MaxMoves \in Nat /\ MaxBreaks \in Nat /\ MaxAges \in Nat

VARIABLES
  market,     \* the exchange's quotes
  link,       \* where run_feed is
  inbox,      \* messages on the connection, not yet read
  legs,       \* primary and cross bid/ask; 0: not heard on this connection
  ticked,     \* history: a price was published from this connection
  step,       \* the next store of handle_tick, "idle" outside it
  mid,        \* the price handle_tick is publishing
  midPrice,   \* state.mid_price
  onTime,     \* the age of state.price_timestamp_us is within the timeout
  volCell,    \* state.volatility_bps
  permit,     \* the stored permit of state.price_notify
  cancelled,  \* the cancellation token
  moves, breaks, ages

linkVars == <<link, inbox, legs, ticked>>
cellVars == <<midPrice, onTime, volCell, permit>>
tickVars == <<step, mid>>
boundVars == <<moves, breaks, ages>>
runFeedVars == <<market, linkVars, cellVars, tickVars, cancelled, boundVars, volatilityVars>>

Links == {"top", "connecting", "up", "waiting", "ended"}
Steps == {"idle", "store", "stamp", "sample", "notify"}
Silent == [s \in Legs |-> 0]

\* A message names a symbol and its quote; 0 is one the parser refuses
\* (crossed, not positive, or of another kind altogether).
Messages == [leg : Legs, quote : Quotes \cup {0}]

FeedTaskInit ==
  /\ market \in [Legs -> Quotes]
  /\ link = "top" /\ inbox = <<>> /\ legs = Silent /\ ticked = FALSE
  /\ step = "idle" /\ mid = 0
  /\ midPrice = 0 /\ onTime = TRUE /\ volCell = <<>> /\ permit = FALSE
  /\ cancelled = FALSE
  /\ moves = 0 /\ breaks = 0 /\ ages = 0
  /\ VolatilityInit

-----------------------------------------------------------------------------
(***************************************************************************)
(* Connections.  connecting covers connect_async and the subscribe send.   *)
(***************************************************************************)
Dials ==
  /\ link = "top" /\ ~cancelled
  /\ link' = "connecting"
  /\ UNCHANGED <<market, inbox, legs, ticked, cellVars, tickVars, cancelled, boundVars, volatilityVars>>

\* Faulty variant: the token is only looked at while a connection is up.
KeepsDialling ==
  /\ link = "top" /\ cancelled
  /\ link' = "connecting"
  /\ UNCHANGED <<market, inbox, legs, ticked, cellVars, tickVars, cancelled, boundVars, volatilityVars>>

StopsDialling ==
  /\ link = "top" /\ cancelled
  /\ link' = "ended"
  /\ UNCHANGED <<market, inbox, legs, ticked, cellVars, tickVars, cancelled, boundVars, volatilityVars>>

\* Faulty variant: the quotes of the last connection are kept.
ConnectsWithOldLegs ==
  /\ link = "connecting"
  /\ link' = "up"
  /\ inbox' = <<>> /\ ticked' = FALSE
  /\ UNCHANGED <<market, legs, cellVars, tickVars, cancelled, boundVars, volatilityVars>>

\* Every connection starts with both legs unheard.
Connects ==
  /\ link = "connecting"
  /\ link' = "up"
  /\ inbox' = <<>> /\ legs' = Silent /\ ticked' = FALSE
  /\ UNCHANGED <<market, cellVars, tickVars, cancelled, boundVars, volatilityVars>>

ConnectFails ==
  /\ link = "connecting"
  /\ link' = "waiting"
  /\ UNCHANGED <<market, inbox, legs, ticked, cellVars, tickVars, cancelled, boundVars, volatilityVars>>

\* The one failure that is retried without a pause.
SubscribeFails ==
  /\ link = "connecting" /\ breaks < MaxBreaks
  /\ link' = "top"
  /\ breaks' = breaks + 1
  /\ UNCHANGED <<market, inbox, legs, ticked, cellVars, tickVars, cancelled, moves, ages, volatilityVars>>

\* Closed by the peer or failed: what was not read is gone.
Breaks ==
  /\ link = "up" /\ step = "idle" /\ breaks < MaxBreaks
  /\ link' = "waiting"
  /\ inbox' = <<>>
  /\ breaks' = breaks + 1
  /\ UNCHANGED <<market, legs, ticked, cellVars, tickVars, cancelled, moves, ages, volatilityVars>>

BackoffPasses ==
  /\ link = "waiting"
  /\ link' = "top"
  /\ UNCHANGED <<market, inbox, legs, ticked, cellVars, tickVars, cancelled, boundVars, volatilityVars>>

StopsReading ==
  /\ link = "up" /\ step = "idle" /\ cancelled
  /\ link' = "ended"
  /\ UNCHANGED <<market, inbox, legs, ticked, cellVars, tickVars, cancelled, boundVars, volatilityVars>>

-----------------------------------------------------------------------------
(***************************************************************************)
(* Messages and ticks.                                                     *)
(***************************************************************************)
Reading == link = "up" /\ step = "idle" /\ inbox # <<>>

\* A refused message is skipped whole.
Skips ==
  /\ Reading /\ Head(inbox).quote = 0
  /\ inbox' = Tail(inbox)
  /\ UNCHANGED <<market, link, legs, ticked, cellVars, tickVars, cancelled, boundVars, volatilityVars>>

\* A quote is kept, and priced once every leg has been heard.
Heard(m) == [legs EXCEPT ![m.leg] = m.quote]
Priced(quotes) == \A s \in Legs : quotes[s] > 0

Hears ==
  /\ Reading /\ Head(inbox).quote > 0
  /\ LET now == Heard(Head(inbox))
     IN /\ legs' = now
        /\ IF Priced(now) THEN step' = "store" /\ mid' = Rate[now]
                          ELSE UNCHANGED tickVars
  /\ inbox' = Tail(inbox)
  /\ UNCHANGED <<market, link, ticked, cellVars, cancelled, boundVars, volatilityVars>>

StoresPrice ==
  /\ step = "store"
  /\ step' = "stamp"
  /\ midPrice' = mid
  /\ UNCHANGED <<market, linkVars, mid, onTime, volCell, permit, cancelled, boundVars, volatilityVars>>

StoresTimestamp ==
  /\ step = "stamp"
  /\ step' = "sample"
  /\ onTime' = TRUE
  /\ UNCHANGED <<market, linkVars, mid, midPrice, volCell, permit, cancelled, boundVars, volatilityVars>>

\* Faulty variant: the volatility stored is the one before the sample.
StoresVolatilityFirst ==
  /\ step = "sample"
  /\ step' = "notify"
  /\ Push(mid)
  /\ volCell' = RealizedVol
  /\ UNCHANGED <<market, linkVars, mid, midPrice, onTime, permit, cancelled, boundVars>>

StoresVolatility ==
  /\ step = "sample"
  /\ step' = "notify"
  /\ Push(mid)
  /\ volCell' = RealizedVol'
  /\ UNCHANGED <<market, linkVars, mid, midPrice, onTime, permit, cancelled, boundVars>>

Notifies ==
  /\ step = "notify"
  /\ step' = "idle"
  /\ permit' = TRUE
  /\ ticked' = TRUE
  /\ UNCHANGED <<market, link, inbox, legs, mid, midPrice, onTime, volCell, cancelled, boundVars, volatilityVars>>

-----------------------------------------------------------------------------
(***************************************************************************)
(* The exchange, the clock and Ctrl+C.                                     *)
(***************************************************************************)
MarketMoves(s, q) ==
  /\ moves < MaxMoves
  /\ q # market[s]
  /\ market' = IF q = 0 THEN market ELSE [market EXCEPT ![s] = q]
  /\ inbox' = IF link = "up" THEN Append(inbox, [leg |-> s, quote |-> q]) ELSE inbox
  /\ moves' = moves + 1
  /\ UNCHANGED <<link, legs, ticked, cellVars, tickVars, cancelled, breaks, ages, volatilityVars>>

PriceAges ==
  /\ midPrice > 0 /\ onTime /\ ages < MaxAges
  /\ onTime' = FALSE
  /\ ages' = ages + 1
  /\ UNCHANGED <<market, linkVars, midPrice, volCell, permit, tickVars, cancelled, moves, breaks, volatilityVars>>

Cancels ==
  /\ ~cancelled
  /\ cancelled' = TRUE
  /\ UNCHANGED <<market, linkVars, cellVars, tickVars, boundVars, volatilityVars>>

-----------------------------------------------------------------------------
Connection ==
  \/ Dials \/ StopsDialling \/ Connects \/ ConnectFails \/ SubscribeFails
  \/ Breaks \/ BackoffPasses \/ StopsReading

Ticking == Skips \/ Hears \/ StoresPrice \/ StoresTimestamp \/ StoresVolatility \/ Notifies

FeedEnvironment ==
  (\E s \in Legs, q \in Quotes \cup {0} : MarketMoves(s, q)) \/ PriceAges \/ Cancels

FeedTaskNext == Connection \/ Ticking \/ FeedEnvironment
=============================================================================
