---------------------------- MODULE PriceHandoff ----------------------------
(***************************************************************************)
(* The feed task and the engine's side of their shared cells: run_engine   *)
(* (src/engine.rs) waits for the notification or the heartbeat and then    *)
(* reads age, price and volatility one after the other, while the feed's   *)
(* thread goes on storing.  What the engine makes of them is Engine's.     *)
(***************************************************************************)
EXTENDS Feed

VARIABLES
  reader,     \* what the engine does next
  priceRead,  \* the price of the cycle
  acted       \* what the last cycle acted on

readerVars == <<reader, priceRead, acted>>
vars == <<runFeedVars, readerVars>>

Readers == {"waiting", "age", "stamp", "price", "volatility"}

Init ==
  /\ FeedTaskInit
  /\ reader = "waiting" /\ priceRead = 0
  /\ acted = [stale |-> FALSE, price |-> 0, vol |-> <<>>]

-----------------------------------------------------------------------------
Wakes ==
  /\ reader = "waiting" /\ permit
  /\ permit' = FALSE
  /\ reader' = "age"
  /\ UNCHANGED <<priceRead, acted, market, linkVars, midPrice, onTime, volCell,
                 tickVars, cancelled, boundVars, volatilityVars>>

\* There is no engine before the first price: cmd_run waits for it.
Heartbeat ==
  /\ reader = "waiting" /\ midPrice > 0
  /\ reader' = "age"
  /\ UNCHANGED <<priceRead, acted, runFeedVars>>

\* price_timestamp_us > 0: the first tick stores it after the price and
\* before the first sample.
Stamped == midPrice > 0 /\ (step = "stamp" => count > 0)

\* price_timestamp_us is loaded twice: for the age, which is over the timeout
\* when there is no timestamp yet, and then to see whether there is one.  It
\* never goes back to 0, so only then can the second load say otherwise.
FindsFresh ==
  /\ reader = "age" /\ Stamped /\ onTime
  /\ reader' = "price"
  /\ UNCHANGED <<priceRead, acted, runFeedVars>>

FindsNone ==
  /\ reader = "age" /\ ~Stamped
  /\ reader' = "stamp"
  /\ UNCHANGED <<priceRead, acted, runFeedVars>>

\* Stale: the book is pulled and the cycle is over.
FindsStale ==
  /\ Stamped
  /\ reader = "stamp" \/ (reader = "age" /\ ~onTime)
  /\ reader' = "waiting"
  /\ acted' = [acted EXCEPT !.stale = TRUE]
  /\ UNCHANGED <<priceRead, runFeedVars>>

FindsNoneStill ==
  /\ reader = "stamp" /\ ~Stamped
  /\ reader' = "price"
  /\ UNCHANGED <<priceRead, acted, runFeedVars>>

ReadsPrice ==
  /\ reader = "price"
  /\ reader' = IF midPrice > 0 THEN "volatility" ELSE "waiting"
  /\ priceRead' = midPrice
  /\ UNCHANGED <<acted, runFeedVars>>

\* Faulty variant: a cycle ends by dropping the notification that came in
\* while it ran.
ReadsVolatilityDraining ==
  /\ reader = "volatility"
  /\ reader' = "waiting"
  /\ acted' = [stale |-> FALSE, price |-> priceRead, vol |-> volCell]
  /\ permit' = FALSE
  /\ UNCHANGED <<priceRead, market, linkVars, midPrice, onTime, volCell,
                 tickVars, cancelled, boundVars, volatilityVars>>

ReadsVolatility ==
  /\ reader = "volatility"
  /\ reader' = "waiting"
  /\ acted' = [stale |-> FALSE, price |-> priceRead, vol |-> volCell]
  /\ UNCHANGED <<priceRead, runFeedVars>>

EngineReads ==
  \/ Wakes \/ Heartbeat \/ FindsFresh \/ FindsNone \/ FindsStale \/ FindsNoneStill
  \/ ReadsPrice \/ ReadsVolatility

Next == (FeedTaskNext /\ UNCHANGED readerVars) \/ EngineReads

Spec == Init /\ [][Next]_vars

(***************************************************************************)
(* Both tasks are scheduled, connect_async and the backoff's sleep return. *)
(* Nothing is assumed of the exchange, of the clock or of Ctrl+C; the      *)
(* branches of an unbiased select are each taken in the end.               *)
(***************************************************************************)
FairSpec ==
  /\ Spec
  /\ WF_runFeedVars(Dials \/ StopsDialling \/ BackoffPasses)
  /\ WF_runFeedVars(Connects \/ ConnectFails)
  /\ SF_runFeedVars(StopsReading)
  /\ WF_runFeedVars(Ticking)
  /\ WF_vars(Wakes) /\ WF_vars(EngineReads)

-----------------------------------------------------------------------------
Values == {Rate[quotes] : quotes \in [Legs -> Quotes]}

TypeOK ==
  /\ market \in [Legs -> Quotes]
  /\ link \in Links /\ inbox \in Seq(Messages)
  /\ legs \in [Legs -> Quotes \cup {0}] /\ ticked \in BOOLEAN
  /\ step \in Steps /\ mid \in Values \cup {0}
  /\ step # "idle" => link = "up" /\ mid \in Values
  /\ midPrice \in Values \cup {0} /\ onTime \in BOOLEAN
  /\ volCell \in Seq(Values) /\ permit \in BOOLEAN
  /\ cancelled \in BOOLEAN
  /\ moves \in Nat /\ breaks \in Nat /\ ages \in Nat
  /\ ring \in [Slots -> Values \cup {0}] /\ head \in Slots /\ count \in 0 .. Window
  /\ samples \in Seq(Values)
  /\ reader \in Readers /\ priceRead \in Values \cup {0}
  /\ acted \in [stale : BOOLEAN, price : Values \cup {0}, vol : Seq(Values)]

(***************************************************************************)
(* volatility.rs: realized_vol walks the last Window samples, all of them, *)
(* in the order they were pushed, also after the ring has wrapped.         *)
(***************************************************************************)
WalksLastSamples ==
  Walk = SubSeq(samples, Len(samples) - count + 1, Len(samples))
  /\ count = IF Len(samples) < Window THEN Len(samples) ELSE Window

(***************************************************************************)
(* A synthetic price never mixes two moments of the market: once the feed  *)
(* has published from a connection and read all that came on it, the price *)
(* is that of the exchange's present quotes, whatever an earlier           *)
(* connection left behind (feed.rs: both legs start at zero).              *)
(***************************************************************************)
PriceIsMarkets ==
  link = "up" /\ ticked /\ step = "idle" /\ inbox = <<>> => midPrice = Rate[market]

(***************************************************************************)
(* README.md: "when the feed delivers a new mid price ... the engine fires *)
(* an update immediately": no tick is slept through, even without the      *)
(* heartbeat.  An engine that waits with no notification pending has acted *)
(* on the latest price and its volatility, unless it found that price too  *)
(* old.                                                                    *)
(***************************************************************************)
NoTickSleptThrough ==
  reader = "waiting" /\ ~permit /\ step = "idle" /\ midPrice > 0
    => \/ acted = [stale |-> FALSE, price |-> midPrice, vol |-> volCell]
       \/ acted.stale /\ ~onTime

(***************************************************************************)
(* The feed implements PriceFeed, which Engine is written against: seen    *)
(* from the moment handle_tick starts, a tick is one step, and the         *)
(* volatility it leaves is that of a window whose last sample is its own   *)
(* price (feed.rs stores the two one after the other).                     *)
(***************************************************************************)
InTick == step # "idle"
Walks == UNION {[1 .. n -> Values] : n \in 0 .. Window}
VolAfter(p) ==
  LET walk == Append(Walk, p)
  IN IF count = 0 THEN <<>> ELSE IF count = Window THEN Tail(walk) ELSE walk

PriceSeen == IF InTick THEN mid ELSE midPrice
VolSeen == IF InTick /\ step # "notify" THEN VolAfter(mid) ELSE volCell
FreshSeen == InTick \/ onTime

Promised == INSTANCE PriceFeed WITH
  Prices <- Values, Vols <- Walks, CalmVol <- <<>>,
  price <- PriceSeen, vol <- VolSeen, fresh <- FreshSeen

EndsWith(walk, p) == walk = <<>> \/ walk[Len(walk)] = p

KeepsPromise == Promised!FeedSpec /\ []EndsWith(VolSeen, PriceSeen)

(***************************************************************************)
(* The token ends the task, also while the exchange cannot be reached.     *)
(***************************************************************************)
FeedEnds == cancelled ~> link = "ended"
=============================================================================
