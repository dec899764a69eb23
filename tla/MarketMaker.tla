----------------------------- MODULE MarketMaker -----------------------------
(***************************************************************************)
(* The running bot (cmd_run in src/main.rs): feed, account stream, engine  *)
(* and send tasks around the shared state, and the chain they write to.    *)
(* The process may stop and be started again while transactions of the     *)
(* last run are still in flight.                                           *)
(***************************************************************************)
EXTENDS Engine

CONSTANTS
  Kinds,     \* the kinds of book to start from: {"MM"}, {"LO"} or both
  Leftover,  \* whether the first run may find quotes of an earlier one
  Budget     \* bound: how often each event of the environment happens

Events == {"tick", "stale", "error", "loss", "balance", "drop", "cancel", "stop"}

ASSUME MarketMakerAssumption ==
  /\ Kinds \subseteq {"MM", "LO"}
  /\ Leftover \in BOOLEAN
  /\ Budget \in [Events -> Nat]

VARIABLE spent   \* how much of the budget is used up

vars == <<programVars, txVars, streamVars, feedVars, engineVars, spent>>

Spend(event) ==
  /\ spent[event] < Budget[event]
  /\ spent' = [spent EXCEPT ![event] = @ + 1]

-----------------------------------------------------------------------------
(***************************************************************************)
(* A book as init leaves it, or one an earlier run quoted on.              *)
(***************************************************************************)
EmptyBook(kind, inv) ==
  [kind |-> kind, seq |-> 0, mid |-> 0, levels |-> NoLevels, inv |-> inv, slot |-> 0]

QuotedBook(kind, inv, p) ==
  LET r == [price |-> p, inv |-> inv, vol |-> CalmVol, lo |-> kind = "LO"]
  IN [EmptyBook(kind, inv) EXCEPT !.mid = NewMid(r), !.levels = Target(r)]

InitialBooks ==
  {EmptyBook(kind, inv) : kind \in Kinds, inv \in Inventories} \cup
  {b \in {QuotedBook(kind, inv, p) : kind \in Kinds, inv \in Inventories,
            p \in IF Leftover THEN Prices \ Unbuildable ELSE {}} : b.levels.sizes # 0}

Init ==
  /\ book \in InitialBooks
  /\ flight = {} /\ applied = [nth |-> 0, era |-> 0]
  /\ tasks = {} /\ failures = 0
  /\ LoadBook(book)
  /\ FeedInit
  /\ EngineInit(book.seq) /\ decided = 0 /\ era = 1
  /\ spent = [event \in Events |-> 0]

-----------------------------------------------------------------------------
(***************************************************************************)
(* The chain.                                                              *)
(***************************************************************************)
WriteLands(w) ==
  /\ Lands(w)
  /\ Publishes(book')
  /\ UNCHANGED <<txVars, feedVars, engineVars, spent>>

WriteRefused(w) ==
  /\ Refused(w)
  /\ UNCHANGED <<txVars, streamVars, feedVars, engineVars, spent>>

WriteLost(w) ==
  /\ Lost(w)
  /\ Spend("loss")
  /\ UNCHANGED <<txVars, streamVars, feedVars, engineVars>>

BalanceChanges ==
  /\ \E inv \in Inventories : BalanceMoves(inv)
  /\ Publishes(book')
  /\ Spend("balance")
  /\ UNCHANGED <<txVars, feedVars, engineVars>>

-----------------------------------------------------------------------------
(***************************************************************************)
(* The send tasks; they live as long as the process does.                  *)
(***************************************************************************)
TaskSucceeds(w) ==
  /\ SendAccepted(w)
  /\ UNCHANGED <<book, applied, streamVars, feedVars, engineVars, spent>>

TaskFails(w) ==
  /\ SendFailed(w)
  /\ Spend("error")
  /\ UNCHANGED <<book, applied, streamVars, feedVars, engineVars>>

FinalClearTimesOut(w) ==
  /\ CloseTimesOut(w)
  /\ Spend("error")
  /\ UNCHANGED <<book, applied, streamVars, feedVars>>

-----------------------------------------------------------------------------
(***************************************************************************)
(* Feed and account stream.  Both end on the cancellation token, after     *)
(* which the engine reads nothing they write.                              *)
(***************************************************************************)
Alive == pc # "down"
Listening == Alive /\ ~cancelled

PriceTicks ==
  /\ Listening
  /\ \E p \in Prices, v \in Vols : Tick(p, v)
  /\ Spend("tick")
  /\ UNCHANGED <<programVars, txVars, streamVars, engineVars>>

PriceGoesStale ==
  /\ Listening
  /\ GoesStale
  /\ Spend("stale")
  /\ UNCHANGED <<programVars, txVars, streamVars, engineVars>>

AccountArrives(f) ==
  /\ Listening
  /\ HandleAccount(f)
  /\ UNCHANGED <<programVars, txVars, feedVars, engineVars, spent>>

AccountUnreadable(f) ==
  /\ Listening
  /\ SkipsFrame(f)
  /\ Spend("drop")
  /\ UNCHANGED <<programVars, txVars, feedVars, engineVars>>

SubscriptionDrops ==
  /\ Listening
  /\ StreamDrops
  /\ Spend("drop")
  /\ UNCHANGED <<programVars, txVars, feedVars, engineVars>>

SubscriptionReturns ==
  /\ Listening
  /\ Resubscribes
  /\ UNCHANGED <<programVars, txVars, feedVars, engineVars, spent>>

-----------------------------------------------------------------------------
(***************************************************************************)
(* cmd_run around the engine.                                              *)
(***************************************************************************)
\* Faulty variant: the engine is spawned before the feed has a price.
StartEngineAtOnce ==
  /\ pc = "starting"
  /\ pc' = "loop"
  /\ UNCHANGED <<programVars, txVars, streamVars, feedVars, cancelled, decisionVars, spent>>

StartEngine ==
  /\ pc = "starting" /\ price > 0
  /\ pc' = "loop"
  /\ UNCHANGED <<programVars, txVars, streamVars, feedVars, cancelled, decisionVars, spent>>

CtrlC ==
  /\ pc \in {"loop", "backoff"} /\ ~cancelled
  /\ cancelled' = TRUE
  /\ StreamEnds
  /\ Spend("cancel")
  /\ UNCHANGED <<programVars, txVars, feedVars, pc, decisionVars>>

\* Leaving the runtime drops the tasks that are still sending.
Exit ==
  /\ pc = "done"
  /\ pc' = "down"
  /\ tasks' = {}
  /\ UNCHANGED <<programVars, failures, streamVars, feedVars, cancelled, decisionVars, spent>>

\* No price within 15 seconds of the start: cmd_run gives up.
StartTimesOut ==
  /\ pc = "starting" /\ price = 0
  /\ pc' = "down"
  /\ StreamEnds
  /\ UNCHANGED <<programVars, txVars, feedVars, cancelled, decisionVars, spent>>

\* A crash or a kill, also of a process that has not reached its loop.
Crash ==
  /\ pc \notin {"done", "down"}
  /\ Spend("stop")
  /\ pc' = "down"
  /\ tasks' = {}
  /\ StreamEnds
  /\ UNCHANGED <<programVars, failures, feedVars, cancelled, decisionVars>>

\* A new process: the book is fetched anew, the rest starts from nothing.
Restart ==
  /\ pc = "down"
  /\ Spend("stop")
  /\ failures' = 0
  /\ subscribed' = FALSE /\ frames' = {} /\ missed' = FALSE
  /\ cachedMid' = book.mid /\ invSeen' = book.inv /\ onchainSeq' = book.seq
  /\ price' = 0 /\ vol' = CalmVol /\ fresh' = TRUE
  /\ pc' = "starting" /\ cancelled' = FALSE
  /\ localSeq' = book.seq
  /\ lastHash' = NoLevels /\ lastSentMid' = 0 /\ sentRecently' = FALSE
  /\ repeats' = 0
  /\ era' = era + 1
  /\ UNCHANGED <<programVars, tasks, decided>>

-----------------------------------------------------------------------------
EngineQuotes ==
  /\ EngineIdles \/ EngineReprices \/ EngineRequotes \/ EngineClears \/ EnginePullsStale
  /\ UNCHANGED <<programVars, streamVars, feedVars, spent>>

EngineControl ==
  /\ EngineTrips \/ PauseEnds \/ PauseCancelled \/ EngineCloses \/ EngineReturns
  /\ UNCHANGED <<programVars, streamVars, feedVars, spent>>

WindowPasses ==
  /\ ResendWindowPasses
  /\ UNCHANGED <<programVars, txVars, streamVars, feedVars, spent>>

Network ==
  \/ \E w \in flight : WriteLands(w) \/ WriteRefused(w) \/ WriteLost(w)
  \/ BalanceChanges

Tasks == \E w \in tasks : TaskSucceeds(w) \/ TaskFails(w) \/ FinalClearTimesOut(w)

Inputs ==
  \/ PriceTicks \/ PriceGoesStale
  \/ \E f \in frames : AccountArrives(f) \/ AccountUnreadable(f)
  \/ SubscriptionDrops \/ SubscriptionReturns

Lifecycle == StartEngine \/ StartTimesOut \/ CtrlC \/ Exit \/ Crash \/ Restart

Next == Network \/ Tasks \/ Inputs \/ Lifecycle \/ EngineQuotes \/ EngineControl \/ WindowPasses

Spec == Init /\ [][Next]_vars

(***************************************************************************)
(* The heartbeat wakes the engine, timers fire, every RPC call is answered *)
(* (the client has a request timeout), a transaction lands, fails or       *)
(* expires with its blockhash, and a dropped subscription is retried       *)
(* without limit.  Nothing is assumed of the feed, of Ctrl+C or of takers. *)
(***************************************************************************)
Fairness ==
  /\ WF_vars(EngineQuotes)
  /\ WF_vars(EngineControl)
  /\ WF_vars(WindowPasses)
  /\ WF_vars(Tasks)
  /\ WF_vars(\E w \in flight : WriteLands(w) \/ WriteRefused(w))
  /\ WF_vars(\E f \in frames : AccountArrives(f))
  /\ WF_vars(SubscriptionReturns)
  /\ WF_vars(StartEngine)
  /\ WF_vars(Exit)

FairSpec == Spec /\ Fairness
=============================================================================
