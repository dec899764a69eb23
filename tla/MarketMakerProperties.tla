------------------------ MODULE MarketMakerProperties ------------------------
(***************************************************************************)
(* What the running bot must and must not do.                              *)
(***************************************************************************)
EXTENDS MarketMaker

\* The type invariant of every component's variables; an engine that runs
\* has a price (cmd_run waits for the first one).
TypeOK ==
  /\ book \in Books /\ flight \subseteq Writes
  /\ applied \in [nth : Nat, era : Nat]
  /\ tasks \subseteq Writes /\ failures \in Nat
  /\ subscribed \in BOOLEAN /\ frames \subseteq Frames /\ missed \in BOOLEAN
  /\ cachedMid \in Nat /\ invSeen \in Inventories /\ onchainSeq \in Nat
  /\ price \in Prices \cup {0} /\ vol \in Vols /\ fresh \in BOOLEAN
  /\ pc \in PCs /\ cancelled \in BOOLEAN
  /\ pc \in {"loop", "backoff"} => price \in Prices
  /\ localSeq \in Nat /\ lastHash \in Levels \cup {NoLevels} /\ lastSentMid \in Nat
  /\ sentRecently \in BOOLEAN
  /\ decided \in Nat /\ era \in Nat /\ repeats \in Nat
  /\ spent \in [Events -> Nat]

\* Transactions that may still change the book.
Live == tasks \cup flight

(***************************************************************************)
(* A repricing write is never beyond the program's sequence jump, however  *)
(* many sends were lost and however late the account stream is             *)
(* (engine.rs: MAX_LOCAL_SEQ_LEAD is "well inside" MAX_SEQUENCE_JUMP).     *)
(***************************************************************************)
RepriceWithinJump ==
  \A w \in Live : w.kind # "clear" => w.first <= book.seq + MaxJump

(***************************************************************************)
(* Between two resets of the engine's counter, the program refuses as      *)
(* stale exactly the writes a later decision has overtaken: the counter is *)
(* in step with the chain, also across the two numbers of a full write     *)
(* (quote.rs, update_instructions).                                        *)
(***************************************************************************)
StaleIffOvertaken ==
  \A w \in Live : w.era = applied.era => (w.first <= book.seq <=> w.nth < applied.nth)

(***************************************************************************)
(* Between two resets of the counter an old decision never overwrites a    *)
(* newer one, in whatever order transactions reach the leader: in          *)
(* particular no write that was in flight when a clear landed brings the   *)
(* pulled quotes back.                                                     *)
(***************************************************************************)
LandsInDecisionOrder ==
  [][applied' # applied /\ applied'.era = applied.era => applied'.nth > applied.nth]_vars

\* A transaction as a decision, and the bot as DecisionOrder sees it.
Decision(w) == [nth |-> w.nth, era |-> w.era, keeps |-> w.kind = "mid", levels |-> w.levels]

Ordered == INSTANCE DecisionOrder
  WITH made <- decided, epoch <- era, pending <- {Decision(w) : w \in Live},
       shown <- applied, levels <- book.levels

(***************************************************************************)
(* Counter, account stream, send tasks and chain amount to DecisionOrder:  *)
(* the sequence numbers do what a total order of the decisions would, over *)
(* crashes, restarts and resets of the counter.                            *)
(***************************************************************************)
KeepsOrder == Ordered!OrderSpec

(***************************************************************************)
(* With frames in slot order, a stream that has delivered everything and   *)
(* lost nothing shows the account as it is.                                *)
(***************************************************************************)
CaughtUpViewIsExact ==
  FramesOrdered /\ ~missed /\ frames = {}
    => cachedMid = book.mid /\ invSeen = book.inv /\ onchainSeq = book.seq

\* Paused by the breaker or past the cancel branch: the last decision was a clear.
Withdrawing == pc \in {"backoff", "closing", "done"}

(***************************************************************************)
(* The clear of the breaker and the last ClearBook of the cancel branch    *)
(* (engine.rs): once it has executed, the book is empty, and nothing sent  *)
(* before it brings quotes back, except a write of before a reset of the   *)
(* counter.                                                                *)
(***************************************************************************)
ClearIsLastWord ==
  [][Withdrawing /\ applied.nth = decided =>
       /\ book.levels = NoLevels
       /\ book'.levels # NoLevels => applied'.era # era]_vars

-----------------------------------------------------------------------------
\* Nothing was lost on the way to the chain.
Lossless == spent["loss"] = 0 /\ spent["error"] = 0

\* The engine is quoting and the strategy has quotes for what it reads.
HasQuotes == Steady /\ price > 0 /\ ~WantsClear(Reading)
CanReprice == HasQuotes /\ book.kind = "MM" /\ book.levels # NoLevels

(***************************************************************************)
(* README.md: "the engine compares the freshest price against the on-chain *)
(* mid and sends an update only if they differ (so a dropped update is     *)
(* retried ...)".  On an MM book that keeps its quotes, the mid settles on *)
(* the price, whatever mid updates were lost, late or overtaken, as long   *)
(* as the account stream does not swallow the book's last change.          *)
(***************************************************************************)
Reprices == <>[](CanReprice /\ ~missed) => <>[](book.mid = price)

(***************************************************************************)
(* The other half: "a book that is already correct is left alone", and so  *)
(* is one that a write on its way will correct (engine.rs: "unless exactly *)
(* these ticks were sent moments ago").  No mid update is sent while the   *)
(* last write carries that mid and may still land, nor when a caught-up    *)
(* stream says that the book has it.  MID_RESEND_AFTER is taken to outlast *)
(* a delivery.                                                             *)
(***************************************************************************)
Underway(m) == \E u \in Live : u.nth = decided /\ u.kind # "clear" /\ u.mid = m

RepricesOnlyIfNeeded ==
  [][WindowCoversDelivery =>
       \A w \in tasks' \ tasks : w.kind = "mid" =>
         /\ ~Underway(w.mid)
         /\ FramesOrdered /\ ~missed /\ frames = {} => book.mid # w.mid]_vars

(***************************************************************************)
(* default.toml: "If no price update for this long, pull all quotes."      *)
(***************************************************************************)
StalePulls == <>[](Selecting /\ ~fresh) => <>[](book.levels = NoLevels)

(***************************************************************************)
(* A tripped breaker is not the end: its own clears probe the RPC node, so *)
(* an engine that is left running quotes again (engine.rs).                *)
(***************************************************************************)
BreakerReleases ==
  <>[](pc \in {"loop", "backoff"} /\ ~cancelled) => <>[]~Tripped

(***************************************************************************)
(* Ctrl+C stops the process: no branch of the engine misses the token, and *)
(* the wait for the final clear is bounded.                                *)
(***************************************************************************)
ShutdownCompletes == cancelled ~> pc = "down"

(***************************************************************************)
(* README.md: "Ctrl+C -- clears the book on shutdown", when the network    *)
(* loses nothing and the counter was never reset: no write fired before    *)
(* the final clear outlives it.  A reset on an account stream that is late *)
(* can leave the final clear a number the book has passed.                 *)
(***************************************************************************)
ShutdownEmptiesBook ==
  <>[](cancelled /\ Lossless /\ era = 1) => <>[](book.levels = NoLevels)
-----------------------------------------------------------------------------
(***************************************************************************)
(* The properties below are what the repository says of the program and    *)
(* the program does not do; each has a run that shows how.                 *)
(***************************************************************************)

(***************************************************************************)
(* engine.rs: the last ClearBook is "Awaited, not fired: the process exits *)
(* as soon as this task returns, which would drop a spawned send           *)
(* mid-flight and leave the quotes resting."                               *)
(***************************************************************************)
NothingAwaitedAtReturn == pc = "done" => ~LastUnanswered

(***************************************************************************)
(* README.md: the heartbeat retries "a dropped update".  The structure of  *)
(* the book settles on what the strategy wants.                            *)
(***************************************************************************)
StructureConverges ==
  <>[]HasQuotes => <>[](price > 0 /\ book.levels = Target(Reading))

(***************************************************************************)
(* engine.rs, at the drift rule: a counter that drifted falls back "rather *)
(* than march toward the program's jump ceiling, after which every write   *)
(* is rejected".  No write is beyond the jump, the clears included.        *)
(***************************************************************************)
WithinJump == \A w \in Live : w.first <= book.seq + MaxJump
=============================================================================
