------------------------------- MODULE Engine -------------------------------
(***************************************************************************)
(* run_engine (src/engine.rs), one action per way a cycle can end.  A cycle*)
(* contains no await between reading the shared state and firing, so it is *)
(* one step; waiting is what lies between the steps.  needs_initial_book   *)
(* is not kept: it is set and reset together with last_structure_hash, and *)
(* a hash of 0 (NoLevels) says the same.                                   *)
(***************************************************************************)
EXTENDS AccountStream, PriceFeed, FiniteSets

CONSTANTS
  MaxLead,              \* MAX_LOCAL_SEQ_LEAD
  FailureLimit,         \* consecutive failures that trip the breaker
  WindowCoversDelivery, \* whether MID_RESEND_AFTER outlasts every delivery
  MaxSends,             \* bound: transactions the engine decides on
  MaxLive,              \* bound: transactions it fires before others are gone
  MaxRepeats            \* bound: clears in a row

ASSUME EngineAssumption ==
  /\ MaxLead \in Nat /\ MaxLead < MaxJump
  /\ FailureLimit \in Nat \ {0}
  /\ WindowCoversDelivery \in BOOLEAN
  /\ MaxSends \in Nat /\ MaxLive \in Nat /\ MaxRepeats \in Nat

VARIABLES
  pc,            \* where the process is
  cancelled,     \* the cancellation token
  localSeq,      \* local_seq
  lastHash,      \* last_structure_hash
  lastSentMid,   \* last_sent_mid_ticks
  sentRecently,  \* MID_RESEND_AFTER has not passed since last_sent_at_us
  decided,       \* history: transactions decided on so far, over all runs
  era,           \* history: resets of localSeq so far
  repeats        \* clears since the last other transaction

controlVars == <<pc, cancelled>>
decisionVars == <<localSeq, lastHash, lastSentMid, sentRecently, decided, era, repeats>>
engineVars == <<controlVars, decisionVars>>

\* pc: waiting for the first price, selecting or cycling, in the breaker's
\* pause, awaiting the final ClearBook, returned, and no process at all.
PCs == {"starting", "loop", "backoff", "closing", "done", "down"}

(***************************************************************************)
(* The state run_engine starts from, with the sequence number cmd_run      *)
(* fetched.                                                                *)
(***************************************************************************)
EngineInit(seq) ==
  /\ pc = "starting" /\ cancelled = FALSE
  /\ localSeq = seq
  /\ lastHash = NoLevels /\ lastSentMid = 0 /\ sentRecently = FALSE
  /\ repeats = 0

\* Faulty variant: the lead is measured against the program's own limit.
DriftedAtJump == localSeq > onchainSeq + MaxJump

Drifted == localSeq > onchainSeq + MaxLead

\* Faulty variant: the counter is only ever moved back.
SyncedBackOnly == IF Drifted THEN onchainSeq ELSE localSeq

\* The resync every quoting cycle starts with, whatever it then decides.
Synced == IF onchainSeq > localSeq \/ Drifted THEN onchainSeq ELSE localSeq
SyncedEra == IF Drifted THEN era + 1 ELSE era

Reading ==
  [price |-> price, ref |-> IF cachedMid > 0 THEN cachedMid ELSE lastSentMid,
   hash |-> lastHash, inv |-> invSeen, vol |-> vol, lo |-> book.kind = "LO"]

ClearTx(seq, e) ==
  [kind |-> "clear", first |-> seq, last |-> seq, mid |-> 0,
   levels |-> NoLevels, nth |-> decided + 1, era |-> e]

MidTx ==
  [kind |-> "mid", first |-> Synced + 1, last |-> Synced + 1, mid |-> price,
   levels |-> NoLevels, nth |-> decided + 1, era |-> SyncedEra]

FullTx ==
  [kind |-> "full", first |-> Synced + 1, last |-> LastSequence(Reading, Synced + 1),
   mid |-> NewMid(Reading), levels |-> Target(Reading), nth |-> decided + 1, era |-> SyncedEra]

Selecting == pc = "loop" /\ ~cancelled
Tripped == failures >= FailureLimit
Steady == Selecting /\ ~Tripped /\ fresh

\* Faulty variant: the counter moves by one, whatever the write uses up.
SendsCountingOne(w) ==
  /\ decided < MaxSends /\ Cardinality(tasks \cup flight) < MaxLive
  /\ Fire(w)
  /\ localSeq' = w.first
  /\ decided' = w.nth
  /\ era' = w.era
  /\ UNCHANGED failures

\* Fires w and moves the counter to its last sequence number.
Sends(w) ==
  /\ decided < MaxSends /\ Cardinality(tasks \cup flight) < MaxLive
  /\ Fire(w)
  /\ localSeq' = w.last
  /\ decided' = w.nth
  /\ era' = w.era
  /\ UNCHANGED failures

\* Bound: a probe of the breaker is let through when it is the only one.
MayRepeat == repeats < MaxRepeats \/ (Tripped /\ tasks = {})

SendsClear(w) ==
  /\ MayRepeat
  /\ Sends(w)
  /\ repeats' = repeats + 1
  /\ lastHash' = NoLevels
  /\ UNCHANGED <<lastSentMid, sentRecently>>

\* Faulty variant: a mid once sent is never sent again.
MidIsFineOnceSent == price = cachedMid \/ price = lastSentMid

\* The mid needs no update: it is on the book already, or on its way to it.
MidIsFine == price = cachedMid \/ (price = lastSentMid /\ sentRecently)

EngineIdles ==
  /\ Steady
  /\ WantsNothing(Reading) \/ (WantsMid(Reading) /\ MidIsFine)
  /\ localSeq' = Synced
  /\ era' = SyncedEra
  /\ UNCHANGED <<controlVars, txVars, lastHash, lastSentMid, sentRecently, decided, repeats>>

EngineReprices ==
  /\ Steady
  /\ WantsMid(Reading) /\ ~MidIsFine
  /\ Sends(MidTx)
  /\ lastSentMid' = price
  /\ sentRecently' = TRUE
  /\ repeats' = 0
  /\ UNCHANGED <<controlVars, lastHash>>

\* Faulty variant: the time of a full write is not noted.
EngineRequotesUntimed ==
  /\ Steady
  /\ WantsFull(Reading)
  /\ Sends(FullTx)
  /\ lastSentMid' = NewMid(Reading)
  /\ lastHash' = Target(Reading)
  /\ repeats' = 0
  /\ UNCHANGED <<controlVars, sentRecently>>

\* The hash is taken over when the write is fired, not when it lands.
EngineRequotes ==
  /\ Steady
  /\ WantsFull(Reading)
  /\ Sends(FullTx)
  /\ lastSentMid' = NewMid(Reading)
  /\ sentRecently' = TRUE
  /\ lastHash' = Target(Reading)
  /\ repeats' = 0
  /\ UNCHANGED controlVars

EngineClears ==
  /\ Steady
  /\ WantsClear(Reading)
  /\ SendsClear(ClearTx(Synced + 1, SyncedEra))
  /\ UNCHANGED controlVars

\* Faulty variants: the pull is sent once, not until it lands; and it takes
\* its number from the account stream's view.
EnginePullsOnce ==
  /\ Selecting /\ ~Tripped /\ ~fresh /\ lastHash # NoLevels
  /\ SendsClear(ClearTx(localSeq + 1, era))
  /\ UNCHANGED controlVars

EnginePullsFromView ==
  /\ Selecting /\ ~Tripped /\ ~fresh
  /\ SendsClear(ClearTx(onchainSeq + 1, era))
  /\ UNCHANGED controlVars

\* The two emergency clears come before the resync.
EnginePullsStale ==
  /\ Selecting /\ ~Tripped /\ ~fresh
  /\ SendsClear(ClearTx(localSeq + 1, era))
  /\ UNCHANGED controlVars

\* Faulty variant: nothing is sent while the breaker is open.
EngineTripsQuietly ==
  /\ Selecting /\ Tripped
  /\ lastHash' = NoLevels
  /\ pc' = "backoff"
  /\ UNCHANGED <<cancelled, txVars, localSeq, lastSentMid, sentRecently, decided, era, repeats>>

EngineTrips ==
  /\ Selecting /\ Tripped
  /\ SendsClear(ClearTx(localSeq + 1, era))
  /\ pc' = "backoff"
  /\ UNCHANGED cancelled

PauseEnds ==
  /\ pc = "backoff"
  /\ pc' = "loop"
  /\ UNCHANGED <<cancelled, txVars, decisionVars>>

PauseCancelled ==
  /\ pc = "backoff" /\ cancelled
  /\ pc' = "done"
  /\ UNCHANGED <<cancelled, txVars, decisionVars>>

\* Faulty variants: a tripped breaker hides the token; the final clear repeats
\* the last number used, or takes the one after the view's.
EngineClosesUntripped ==
  /\ pc = "loop" /\ cancelled /\ ~Tripped
  /\ LET w == ClearTx(localSeq + 1, era)
     IN /\ Fire(w)
        /\ localSeq' = w.last
        /\ decided' = w.nth
  /\ pc' = "closing"
  /\ UNCHANGED <<cancelled, failures, lastHash, lastSentMid, sentRecently, era, repeats>>

EngineClosesUncounted ==
  /\ pc = "loop" /\ cancelled
  /\ LET w == ClearTx(localSeq, era)
     IN /\ Fire(w)
        /\ localSeq' = w.last
        /\ decided' = w.nth
  /\ pc' = "closing"
  /\ UNCHANGED <<cancelled, failures, lastHash, lastSentMid, sentRecently, era, repeats>>

EngineClosesFromView ==
  /\ pc = "loop" /\ cancelled
  /\ LET w == ClearTx(onchainSeq + 1, era)
     IN /\ Fire(w)
        /\ localSeq' = w.last
        /\ decided' = w.nth
  /\ pc' = "closing"
  /\ UNCHANGED <<cancelled, failures, lastHash, lastSentMid, sentRecently, era, repeats>>

\* The cancel branch: one more clear, awaited by the engine itself.
EngineCloses ==
  /\ pc = "loop" /\ cancelled
  /\ LET w == ClearTx(localSeq + 1, era)
     IN /\ Fire(w)
        /\ localSeq' = w.last
        /\ decided' = w.nth
  /\ pc' = "closing"
  /\ UNCHANGED <<cancelled, failures, lastHash, lastSentMid, sentRecently, era, repeats>>

\* The transaction decided on last has not been answered.
LastUnanswered == \E w \in tasks : w.nth = decided

EngineReturns ==
  /\ pc = "closing" /\ ~LastUnanswered
  /\ pc' = "done"
  /\ UNCHANGED <<cancelled, txVars, decisionVars>>

\* SHUTDOWN_CLEAR_TIMEOUT passes while send_now is pending.
CloseTimesOut(w) ==
  /\ pc = "closing" /\ w.nth = decided
  /\ SendAbandoned(w)
  /\ pc' = "done"
  /\ UNCHANGED <<cancelled, decisionVars>>

\* MID_RESEND_AFTER passes.
ResendWindowPasses ==
  /\ pc = "loop" /\ sentRecently
  /\ WindowCoversDelivery => subscribed /\ tasks = {} /\ flight = {} /\ frames = {}
  /\ sentRecently' = FALSE
  /\ UNCHANGED <<controlVars, localSeq, lastHash, lastSentMid, decided, era, repeats>>
=============================================================================
