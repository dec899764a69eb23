----------------------------- MODULE AccountView -----------------------------
(***************************************************************************)
(* src/fills.rs and the engine's side of its cells, access by access.      *)
(* run_fills keeps a subscription alive; handle_account copies a frame     *)
(* into four atomics while run_engine (src/engine.rs) loads them, on       *)
(* another thread.  All accesses are Relaxed: the stores of a frame and    *)
(* the loads of a cycle take effect in any order.                          *)
(***************************************************************************)
EXTENDS Naturals

CONSTANTS
  Mids,            \* mids the book may have
  MaxLots,         \* base and quote lots of the maker
  MaxChanges,      \* bound: changes of the account
  MaxBreaks        \* bound: awaits that fail and streams that close

ASSUME ViewAssumption ==
  /\ Mids \subseteq Nat /\ Mids # {}
  /\ MaxLots \in Nat /\ MaxChanges \in Nat /\ MaxBreaks \in Nat

VARIABLES
  book,        \* the account; slot orders its changes
  link,        \* where run_fills is
  frames,      \* account states sent and not taken from the stream
  missed,      \* history: the account's last change is not what is copied last
  frame,       \* what handle_account is copying
  unstored,    \* the cells it has not stored yet
  cell,        \* the shared atomics
  unread,      \* the cells the engine's cycle has not loaded yet
  reading,     \* what its loads returned
  acted,       \* what the last whole cycle acted on
  cancelled,
  breaks

nodeVars == <<book, frames, missed>>
linkVars == <<link, breaks>>
storeVars == <<frame, unstored, cell>>
readVars == <<unread, reading, acted>>
vars == <<nodeVars, linkVars, storeVars, readVars, cancelled>>

Cells == {"seq", "mid", "base", "quote"}
Views == [Cells -> Nat]
Accounts == [slot : Nat, view : Views]

\* PubsubClient::new, logs_subscribe, account_subscribe, one after the other.
Then == [dialling |-> "logs", logs |-> "account", account |-> "up"]
Connecting == DOMAIN Then
Links == {"starting", "waiting", "up", "ended"} \cup Connecting

\* What cmd_run loads into the shared state before it spawns the task.
Init ==
  /\ cell \in [Cells -> Mids \cup 0 .. MaxLots]
  /\ cell["seq"] = 0 /\ cell["mid"] \in Mids
  /\ cell["base"] <= MaxLots /\ cell["quote"] <= MaxLots
  /\ book = [slot |-> 0, view |-> cell]
  /\ link = "starting" /\ frames = {} /\ missed = FALSE
  /\ frame = book /\ unstored = {}
  /\ unread = {} /\ reading = cell /\ acted = cell
  /\ cancelled = FALSE /\ breaks = 0

-----------------------------------------------------------------------------
(***************************************************************************)
(* The account: a fill moves lots, a write moves the mid and the number.   *)
(* The node sends it to whoever is subscribed.                             *)
(***************************************************************************)
Changes(view) ==
  /\ book.slot < MaxChanges
  /\ book' = [slot |-> book.slot + 1, view |-> view]
  /\ frames' = IF link = "up" THEN frames \cup {book'} ELSE frames
  /\ missed' = (link # "up")
  /\ UNCHANGED <<linkVars, storeVars, readVars, cancelled>>

Fill ==
  \E base, quote \in 0 .. MaxLots :
    /\ base # book.view["base"] /\ quote # book.view["quote"]
    /\ Changes([book.view EXCEPT !["base"] = base, !["quote"] = quote])

Write ==
  \E mid \in Mids : Changes([book.view EXCEPT !["mid"] = mid, !["seq"] = @ + 1])

-----------------------------------------------------------------------------
(***************************************************************************)
(* run_fills and run_once.  The waits for the node do not look at the      *)
(* token; the select over the streams and the backoff do.                  *)
(***************************************************************************)
Moves(to) == link' = to /\ UNCHANGED <<nodeVars, storeVars, readVars, cancelled>>

Dials == link = "starting" /\ ~cancelled /\ Moves("dialling") /\ UNCHANGED breaks

AwaitReturns == link \in Connecting /\ Moves(Then[link]) /\ UNCHANGED breaks

AwaitFails ==
  /\ link \in Connecting /\ breaks < MaxBreaks
  /\ breaks' = breaks + 1
  /\ Moves("waiting")

BackoffPasses == link = "waiting" /\ Moves("starting") /\ UNCHANGED breaks

\* The token is looked at in three places.
StopsWaiting == link \in {"starting", "waiting"} /\ cancelled /\ Moves("ended") /\ UNCHANGED breaks

\* Faulty variant: the select gives up a handler half way.
ClosedMidway(to) ==
  /\ link = "up"
  /\ link' = to
  /\ frames' = {} /\ missed' = (missed \/ frames # {})
  /\ UNCHANGED <<book, storeVars, readVars, cancelled>>

\* handle_account has no await: the select looks again when it is through.
Closed(to) ==
  /\ link = "up" /\ unstored = {}
  /\ link' = to
  /\ frames' = {} /\ missed' = (missed \/ frames # {})
  /\ UNCHANGED <<book, storeVars, readVars, cancelled>>

StopsReading == cancelled /\ Closed("ended") /\ UNCHANGED breaks

\* Faulty variant: a stream that closes is taken for a clean end.
StreamClosesCleanly ==
  /\ breaks < MaxBreaks /\ breaks' = breaks + 1
  /\ Closed("ended")

\* Either stream ends, and with it what the other still had.
StreamCloses ==
  /\ breaks < MaxBreaks /\ breaks' = breaks + 1
  /\ Closed("waiting")

-----------------------------------------------------------------------------
(***************************************************************************)
(* handle_account.                                                         *)
(***************************************************************************)
\* Frames come in any order: one that was overtaken undoes a newer one.
NextFrame(f) ==
  /\ f \in frames /\ link = "up" /\ unstored = {}
  /\ frames' = frames \ {f}
  /\ frame' = f
  /\ missed' = (missed \/ f.slot < frame.slot)

\* Faulty variant: a frame without a new number is not copied.
TakesFrameIfNewer(f) ==
  /\ NextFrame(f)
  /\ unstored' = IF f.view["seq"] > cell["seq"] THEN Cells ELSE {}
  /\ UNCHANGED <<book, linkVars, cell, readVars, cancelled>>

TakesFrame(f) ==
  /\ NextFrame(f)
  /\ unstored' = Cells
  /\ UNCHANGED <<book, linkVars, cell, readVars, cancelled>>

\* A frame that does not decode: handle_account returns at once.
SkipsFrame(f) ==
  /\ f \in frames /\ link = "up" /\ unstored = {}
  /\ breaks < MaxBreaks /\ breaks' = breaks + 1
  /\ frames' = frames \ {f}
  /\ missed' = (missed \/ f.slot = book.slot)
  /\ UNCHANGED <<book, link, storeVars, readVars, cancelled>>

\* Faulty variant: a store where fetch_max is meant.
StoresLast(c) ==
  /\ c \in unstored
  /\ unstored' = unstored \ {c}
  /\ cell' = [cell EXCEPT ![c] = frame.view[c]]
  /\ UNCHANGED <<nodeVars, linkVars, frame, readVars, cancelled>>

\* store, except that the sequence number is a fetch_max.
Stores(c) ==
  /\ c \in unstored
  /\ unstored' = unstored \ {c}
  /\ cell' = [cell EXCEPT ![c] = IF c = "seq" /\ @ > frame.view[c] THEN @ ELSE frame.view[c]]
  /\ UNCHANGED <<nodeVars, linkVars, frame, readVars, cancelled>>

-----------------------------------------------------------------------------
(***************************************************************************)
(* run_engine: a cycle that comes to strategy.compute.                     *)
(***************************************************************************)
CycleStarts ==
  /\ unread = {} /\ ~cancelled
  /\ unread' = Cells
  /\ UNCHANGED <<nodeVars, linkVars, storeVars, reading, acted, cancelled>>

\* The last load is followed by the decision.
Loads(c) ==
  /\ c \in unread
  /\ unread' = unread \ {c}
  /\ reading' = [reading EXCEPT ![c] = cell[c]]
  /\ acted' = IF unread = {c} THEN reading' ELSE acted
  /\ UNCHANGED <<nodeVars, linkVars, storeVars, cancelled>>

Cancels == ~cancelled /\ cancelled' = TRUE /\ UNCHANGED <<nodeVars, linkVars, storeVars, readVars>>

LinkWorks == Dials \/ AwaitReturns \/ AwaitFails \/ BackoffPasses \/ StopsWaiting
Copies == (\E f \in frames : TakesFrame(f)) \/ (\E c \in unstored : Stores(c))
EngineReads == CycleStarts \/ (\E c \in unread : Loads(c))

Next ==
  \/ Fill \/ Write
  \/ LinkWorks \/ StopsReading \/ StreamCloses
  \/ \E f \in frames : SkipsFrame(f)
  \/ Copies \/ EngineReads \/ Cancels

Spec == Init /\ [][Next]_vars

(***************************************************************************)
(* Both tasks are scheduled, and PubsubClient and its subscribe calls      *)
(* return in the end, with a stream or an error.  Nothing is assumed of    *)
(* the account or of Ctrl+C.                                               *)
(***************************************************************************)
FairSpec == Spec /\ WF_vars(LinkWorks) /\ WF_vars(Copies) /\ WF_vars(EngineReads)

-----------------------------------------------------------------------------
TypeOK ==
  /\ book \in Accounts /\ frames \subseteq Accounts /\ frame \in Accounts
  /\ missed \in BOOLEAN
  /\ link \in Links /\ breaks \in 0 .. MaxBreaks /\ cancelled \in BOOLEAN
  /\ unstored \subseteq Cells /\ (unstored # {} => link = "up")
  /\ cell \in Views
  /\ unread \subseteq Cells /\ reading \in Views /\ acted \in Views

(***************************************************************************)
(* fills.rs: "Only ever move the sequence forward; out-of-order ws frames  *)
(* are possible."  However frames are lost, overtake one another or are    *)
(* copied during a cycle, the numbers the engine loads never go back and   *)
(* never run ahead of the book.                                            *)
(***************************************************************************)
Numbers == INSTANCE SeqView WITH top <- book.view["seq"], seen <- reading["seq"]
KeepsPromise == Numbers!SeqSpec

(***************************************************************************)
(* Whatever was lost or late before: once the frame of the last change has *)
(* been copied and none from before it came after, the cells are the       *)
(* account, also when one change followed another in the middle of a copy. *)
(***************************************************************************)
CaughtUpCellsAreExact ==
  ~missed /\ frames = {} /\ unstored = {} => cell = book.view

(***************************************************************************)
(* However often the node refuses or closes a stream, as long as it stops  *)
(* doing so, run_fills ends up subscribed.                                 *)
(***************************************************************************)
StaysSubscribed == [](~cancelled) => <>[](link = "up")

(***************************************************************************)
(* A cycle may act on a mixture of two frames, also on balances the        *)
(* account never had (fills.rs: "Inventory itself is always exact"), but   *)
(* not for ever: on a stream that lasts and has not missed the last        *)
(* change, the engine comes to act on the account as it is.                *)
(***************************************************************************)
ViewHeals == <>[](link = "up" /\ ~missed /\ ~cancelled) => <>[](acted = book.view)
=============================================================================
