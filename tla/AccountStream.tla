---------------------------- MODULE AccountStream ----------------------------
(***************************************************************************)
(* The account half of src/fills.rs: every change of the book account is a *)
(* frame on the subscription, and handle_account copies a frame into the   *)
(* shared state.  A subscription that drops loses what it had not          *)
(* delivered, and a new one starts without a snapshot.                     *)
(***************************************************************************)
EXTENDS TxSender

CONSTANT FramesOrdered   \* whether the node delivers frames in slot order

ASSUME StreamAssumption == FramesOrdered \in BOOLEAN

VARIABLES
  subscribed,   \* account_subscribe is active
  frames,       \* account states sent and not yet handled
  missed,       \* history: the account's last change made no frame
  cachedMid,    \* state.cached_mid_ticks
  invSeen,      \* state.base_total_lots and state.quote_total_lots
  onchainSeq    \* state.onchain_sequence_number

viewVars == <<cachedMid, invSeen, onchainSeq>>
streamVars == <<subscribed, frames, missed, cachedMid, invSeen, onchainSeq>>

Frames == [seq : Nat, mid : Nat, inv : Inventories, slot : Nat]

FrameOf(b) == [seq |-> b.seq, mid |-> b.mid, inv |-> b.inv, slot |-> b.slot]

\* Faulty variant: the book's mid is not loaded.
LoadBookWithoutMid(b) ==
  /\ subscribed = FALSE /\ frames = {} /\ missed = FALSE
  /\ cachedMid = 0 /\ invSeen = b.inv /\ onchainSeq = b.seq

\* What cmd_run loads into the shared state before anything is spawned.
LoadBook(b) ==
  /\ subscribed = FALSE /\ frames = {} /\ missed = FALSE
  /\ cachedMid = b.mid /\ invSeen = b.inv /\ onchainSeq = b.seq

\* The node's side of the stream when the account becomes b.
Publishes(b) ==
  /\ frames' = IF subscribed THEN frames \cup {FrameOf(b)} ELSE frames
  /\ missed' = ~subscribed
  /\ UNCHANGED <<subscribed, viewVars>>

\* Faulty variant: a frame that brings no new sequence number is skipped.
HandleAccountIfNewer(f) ==
  /\ f \in frames
  /\ FramesOrdered => \A g \in frames : f.slot <= g.slot
  /\ frames' = frames \ {f}
  /\ IF f.seq > onchainSeq THEN cachedMid' = f.mid /\ invSeen' = f.inv /\ onchainSeq' = f.seq
                           ELSE UNCHANGED viewVars
  /\ UNCHANGED <<subscribed, missed>>

\* Mid and balances follow the frame at hand; only the sequence is a maximum.
HandleAccount(f) ==
  /\ f \in frames
  /\ FramesOrdered => \A g \in frames : f.slot <= g.slot
  /\ frames' = frames \ {f}
  /\ cachedMid' = f.mid
  /\ invSeen' = f.inv
  /\ onchainSeq' = IF f.seq > onchainSeq THEN f.seq ELSE onchainSeq
  /\ UNCHANGED <<subscribed, missed>>

\* A frame that does not decode: handle_account returns at once.
SkipsFrame(f) ==
  /\ f \in frames
  /\ FramesOrdered => \A g \in frames : f.slot <= g.slot
  /\ frames' = frames \ {f}
  /\ missed' = (missed \/ f.slot = book.slot)
  /\ UNCHANGED <<subscribed, viewVars>>

StreamDrops ==
  /\ subscribed
  /\ subscribed' = FALSE
  /\ frames' = {}
  /\ missed' = (missed \/ frames # {})
  /\ UNCHANGED viewVars

\* The process or its token ends the subscription for good.
StreamEnds ==
  /\ subscribed' = FALSE
  /\ frames' = {}
  /\ missed' = TRUE
  /\ UNCHANGED viewVars

Resubscribes ==
  /\ ~subscribed
  /\ subscribed' = TRUE
  /\ UNCHANGED <<frames, missed, viewVars>>
=============================================================================
