-------------------------- MODULE OperatorCommands --------------------------
(***************************************************************************)
(* kill, withdraw, deposit and the revocation of a delegate (src/main.rs), *)
(* one process each, next to a bot that may be running on the same book.   *)
(* A command fetches the book, signs one transaction and hands it to       *)
(* send_instructions (src/archer/client.rs), which repeats that signed     *)
(* transaction until it is confirmed.  A command whose RPC calls fail      *)
(* before it has signed is one that was not given.                         *)
(***************************************************************************)
EXTENDS MarketMakerProperties, Sequences

CONSTANTS
  Commands,      \* the commands the operator may give
  Deposit,       \* what a deposit brings, as base and quote lots
  OwnerKey,      \* whether maker_keypair_path is set
  DelegateKey,   \* whether delegate_keypair_path is set
  SizeLots,      \* class of sizes -> base lots of the asks and of the bids
  QuoteUnit,     \* ticks times base lots that make a quote lot
  MaxRetries,    \* SendOptions.max_retries
  MaxCommands    \* bound: commands given in all

Funds == [base : Nat, quote : Nat]
Nothing == [base |-> 0, quote |-> 0]

ASSUME OperatorAssumption ==
  /\ Commands \subseteq {"kill", "withdraw", "deposit", "revoke"}
  /\ Inventories \subseteq Funds /\ Deposit \in Funds
  /\ SizeLots \in [Sizes -> [asks : Nat, bids : Nat]] /\ QuoteUnit \in Nat \ {0}
  /\ OwnerKey \in BOOLEAN /\ DelegateKey \in BOOLEAN /\ (OwnerKey \/ DelegateKey)
  /\ MaxRetries \in Nat /\ MaxCommands \in Nat

VARIABLES
  step,        \* the command: "idle", "sending", "confirming", "ok" or "failed"
  order,       \* the transaction it signed
  tries,       \* attempts left to it
  onWay,       \* its transactions that a leader may still execute
  processed,   \* signatures the chain has seen
  executed,    \* history: the orders that took effect, in order
  authorised,  \* the book's delegate is the bot's key
  split        \* mid_at_last_sync, base_locked and quote_locked of the account

commandVars == <<step, order, tries, onWay, processed, executed, authorised>>
opVars == <<commandVars, split>>
allVars == <<vars, opVars>>

Covers(a, b) == a.base >= b.base /\ a.quote >= b.quote
Plus(a, b) == [base |-> a.base + b.base, quote |-> a.quote + b.quote]
Minus(a, b) == [base |-> a.base - b.base, quote |-> a.quote - b.quote]

-----------------------------------------------------------------------------
(***************************************************************************)
(* What the levels lock, and how the account shows it.  Asks lock base,    *)
(* bids lock quote at their price: around the mid, or at the anchor of a   *)
(* limit-order book.  A lone UpdateMidPrice does not move quote_locked     *)
(* (README.md, "Deferred quote rebalancing"), every other change of the    *)
(* book settles it at the mid of the moment.                               *)
(***************************************************************************)
BidPrice(b) == IF b.levels.anchor # 0 THEN b.levels.anchor ELSE b.mid

Demand(b) ==
  IF b.levels = NoLevels THEN Nothing
  ELSE [base |-> SizeLots[b.levels.sizes].asks,
        quote |-> (SizeLots[b.levels.sizes].bids * BidPrice(b)) \div QuoteUnit]

Smaller(m, n) == IF m <= n THEN m ELSE n
Larger(m, n) == IF m <= n THEN n ELSE m

SplitOf(b) ==
  [mid |-> b.mid, base |-> Smaller(Demand(b).base, b.inv.base),
   quote |-> Smaller(Demand(b).quote, b.inv.quote)]

SettledAt(m) == SplitOf([book EXCEPT !.mid = m])

MidLands == \E w \in flight : w.kind = "mid" /\ WriteLands(w)
Resettles == split' = IF UNCHANGED book \/ MidLands THEN split ELSE SplitOf(book')

\* projected_quote_balances: what settling now would lock; a mid the quote
\* cannot fund is not settled, and the raw field stands.
Fundable == book.inv.quote >= Demand(book).quote
ProjectedLocked == IF Fundable THEN Demand(book).quote ELSE split.quote

\* has_pending_reprice
PendingReprice == split.mid # 0 /\ split.mid # book.mid

\* Faulty variants: the number is the one the book has; and withdraw goes by
\* the projection alone.
SameNumber == book.seq
HasRestingProjected == split.base > 0 \/ ProjectedLocked > 0

\* last_updated_sequence_number + 1, and has_resting.
NextNumber == book.seq + 1
HasResting == split.base > 0 \/ ProjectedLocked > 0 \/ PendingReprice

\* The totals, which ClearBook sets free, or what is free already.
Withdrawn ==
  IF HasResting THEN book.inv
  ELSE [base |-> book.inv.base - split.base, quote |-> book.inv.quote - ProjectedLocked]

(***************************************************************************)
(* nth is the command, sig the signature; clear tells whether ClearBook is *)
(* one of the instructions, with number seq; slot is that of the book it   *)
(* was built from.                                                         *)
(***************************************************************************)
Order(kind, nth, sig) ==
  [kind |-> kind, nth |-> nth, sig |-> sig, slot |-> book.slot,
   clear |-> kind = "kill" \/ (kind = "withdraw" /\ HasResting),
   seq |-> NextNumber,
   take |-> IF kind = "withdraw" THEN Withdrawn ELSE Nothing,
   give |-> IF kind = "deposit" THEN Deposit ELSE Nothing]

NoOrder == [kind |-> "none", nth |-> 0, sig |-> 0, slot |-> 0, clear |-> FALSE,
            seq |-> 0, take |-> Nothing, give |-> Nothing]

\* An earlier run may have moved the mid after the balances were settled.
EarlierMids == {book.mid} \cup
  IF book.kind = "MM" /\ book.levels # NoLevels THEN Prices ELSE {}

OperatorInit ==
  /\ Init
  /\ step = "idle" /\ order = NoOrder /\ tries = 0
  /\ onWay = {} /\ processed = {} /\ executed = <<>>
  /\ authorised = TRUE
  /\ \E m \in EarlierMids : split = SettledAt(m)

-----------------------------------------------------------------------------
(***************************************************************************)
(* The command's process.                                                  *)
(***************************************************************************)
\* Every command signs with maker_keypair_path.
Gives(kind) ==
  /\ kind \in Commands /\ OwnerKey
  /\ step \in {"idle", "ok", "failed"} /\ order.nth < MaxCommands
  /\ kind = "withdraw" => book.inv # Nothing
  /\ order' = Order(kind, order.nth + 1, order.sig + 1)
  /\ tries' = MaxRetries + 1
  /\ step' = "sending"
  /\ UNCHANGED <<vars, onWay, processed, executed, authorised, split>>

\* Faulty variant: every attempt is signed for itself.
SubmitsAnew ==
  /\ step = "sending"
  /\ order' = [order EXCEPT !.sig = @ + 1]
  /\ onWay' = onWay \cup {order'}
  /\ step' = "confirming"
  /\ UNCHANGED <<vars, tries, processed, executed, authorised, split>>

\* The node takes the transaction; preflight knows a signature seen before.
Submits ==
  /\ step = "sending" /\ order.sig \notin processed
  /\ onWay' = onWay \cup {order}
  /\ step' = "confirming"
  /\ UNCHANGED <<vars, order, tries, processed, executed, authorised, split>>

TookEffect(o) == \E i \in DOMAIN executed : executed[i] = o

\* send_and_confirm_transaction answers Ok.  That is the node's word, taken
\* as true: it confirms what was executed without an error.
Confirms ==
  /\ step = "confirming" /\ TookEffect(order)
  /\ step' = "ok"
  /\ UNCHANGED <<vars, order, tries, onWay, processed, executed, authorised, split>>

\* An error of the node, of the chain, or no confirmation in time.
AttemptFails ==
  /\ step \in {"sending", "confirming"}
  /\ tries' = tries - 1
  /\ step' = IF tries = 1 THEN "failed" ELSE "sending"
  /\ UNCHANGED <<vars, order, onWay, processed, executed, authorised, split>>

-----------------------------------------------------------------------------
(***************************************************************************)
(* The command's transaction on the chain.  What may be withdrawn without  *)
(* a ClearBook is free both as the account shows it and once settled.      *)
(***************************************************************************)
FreeFunds == [base |-> book.inv.base - split.base,
              quote |-> book.inv.quote - Larger(split.quote, ProjectedLocked)]

AcceptsOrder(o) ==
  /\ o.clear => Accepts(book, [first |-> o.seq])
  /\ o.kind = "withdraw" => Covers(IF o.clear THEN book.inv ELSE FreeFunds, o.take)

\* Inventories bounds what may be deposited.
OrderLands(o) ==
  /\ AcceptsOrder(o) /\ Plus(Minus(book.inv, o.take), o.give) \in Inventories
  /\ onWay' = onWay \ {o} /\ processed' = processed \cup {o.sig}
  /\ executed' = Append(executed, o)
  /\ authorised' = (authorised /\ o.kind # "revoke")
  /\ book' = [book EXCEPT !.seq = IF o.clear THEN o.seq ELSE @,
                          !.levels = IF o.clear THEN NoLevels ELSE @,
                          !.inv = Plus(Minus(@, o.take), o.give),
                          !.slot = @ + 1]
  /\ split' = SplitOf(book')
  /\ Publishes(book')
  /\ UNCHANGED <<flight, applied, txVars, feedVars, engineVars, spent, step, order, tries>>

OrderRefused(o) ==
  /\ ~AcceptsOrder(o)
  /\ onWay' = onWay \ {o} /\ processed' = processed \cup {o.sig}
  /\ UNCHANGED <<vars, step, order, tries, executed, authorised, split>>

OrderLost(o) ==
  /\ Spend("loss")
  /\ onWay' = onWay \ {o}
  /\ UNCHANGED <<programVars, txVars, streamVars, feedVars, engineVars,
                 step, order, tries, processed, executed, authorised, split>>

-----------------------------------------------------------------------------
\* Faulty variant: the owner's key signs whenever it is there.
SignsAsOwnerIfPossible == ~OwnerKey

\* resolve_run_identity: a configured delegate signs.
SignsAsDelegate == DelegateKey

MayWrite == SignsAsDelegate => authorised

\* The bot goes on; its writes need a key the book accepts.
BotRuns ==
  /\ Next
  /\ MayWrite \/ ~\E w \in flight : WriteLands(w)
  /\ Resettles
  /\ UNCHANGED commandVars

WriteUnauthorised(w) ==
  /\ ~MayWrite
  /\ flight' = flight \ {w}
  /\ UNCHANGED <<book, applied, txVars, streamVars, feedVars, engineVars, spent, opVars>>

OperatorNext ==
  \/ BotRuns
  \/ \E w \in flight : WriteUnauthorised(w)
  \/ \E kind \in Commands : Gives(kind)
  \/ Submits \/ Confirms \/ AttemptFails
  \/ \E o \in onWay : OrderLands(o) \/ OrderRefused(o) \/ OrderLost(o)

OperatorSpec == OperatorInit /\ [][OperatorNext]_allVars
-----------------------------------------------------------------------------
(***************************************************************************)
(* A command takes effect at most once, however often its transaction was  *)
(* sent: a deposit is not doubled (client.rs signs before the loop).       *)
(***************************************************************************)
ExecutesOnce ==
  \A i, j \in DOMAIN executed : i # j => executed[i].nth # executed[j].nth

(***************************************************************************)
(* The program refuses a command only if the book has changed since the    *)
(* command fetched it, and one with a ClearBook only if its number was     *)
(* used or the withdrawn funds went elsewhere.  So withdraw misses no      *)
(* resting quotes, whatever mid the account's locked balances were settled *)
(* at (main.rs, has_resting).                                              *)
(***************************************************************************)
Overtaken(o) ==
  /\ book.slot # o.slot
  /\ o.clear => book.seq >= o.seq \/ ~Covers(book.inv, o.take)

RefusedOnlyIfOvertaken ==
  [][\A o \in onWay : o.sig \in processed' /\ executed' = executed => Overtaken(o)]_allVars

(***************************************************************************)
(* The engine's counter survives a second writer: a quoting write decided  *)
(* on a caught-up view is one the book would take at that moment           *)
(* (engine.rs: local_seq catches up with the on-chain value).              *)
(***************************************************************************)
QuotesFitCaughtUpBook ==
  [][\A w \in tasks' \ tasks : w.kind # "clear" /\ ~missed /\ frames = {} => Accepts(book, w)]_allVars

(***************************************************************************)
(* README.md, "Running with a delegate": after the owner has revoked the   *)
(* delegate and then killed the book, nothing the bot has sent or will     *)
(* send brings quotes back.                                                *)
(***************************************************************************)
RevokedKillSticks ==
  DelegateKey /\ (\E i, j \in DOMAIN executed :
                    i < j /\ executed[i].kind = "revoke" /\ executed[j].kind = "kill")
    => book.levels = NoLevels

(***************************************************************************)
(* README.md: "kill  Emergency: clear all orders immediately".  On a       *)
(* network that loses nothing, a kill clears the book it found.  The run   *)
(* overtaken shows that it may not.                                        *)
(***************************************************************************)
KillClears == order.kind = "kill" /\ order.sig \in processed => TookEffect(order)
=============================================================================
