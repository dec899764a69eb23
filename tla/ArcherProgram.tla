---------------------------- MODULE ArcherProgram ----------------------------
(***************************************************************************)
(* The maker's book account and the network that carries transactions to   *)
(* it.  Neither is in the repository: the module says what src/ relies on. *)
(* Every write carries sequence numbers; the program takes a write only    *)
(* when its first number is last + 1 ..= last + MaxJump.  A transaction is *)
(* atomic, may land in any order, and may never land at all.               *)
(***************************************************************************)
EXTENDS Quoting

CONSTANTS
  MaxJump,           \* MAX_SEQUENCE_JUMP of the program
  UpdateBookSetsMid  \* whether a lone UpdateBook also moves the book's mid

ASSUME ProgramAssumption == MaxJump \in Nat \ {0} /\ UpdateBookSetsMid \in BOOLEAN

VARIABLES
  book,     \* the account: kind, sequence number, mid, levels, inventory, slot
  flight,   \* transactions a leader may still execute
  applied   \* history: number and epoch of the last write that executed

programVars == <<book, flight, applied>>

Books == [kind : {"MM", "LO"}, seq : Nat, mid : Nat, levels : Levels \cup {NoLevels},
          inv : Inventories, slot : Nat]

(***************************************************************************)
(* first and last are the sequence numbers of its book instructions.       *)
(* nth and era are history, not data: the rank of the engine decision that *)
(* made the write, and how often the engine's counter had been reset by    *)
(* then (by a restart, or by falling back to the on-chain value).          *)
(***************************************************************************)
Writes == [kind : {"clear", "mid", "full"}, first : Nat, last : Nat, mid : Nat,
           levels : Levels \cup {NoLevels}, nth : Nat, era : Nat]

Accepts(b, w) == b.seq < w.first /\ w.first <= b.seq + MaxJump

\* A lone UpdateBook names a mid as well; a full write of two instructions
\* moves it in the first one.
MovesMid(w) ==
  \/ w.kind = "mid"
  \/ w.kind = "full" /\ (w.first # w.last \/ UpdateBookSetsMid)

Execute(b, w) ==
  [b EXCEPT !.seq = w.last,
            !.slot = @ + 1,
            !.mid = IF MovesMid(w) THEN w.mid ELSE @,
            !.levels = IF w.kind = "mid" THEN @ ELSE w.levels]

Lands(w) ==
  /\ w \in flight
  /\ Accepts(book, w)
  /\ book' = Execute(book, w)
  /\ applied' = [nth |-> w.nth, era |-> w.era]
  /\ flight' = flight \ {w}

\* The transaction executes and fails: nothing on the account changes.
Refused(w) ==
  /\ w \in flight
  /\ ~Accepts(book, w)
  /\ flight' = flight \ {w}
  /\ UNCHANGED <<book, applied>>

\* Dropped by the leader, or its blockhash expired.
Lost(w) ==
  /\ w \in flight
  /\ flight' = flight \ {w}
  /\ UNCHANGED <<book, applied>>

\* A taker's swap, or a deposit or withdrawal: only the balances move.
BalanceMoves(inv) ==
  /\ inv \in Inventories \ {book.inv}
  /\ book' = [book EXCEPT !.inv = inv, !.slot = @ + 1]
  /\ UNCHANGED <<flight, applied>>
=============================================================================
