------------------------------ MODULE SeqView ------------------------------
(***************************************************************************)
(* What the account stream promises of sequence numbers, whatever becomes  *)
(* of its frames: the reader never sees a number the book has not had, and *)
(* never one below what it has seen.  engine.rs raises its counter to the  *)
(* number it sees, and falls back on it when the counter has drifted.      *)
(***************************************************************************)
EXTENDS Naturals

VARIABLES
  top,   \* last_updated_sequence_number of the book
  seen   \* the last value the reader loaded

SeqInit == top \in Nat /\ seen = top

Raises == top' = top + 1 /\ seen' = seen

Looks == seen' \in seen .. top /\ top' = top

SeqSpec == SeqInit /\ [][Raises \/ Looks]_<<top, seen>>
=============================================================================
