---------------------------- MODULE DecisionOrder ----------------------------
(***************************************************************************)
(* What the engine's sequence numbers are for, without the numbers.  It    *)
(* decides one write after the other; writes travel on their own, get lost *)
(* and arrive in any order; and the book shows decisions in the order they *)
(* were made, as long as the engine has not started to count anew.         *)
(***************************************************************************)
EXTENDS Naturals

VARIABLES
  made,      \* decisions so far
  epoch,     \* how often the engine has started to count
  pending,   \* decisions on their way to the book: [nth, era, keeps, levels]
  shown,     \* the decision that took effect last: [nth, era]
  levels     \* what the book quotes

orderVars == <<made, epoch, pending, shown, levels>>

OrderInit ==
  /\ made = 0 /\ epoch = 1
  /\ pending = {} /\ shown = [nth |-> 0, era |-> 0]

\* The engine may find just then that it has to count anew.
Decides ==
  /\ made' = made + 1 /\ epoch' \in {epoch, epoch + 1}
  /\ \E d \in pending' :
       /\ d.nth = made' /\ d.era = epoch'
       /\ pending' = pending \cup {d}
  /\ UNCHANGED <<shown, levels>>

CountsAnew == epoch' = epoch + 1 /\ UNCHANGED <<made, pending, shown, levels>>

\* d was made after what the book shows.
Follows(d) == d.era = shown.era => shown.nth < d.nth

\* A repricing keeps the levels.
TakesEffect(d) ==
  /\ Follows(d)
  /\ pending' = pending \ {d}
  /\ shown' = [nth |-> d.nth, era |-> d.era]
  /\ levels' = IF d.keeps THEN levels ELSE d.levels
  /\ UNCHANGED <<made, epoch>>

\* Refused, lost, or gone with the process.
Vanish == UNCHANGED <<made, epoch, shown, levels>> /\ pending' \subseteq pending

OrderNext == Decides \/ CountsAnew \/ Vanish \/ \E d \in pending : TakesEffect(d)

OrderSpec == OrderInit /\ [][OrderNext]_orderVars
=============================================================================
