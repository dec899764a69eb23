----------------------------- MODULE Volatility -----------------------------
(***************************************************************************)
(* VolatilityTracker (src/volatility.rs): a ring buffer of the last prices *)
(* and the order realized_vol walks it in.  The volatility is a function   *)
(* of the sequence walked, so the model keeps that sequence in its place.  *)
(***************************************************************************)
EXTENDS Integers, Sequences

CONSTANT Window   \* strategy.vol_window, which validate_config keeps >= 2

ASSUME WindowAssumption == Window \in Nat /\ Window >= 2

VARIABLES
  ring, head, count,
  samples   \* history: every price ever pushed

volatilityVars == <<ring, head, count, samples>>

Slots == 0 .. Window - 1

VolatilityInit ==
  /\ ring = [i \in Slots |-> 0]
  /\ head = 0 /\ count = 0
  /\ samples = <<>>

\* Faulty variant: the count runs past the capacity.
PushUncapped(p) ==
  /\ ring' = [ring EXCEPT ![head] = p]
  /\ head' = (head + 1) % Window
  /\ count' = count + 1
  /\ samples' = Append(samples, p)

\* push: a price that is not positive is no sample.
Push(p) ==
  IF p <= 0 THEN UNCHANGED volatilityVars
  ELSE /\ ring' = [ring EXCEPT ![head] = p]
       /\ head' = (head + 1) % Window
       /\ count' = IF count < Window THEN count + 1 ELSE count
       /\ samples' = Append(samples, p)

\* Faulty variant: the walk starts at slot 0 also when the ring is full.
FirstSlot == 0

\* The slot realized_vol starts from: the oldest sample's.
Oldest == IF count < Window THEN 0 ELSE head

Walk == [i \in 1 .. count |-> ring[(Oldest + i - 1) % Window]]

\* Fewer than two samples have no volatility: 0.0, here the empty walk.
RealizedVol == IF count < 2 THEN <<>> ELSE Walk
=============================================================================
