------------------------------ MODULE HashCell ------------------------------
(***************************************************************************)
(* The blockhash cache as its callers see it: one cell, read and renewed   *)
(* in a single step.  A hash is handed out while it is in its time; only   *)
(* an expired one is replaced.  BlockhashCache implements it.              *)
(***************************************************************************)
EXTENDS Naturals

CONSTANTS
  Senders,   \* the tasks that ask for a hash
  Ttl,       \* BLOCKHASH_TTL
  Latency,   \* the longest an RPC call takes: the client's request timeout
  NoHash     \* the empty cell

ASSUME CellAssumption == Ttl \in Nat \ {0} /\ Latency \in Nat

\* How old a hash is, as far as that matters.
Oldest == Ttl + Latency
Ages == 0 .. Oldest

\* elapsed is the time since the reply (fetched_at), age since the node
\* read the hash.
Hashes == [elapsed : 0 .. Ttl, age : Ages]

ASSUME NoHashAssumption == NoHash \notin Hashes \cup Ages

VARIABLES
  cache,   \* the cell
  got      \* per sender: the age of the hash it was given, until it has used it

cellVars == <<cache, got>>

Capped(n, bound) == IF n < bound THEN n ELSE bound

Aged(c) ==
  IF c = NoHash THEN NoHash
  ELSE [elapsed |-> Capped(c.elapsed + 1, Ttl), age |-> Capped(c.age + 1, Oldest)]

Valid == cache # NoHash /\ cache.elapsed < Ttl

CellInit == cache = NoHash /\ got = [s \in Senders |-> NoHash]

Hands(s) ==
  /\ Valid
  /\ got' = [got EXCEPT ![s] = cache.age]
  /\ UNCHANGED cache

Renews(s) ==
  /\ ~Valid
  /\ \E age \in 0 .. Latency :
       /\ cache' = [elapsed |-> 0, age |-> age]
       /\ got' = [got EXCEPT ![s] = age]

Uses(s) == got' = [got EXCEPT ![s] = NoHash] /\ UNCHANGED cache

Passes == cache' = Aged(cache) /\ UNCHANGED got

CellSpec ==
  CellInit /\ [][Passes \/ \E s \in Senders : Hands(s) \/ Renews(s) \/ Uses(s)]_cellVars
=============================================================================
