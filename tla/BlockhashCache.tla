--------------------------- MODULE BlockhashCache ---------------------------
(***************************************************************************)
(* get_or_refresh_blockhash (src/tx.rs), which every send starts with: a   *)
(* look under the read lock, a second look under the write lock, then an   *)
(* RPC call with the write lock held.  The lock is tokio's RwLock, which   *)
(* serves its waiters in order of arrival.  A caller may be dropped at any *)
(* await: the final clear has a timeout.                                   *)
(***************************************************************************)
EXTENDS HashCell, Sequences, FiniteSets

CONSTANT Impatient   \* the senders whose caller may give up

ASSUME ImpatientAssumption == Impatient \subseteq Senders

\* The process has finitely many tasks at any time.
ASSUME SendersAssumption == IsFiniteSet(Senders)

VARIABLES
  phase,      \* where each call of the function is
  held,       \* the guard each call holds
  queue,      \* the calls waiting for the lock
  fetchTime,  \* how long the RPC call has been out
  waited      \* history: RPC calls of others that ended during this call

lockVars == <<phase, held, queue>>
vars == <<cellVars, lockVars, fetchTime, waited>>

\* asked and missed wait for the read and the write guard; fetching for the
\* RPC node; answered and failed have returned.
Phases == {"idle", "asked", "checking", "missed", "fetching", "answered", "failed"}

Init ==
  /\ CellInit
  /\ phase = [s \in Senders |-> "idle"]
  /\ held = [s \in Senders |-> "none"]
  /\ queue = <<>>
  /\ fetchTime = 0
  /\ waited = [s \in Senders |-> 0]

To(s, p) == phase' = [phase EXCEPT ![s] = p]
Holds(s, guard) == held' = [held EXCEPT ![s] = guard]
IsNext(s) == queue # <<>> /\ Head(queue) = s

Asks(s) ==
  /\ phase[s] = "idle"
  /\ To(s, "asked")
  /\ queue' = Append(queue, s)
  /\ waited' = [waited EXCEPT ![s] = 0]
  /\ UNCHANGED <<cellVars, held, fetchTime>>

GetsReadGuard(s) ==
  /\ phase[s] = "asked" /\ IsNext(s)
  /\ \A t \in Senders : held[t] # "write"
  /\ To(s, "checking") /\ Holds(s, "read")
  /\ queue' = Tail(queue)
  /\ UNCHANGED <<cellVars, fetchTime, waited>>

\* Faulty variants: the read guard lives on while the write lock is awaited;
\* and a look at the hash prolongs its time.
LeavesReadHolding(s) ==
  /\ phase[s] = "checking"
  /\ IF Valid THEN To(s, "answered") /\ Holds(s, "none") /\ Hands(s) /\ UNCHANGED queue
     ELSE To(s, "missed") /\ queue' = Append(queue, s) /\ UNCHANGED <<held, cellVars>>
  /\ UNCHANGED <<fetchTime, waited>>

LeavesReadRenewing(s) ==
  /\ phase[s] = "checking" /\ Holds(s, "none")
  /\ IF Valid THEN /\ To(s, "answered") /\ got' = [got EXCEPT ![s] = cache.age]
                   /\ cache' = [cache EXCEPT !.elapsed = 0] /\ UNCHANGED queue
     ELSE To(s, "missed") /\ queue' = Append(queue, s) /\ UNCHANGED cellVars
  /\ UNCHANGED <<fetchTime, waited>>

LeavesRead(s) ==
  /\ phase[s] = "checking" /\ Holds(s, "none")
  /\ IF Valid THEN To(s, "answered") /\ Hands(s) /\ UNCHANGED queue
     ELSE To(s, "missed") /\ queue' = Append(queue, s) /\ UNCHANGED cellVars
  /\ UNCHANGED <<fetchTime, waited>>

WriteFree(s) == phase[s] = "missed" /\ IsNext(s) /\ \A t \in Senders : held[t] = "none"

\* Faulty variant: no second look.
FetchesAnyway(s) ==
  /\ WriteFree(s)
  /\ queue' = Tail(queue)
  /\ To(s, "fetching") /\ Holds(s, "write") /\ fetchTime' = 0
  /\ UNCHANGED <<cellVars, waited>>

\* Somebody else may have renewed the hash while this call was waiting.
GetsWriteGuard(s) ==
  /\ WriteFree(s)
  /\ queue' = Tail(queue)
  /\ IF Valid THEN To(s, "answered") /\ Hands(s) /\ UNCHANGED <<held, fetchTime>>
     ELSE To(s, "fetching") /\ Holds(s, "write") /\ fetchTime' = 0 /\ UNCHANGED cellVars
  /\ UNCHANGED waited

\* The RPC call of s is over: everyone inside the function has waited for it.
Over(s) ==
  waited' = [t \in Senders |->
    IF t # s /\ phase[t] \in {"asked", "checking", "missed"} THEN waited[t] + 1 ELSE waited[t]]

\* The node read the hash at some moment of the call; fetched_at is now.
Replies(s) ==
  /\ phase[s] = "fetching"
  /\ \E age \in 0 .. fetchTime :
       cache' = [elapsed |-> 0, age |-> age] /\ got' = [got EXCEPT ![s] = age]
  /\ To(s, "answered") /\ Holds(s, "none")
  /\ Over(s)
  /\ UNCHANGED <<queue, fetchTime>>

\* Faulty variant: the call is repeated with the lock held.
FetchRetries(s) ==
  /\ phase[s] = "fetching"
  /\ fetchTime' = 0
  /\ Over(s)
  /\ UNCHANGED <<lockVars, cellVars>>

FetchFails(s) ==
  /\ phase[s] = "fetching"
  /\ To(s, "failed") /\ Holds(s, "none")
  /\ Over(s)
  /\ UNCHANGED <<queue, cellVars, fetchTime>>

Dequeues(s) ==
  IF phase[s] \in {"asked", "missed"}
  THEN \E i \in DOMAIN queue :
         /\ queue[i] = s
         /\ queue' = SubSeq(queue, 1, i - 1) \o SubSeq(queue, i + 1, Len(queue))
  ELSE UNCHANGED queue

\* The timeout drops the future where it waits, and with it its guard.
Abandoned(s) ==
  /\ s \in Impatient /\ phase[s] \in {"asked", "missed", "fetching"}
  /\ To(s, "idle") /\ Holds(s, "none")
  /\ Dequeues(s)
  /\ IF phase[s] = "fetching" THEN Over(s) ELSE UNCHANGED waited
  /\ UNCHANGED <<cellVars, fetchTime>>

\* Signed and sent, or given up; the task's next send asks again.
Ends(s) ==
  /\ phase[s] \in {"answered", "failed"}
  /\ To(s, "idle")
  /\ Uses(s)
  /\ UNCHANGED <<held, queue, fetchTime, waited>>

\* No call takes longer than Latency: the client answers with an error.
TimePasses ==
  /\ \A s \in Senders : phase[s] = "fetching" => fetchTime < Latency
  /\ cache' = Aged(cache)
  /\ fetchTime' = Capped(fetchTime + 1, Latency)
  /\ UNCHANGED <<got, lockVars, waited>>

Runs(s) == GetsReadGuard(s) \/ LeavesRead(s) \/ GetsWriteGuard(s) \/ Ends(s)
Answered(s) == Replies(s) \/ FetchFails(s)

Next == TimePasses \/ \E s \in Senders : Asks(s) \/ Runs(s) \/ Answered(s) \/ Abandoned(s)

Spec == Init /\ [][Next]_vars

(***************************************************************************)
(* The runtime polls every task that can go on, and an RPC call returns.   *)
(***************************************************************************)
FairSpec == Spec /\ \A s \in Senders : WF_vars(Runs(s)) /\ WF_vars(Answered(s))
-----------------------------------------------------------------------------
\* A read guard lives for one look at the cache, a write guard for one call.
Guards == {"none", "read", "write"}
GuardAt(p) == IF p = "checking" THEN "read" ELSE IF p = "fetching" THEN "write" ELSE "none"

TypeOK ==
  /\ cache \in Hashes \cup {NoHash} /\ got \in [Senders -> Ages \cup {NoHash}]
  /\ phase \in [Senders -> Phases]
  /\ held \in [Senders -> Guards] /\ \A s \in Senders : held[s] = GuardAt(phase[s])
  /\ queue \in Seq(Senders)
  /\ fetchTime \in 0 .. Latency /\ waited \in [Senders -> Nat]

(***************************************************************************)
(* However many sends miss at once, one RPC call is made for all of them:  *)
(* a call is out only while the cache has expired, and it is the only one. *)
(***************************************************************************)
NoRedundantFetch ==
  \A s \in Senders : phase[s] = "fetching" =>
    ~Valid /\ \A t \in Senders \ {s} : phase[t] # "fetching"

(***************************************************************************)
(* A transaction is never signed with a hash older than BLOCKHASH_TTL and  *)
(* one RPC call together, far within the life of a blockhash.              *)
(***************************************************************************)
SignsRecentHash == \A s \in Senders : got[s] # NoHash => got[s] < Ttl + Latency

(***************************************************************************)
(* A send, also an emergency clear, waits for the RPC calls of the others  *)
(* at most twice each, once per lock, even when every call fails.          *)
(***************************************************************************)
WaitsBounded == \A s \in Senders : waited[s] <= 2 * (Cardinality(Senders) - 1)

(***************************************************************************)
(* Two awaited locks, a failing RPC call and a dropped caller never leave  *)
(* a send waiting for ever.                                                *)
(***************************************************************************)
EveryCallReturns ==
  \A s \in Senders : phase[s] = "asked" ~> phase[s] \in {"answered", "failed", "idle"}

(***************************************************************************)
(* The double look, the lock and the RPC call amount to one cell renewed   *)
(* in a single step.                                                       *)
(***************************************************************************)
KeepsPromise == CellSpec
=============================================================================
