------------------------ MODULE BlockhashCacheProofs ------------------------
(***************************************************************************)
(* Theorems about BlockhashCache, for any senders, time to live and RPC    *)
(* latency.                                                                *)
(***************************************************************************)
EXTENDS BlockhashCache, FiniteSetTheorems, SequenceTheorems, TLAPS

\* A call that is out excludes every other guard, and finds the cache expired.
OneWriter ==
  \A s, t \in Senders :
    phase[s] = "fetching" => ~Valid /\ (t # s => phase[t] \notin {"checking", "fetching"})

\* A hash in its time is not older than that time and one call.
CacheIsYoung == cache # NoHash /\ cache.elapsed < Ttl => cache.age <= Latency + cache.elapsed

CacheInv == TypeOK /\ OneWriter /\ CacheIsYoung /\ SignsRecentHash

USE CellAssumption, NoHashAssumption, ImpatientAssumption DEF Oldest, Ages, Hashes

LEMMA InitInv == Init => CacheInv
  BY DEF Init, CellInit, CacheInv, TypeOK, OneWriter, CacheIsYoung, SignsRecentHash,
         Phases, Guards, GuardAt, Valid

LEMMA AgedType ==
  ASSUME cache \in Hashes \cup {NoHash}
  PROVE  /\ Aged(cache) \in Hashes \cup {NoHash}
         /\ ~Valid => ~(Aged(cache) # NoHash /\ Aged(cache).elapsed < Ttl)
         /\ CacheIsYoung /\ Aged(cache) # NoHash /\ Aged(cache).elapsed < Ttl
              => Aged(cache).age <= Latency + Aged(cache).elapsed
  BY SMT DEF Aged, Capped, Valid, CacheIsYoung

\* A call at the end of the queue, the head taken off, a call dropped from it.
LEMMA QueueType ==
  ASSUME NEW q \in Seq(Senders), NEW s \in Senders
  PROVE  Append(q, s) \in Seq(Senders) /\ (q # <<>> => Tail(q) \in Seq(Senders))
  OBVIOUS

LEMMA DequeueType ==
  ASSUME NEW q \in Seq(Senders), NEW i \in DOMAIN q
  PROVE  SubSeq(q, 1, i - 1) \o SubSeq(q, i + 1, Len(q)) \in Seq(Senders)
<1>1. i \in 1 .. Len(q)
  OBVIOUS
<1>2. SubSeq(q, 1, i - 1) \in Seq(Senders)
  BY <1>1
<1>3. SubSeq(q, i + 1, Len(q)) \in Seq(Senders)
  BY <1>1
<1> QED
  BY <1>2, <1>3

LEMMA OverType ==
  ASSUME waited \in [Senders -> Nat], NEW s, Over(s)
  PROVE  waited' \in [Senders -> Nat]
<1>1. \A t \in Senders : waited[t] \in Nat /\ waited[t] + 1 \in Nat
  OBVIOUS
<1> QED
  BY <1>1, Zenon DEF Over

LEMMA StepType == TypeOK /\ CacheIsYoung /\ [Next]_vars => TypeOK'
<1> SUFFICES ASSUME TypeOK, CacheIsYoung, [Next]_vars PROVE TypeOK'
  OBVIOUS
<1> USE DEF TypeOK, Phases, Guards, GuardAt, To, Holds, IsNext, cellVars, lockVars
<1>1. ASSUME NEW s \in Senders, Asks(s) PROVE TypeOK'
  BY <1>1, QueueType DEF Asks
<1>2. ASSUME NEW s \in Senders, GetsReadGuard(s) PROVE TypeOK'
  BY <1>2, QueueType DEF GetsReadGuard
<1>3. ASSUME NEW s \in Senders, LeavesRead(s) PROVE TypeOK'
  <2>1. queue' \in Seq(Senders)
    <3>1. CASE Valid
      BY <1>3, <3>1 DEF LeavesRead
    <3>2. CASE ~Valid
      <4>1. queue' = Append(queue, s)
        BY <1>3, <3>2 DEF LeavesRead
      <4>2. queue \in Seq(Senders) /\ s \in Senders
        OBVIOUS
      <4> QED
        BY <4>1, <4>2, QueueType
    <3> QED
      BY <3>1, <3>2
  <2>2. cache' = cache /\ got' \in [Senders -> Ages \cup {NoHash}]
    BY <1>3 DEF LeavesRead, Hands, Valid
  <2> QED
    BY <1>3, <2>1, <2>2 DEF LeavesRead
<1>4. ASSUME NEW s \in Senders, GetsWriteGuard(s) PROVE TypeOK'
  <2>1. queue' \in Seq(Senders)
    BY <1>4, QueueType DEF GetsWriteGuard, WriteFree
  <2>2. cache' = cache /\ got' \in [Senders -> Ages \cup {NoHash}]
    BY <1>4 DEF GetsWriteGuard, Hands, Valid
  <2>3. CASE Valid
    BY <1>4, <2>1, <2>2, <2>3 DEF GetsWriteGuard, WriteFree
  <2>4. CASE ~Valid
    BY <1>4, <2>1, <2>2, <2>4 DEF GetsWriteGuard, WriteFree
  <2> QED
    BY <2>3, <2>4
<1>5. ASSUME NEW s \in Senders, Replies(s) PROVE TypeOK'
  <2>1. waited' \in [Senders -> Nat]
    BY <1>5, OverType DEF Replies
  <2>2. PICK age \in 0 .. fetchTime :
          cache' = [elapsed |-> 0, age |-> age] /\ got' = [got EXCEPT ![s] = age]
    BY <1>5 DEF Replies
  <2>3. age \in Ages
    OBVIOUS
  <2>4. cache' \in Hashes \cup {NoHash} /\ got' \in [Senders -> Ages \cup {NoHash}]
    BY <2>2, <2>3
  <2> QED
    BY <1>5, <2>1, <2>4 DEF Replies
<1>6. ASSUME NEW s \in Senders, FetchFails(s) PROVE TypeOK'
  <2>1. waited' \in [Senders -> Nat]
    BY <1>6, OverType DEF FetchFails
  <2> QED
    BY <1>6, <2>1 DEF FetchFails
<1>7. ASSUME NEW s \in Senders, Abandoned(s) PROVE TypeOK'
  <2>1. queue' \in Seq(Senders)
    <3>1. CASE phase[s] \in {"asked", "missed"}
      <4>1. PICK i \in DOMAIN queue :
              queue' = SubSeq(queue, 1, i - 1) \o SubSeq(queue, i + 1, Len(queue))
        BY <1>7, <3>1 DEF Abandoned, Dequeues
      <4> QED
        BY <4>1, DequeueType
    <3>2. CASE phase[s] \notin {"asked", "missed"}
      BY <1>7, <3>2 DEF Abandoned, Dequeues
    <3> QED
      BY <3>1, <3>2
  <2>2. Over(s) \/ UNCHANGED waited
    BY <1>7 DEF Abandoned
  <2>3. waited' \in [Senders -> Nat]
    BY <2>2, OverType
  <2> QED
    BY <1>7, <2>1, <2>3 DEF Abandoned
<1>8. ASSUME NEW s \in Senders, Ends(s) PROVE TypeOK'
  BY <1>8 DEF Ends, Uses
<1>9. CASE TimePasses
  BY <1>9, AgedType DEF TimePasses, Capped
<1>10. CASE UNCHANGED vars
  BY <1>10 DEF vars
<1> QED
  BY <1>1, <1>2, <1>3, <1>4, <1>5, <1>6, <1>7, <1>8, <1>9, <1>10 DEF Next, Runs, Answered

LEMMA StepWriter == CacheInv /\ [Next]_vars => OneWriter'
<1> SUFFICES ASSUME CacheInv, [Next]_vars, TypeOK' PROVE OneWriter'
  BY StepType DEF CacheInv
<1> USE DEF CacheInv, TypeOK, OneWriter, Phases, GuardAt, To, Holds, cellVars, lockVars
<1>1. ASSUME NEW s \in Senders, Asks(s) PROVE OneWriter'
  BY <1>1 DEF Asks, Valid
<1>2. ASSUME NEW s \in Senders, GetsReadGuard(s) PROVE OneWriter'
  BY <1>2 DEF GetsReadGuard, Valid
<1>3. ASSUME NEW s \in Senders, LeavesRead(s) PROVE OneWriter'
  BY <1>3 DEF LeavesRead, Hands, Valid
<1>4. ASSUME NEW s \in Senders, GetsWriteGuard(s) PROVE OneWriter'
  BY <1>4 DEF GetsWriteGuard, WriteFree, Hands, Valid
<1>5. ASSUME NEW s \in Senders, Replies(s) PROVE OneWriter'
  BY <1>5 DEF Replies
<1>6. ASSUME NEW s \in Senders, FetchFails(s) PROVE OneWriter'
  BY <1>6 DEF FetchFails, Valid
<1>7. ASSUME NEW s \in Senders, Abandoned(s) PROVE OneWriter'
  BY <1>7 DEF Abandoned, Valid
<1>8. ASSUME NEW s \in Senders, Ends(s) PROVE OneWriter'
  BY <1>8 DEF Ends, Uses, Valid
<1>9. CASE TimePasses
  BY <1>9, AgedType DEF TimePasses, Valid
<1>10. CASE UNCHANGED vars
  BY <1>10 DEF vars, Valid
<1> QED
  BY <1>1, <1>2, <1>3, <1>4, <1>5, <1>6, <1>7, <1>8, <1>9, <1>10 DEF Next, Runs, Answered

(***************************************************************************)
(* A step leaves the cell alone, or is a step of HashCell.                 *)
(***************************************************************************)
LEMMA StepCell ==
  CacheInv /\ [Next]_vars =>
    [Passes \/ \E s \in Senders : Hands(s) \/ Renews(s) \/ Uses(s)]_cellVars
<1> SUFFICES ASSUME CacheInv, [Next]_vars
             PROVE  [Passes \/ \E s \in Senders : Hands(s) \/ Renews(s) \/ Uses(s)]_cellVars
  OBVIOUS
<1> USE DEF cellVars
<1>1. ASSUME NEW s \in Senders, Replies(s) PROVE Renews(s)
  <2>1. 0 .. fetchTime \subseteq 0 .. Latency
    BY DEF CacheInv, TypeOK
  <2>2. ~Valid
    BY <1>1 DEF Replies, CacheInv, OneWriter
  <2> QED
    BY <1>1, <2>1, <2>2 DEF Replies, Renews
<1>2. ASSUME NEW s \in Senders, LeavesRead(s) \/ GetsWriteGuard(s)
      PROVE  Hands(s) \/ UNCHANGED cellVars
  BY <1>2 DEF LeavesRead, GetsWriteGuard
<1>3. ASSUME NEW s \in Senders, Asks(s) \/ GetsReadGuard(s) \/ FetchFails(s) \/ Abandoned(s)
      PROVE  UNCHANGED cellVars
  BY <1>3 DEF Asks, GetsReadGuard, FetchFails, Abandoned
<1>4. ASSUME NEW s \in Senders, Ends(s) PROVE Uses(s)
  BY <1>4 DEF Ends
<1>5. TimePasses => Passes
  BY DEF TimePasses, Passes
<1>6. UNCHANGED vars => UNCHANGED cellVars
  BY DEF vars
<1> QED
  BY <1>1, <1>2, <1>3, <1>4, <1>5, <1>6 DEF Next, Runs, Answered

LEMMA CellAge ==
  CacheInv /\ [Passes \/ \E s \in Senders : Hands(s) \/ Renews(s) \/ Uses(s)]_cellVars
    => CacheIsYoung' /\ SignsRecentHash'
<1> SUFFICES ASSUME CacheInv,
                    [Passes \/ \E s \in Senders : Hands(s) \/ Renews(s) \/ Uses(s)]_cellVars
             PROVE  CacheIsYoung' /\ SignsRecentHash'
  OBVIOUS
<1> USE DEF CacheInv, CacheIsYoung, SignsRecentHash, TypeOK
<1>1. CASE Passes
  BY <1>1, AgedType DEF Passes
<1>2. ASSUME NEW s \in Senders, Hands(s) PROVE CacheIsYoung' /\ SignsRecentHash'
  BY <1>2 DEF Hands, Valid
<1>3. ASSUME NEW s \in Senders, Renews(s) PROVE CacheIsYoung' /\ SignsRecentHash'
  BY <1>3 DEF Renews
<1>4. ASSUME NEW s \in Senders, Uses(s) PROVE CacheIsYoung' /\ SignsRecentHash'
  BY <1>4 DEF Uses
<1>5. CASE UNCHANGED cellVars
  BY <1>5 DEF cellVars
<1> QED
  BY <1>1, <1>2, <1>3, <1>4, <1>5

-----------------------------------------------------------------------------
(***************************************************************************)
(* How often a call waits.  A call in the queue waits for the RPC calls of *)
(* those ahead of it and of the one that is out, and whoever has ended a   *)
(* call queues again behind it.                                            *)
(***************************************************************************)
Waiting(s) == phase[s] \in {"asked", "missed"}

In(q, s) == \E i \in DOMAIN q : q[i] = s

Ahead(q, t, s) == \E i, j \in DOMAIN q : i < j /\ q[i] = t /\ q[j] = s

\* The calls that may have an RPC call end while s is in the queue.
Before(s) == {t \in Senders : phase[t] = "fetching" \/ Ahead(queue, t, s)}

Distinct(q) == \A i, j \in DOMAIN q : q[i] = q[j] => i = j

QueueInv ==
  /\ Distinct(queue)
  /\ \A s \in Senders : Waiting(s) <=> In(queue, s)

\* The others a call may have to wait for, once in front of either lock.
Others == Cardinality(Senders) - 1

Bounded(s) ==
  /\ phase[s] = "asked" => waited[s] + Cardinality(Before(s)) <= Others
  /\ phase[s] = "checking" => waited[s] <= Others
  /\ phase[s] = "missed" => waited[s] + Cardinality(Before(s)) <= 2 * Others
  /\ waited[s] <= 2 * Others

WaitInv == QueueInv /\ \A s \in Senders : Bounded(s)

LEMMA AppendQueue ==
  ASSUME NEW q \in Seq(Senders), NEW e \in Senders, Distinct(q), ~In(q, e)
  PROVE  /\ Distinct(Append(q, e))
         /\ \A s : In(Append(q, e), s) <=> s = e \/ In(q, s)
         /\ \A s, t : s # e /\ Ahead(Append(q, e), t, s) => Ahead(q, t, s)
         /\ ~Ahead(Append(q, e), e, e)
<1>1. /\ DOMAIN q = 1 .. Len(q) /\ Len(q) \in Nat /\ DOMAIN Append(q, e) = 1 .. Len(q) + 1
      /\ \A i \in 1 .. Len(q) : Append(q, e)[i] = q[i]
      /\ Append(q, e)[Len(q) + 1] = e
  OBVIOUS
<1>2. \A i \in 1 .. Len(q) + 1 : i \in 1 .. Len(q) \/ i = Len(q) + 1
  BY <1>1
<1>3. Len(q) + 1 \in 1 .. Len(q) + 1 /\ 1 .. Len(q) \subseteq 1 .. Len(q) + 1
  BY <1>1
<1>4. Distinct(Append(q, e))
  BY <1>1, <1>2 DEF Distinct, In
<1>5. ASSUME NEW s PROVE In(Append(q, e), s) <=> s = e \/ In(q, s)
  BY <1>1, <1>2, <1>3 DEF In
<1>6. ASSUME NEW s, NEW t, s # e, Ahead(Append(q, e), t, s) PROVE Ahead(q, t, s)
  <2>1. PICK i, j \in 1 .. Len(q) + 1 : i < j /\ Append(q, e)[i] = t /\ Append(q, e)[j] = s
    BY <1>1, <1>6 DEF Ahead
  <2>2. j \in 1 .. Len(q)
    BY <1>1, <1>2, <1>6, <2>1
  <2>3. i \in 1 .. Len(q)
    BY <1>1, <2>1, <2>2
  <2> QED
    BY <1>1, <2>1, <2>2, <2>3 DEF Ahead
<1>7. ~Ahead(Append(q, e), e, e)
  BY <1>1, <1>4 DEF Ahead, Distinct
<1> QED
  BY <1>4, <1>5, <1>6, <1>7

\* r is q with the call at k taken out: its head, or one that is dropped.
Without(r, q, k) ==
  /\ Len(r) = Len(q) - 1
  /\ \A i \in 1 .. Len(r) : r[i] = IF i < k THEN q[i] ELSE q[i + 1]

\* Only e has left the queue, and nobody has overtaken anybody.
Leaves(r, q, e) ==
  /\ Distinct(r)
  /\ \A s : In(r, s) <=> s # e /\ In(q, s)
  /\ \A s, t : Ahead(r, t, s) => Ahead(q, t, s)

LEMMA ShorterQueue ==
  ASSUME NEW q \in Seq(Senders), NEW r \in Seq(Senders), Distinct(q),
         NEW k \in 1 .. Len(q), Without(r, q, k)
  PROVE  Leaves(r, q, q[k])
<1> DEFINE f(i) == IF i < k THEN i ELSE i + 1
<1>1. DOMAIN q = 1 .. Len(q) /\ DOMAIN r = 1 .. Len(r) /\ Len(q) \in Nat /\ Len(r) \in Nat
  OBVIOUS
<1>0. Len(r) = Len(q) - 1 /\ \A i \in 1 .. Len(r) : r[i] = IF i < k THEN q[i] ELSE q[i + 1]
  BY DEF Without
<1>2. ASSUME NEW i \in 1 .. Len(r)
      PROVE  f(i) \in 1 .. Len(q) /\ f(i) # k /\ r[i] = q[f(i)]
  BY <1>0, <1>1
<1>3. ASSUME NEW i \in 1 .. Len(r), NEW j \in 1 .. Len(r)
      PROVE  (i < j <=> f(i) < f(j)) /\ (f(i) = f(j) => i = j)
  BY <1>1
<1>4. ASSUME NEW i \in 1 .. Len(q), i # k
      PROVE  \E j \in 1 .. Len(r) : f(j) = i
  <2>1. CASE i < k
    <3>1. i \in 1 .. Len(r) /\ f(i) = i
      BY <1>0, <1>1, <2>1
    <3> QED
      BY <3>1
  <2>2. CASE ~(i < k)
    <3>1. i - 1 \in 1 .. Len(r) /\ f(i - 1) = i
      BY <1>0, <1>1, <1>4, <2>2
    <3> QED
      BY <3>1
  <2> QED
    BY <2>1, <2>2
<1> HIDE DEF f
<1>5. Distinct(r)
  BY <1>1, <1>2, <1>3 DEF Distinct
<1>6. ASSUME NEW s PROVE In(r, s) <=> s # q[k] /\ In(q, s)
  <2>1. ASSUME NEW i \in 1 .. Len(r), r[i] = s
        PROVE  s # q[k] /\ \E j \in DOMAIN q : q[j] = s
    BY <1>1, <1>2, <2>1 DEF Distinct
  <2>2. ASSUME NEW i \in 1 .. Len(q), q[i] = s, s # q[k]
        PROVE  \E j \in DOMAIN r : r[j] = s
    BY <1>1, <1>2, <1>4, <2>2
  <2> QED
    BY <1>1, <2>1, <2>2 DEF In
<1>7. ASSUME NEW s, NEW t, Ahead(r, t, s) PROVE Ahead(q, t, s)
  <2>1. PICK i, j \in 1 .. Len(r) : i < j /\ r[i] = t /\ r[j] = s
    BY <1>1, <1>7 DEF Ahead
  <2> QED
    BY <1>1, <1>2, <1>3, <2>1 DEF Ahead
<1> QED
  BY <1>5, <1>6, <1>7 DEF Leaves

LEMMA TailQueue ==
  ASSUME NEW q \in Seq(Senders), q # <<>>, Distinct(q)
  PROVE  Leaves(Tail(q), q, Head(q))
<1>1. Tail(q) \in Seq(Senders) /\ 1 \in 1 .. Len(q) /\ Head(q) = q[1]
  OBVIOUS
<1>2. Without(Tail(q), q, 1)
  BY DEF Without
<1> QED
  BY <1>1, <1>2, ShorterQueue

LEMMA PastGap ==
  ASSUME NEW n \in Nat, NEW k \in 1 .. n, NEW i \in 1 .. n - 1, ~(i < k)
  PROVE  i - (k - 1) \in 1 .. n - k /\ k + (i - (k - 1)) = i + 1 /\ ~(i <= k - 1)
  OBVIOUS

LEMMA DropQueue ==
  ASSUME NEW q \in Seq(Senders), NEW k \in DOMAIN q, Distinct(q),
         NEW r, r = SubSeq(q, 1, k - 1) \o SubSeq(q, k + 1, Len(q))
  PROVE  Leaves(r, q, q[k])
<1>1. k \in 1 .. Len(q) /\ Len(q) \in Nat
  OBVIOUS
<1>2. PICK a : a = SubSeq(q, 1, k - 1)
  OBVIOUS
<1>3. PICK b : b = SubSeq(q, k + 1, Len(q))
  OBVIOUS
<1>4. a \in Seq(Senders) /\ Len(a) = k - 1 /\ \A i \in 1 .. k - 1 : a[i] = q[i]
  BY <1>1, <1>2
<1>5. /\ b \in Seq(Senders) /\ Len(b) = Len(q) - k
      /\ \A i \in 1 .. Len(q) - k : b[i] = q[k + i]
  BY <1>1, <1>3
<1>6. r = a \o b
  BY <1>2, <1>3
<1>7. /\ r \in Seq(Senders) /\ Len(r) = Len(q) - 1
      /\ \A i \in 1 .. Len(q) - 1 : r[i] = IF i <= k - 1 THEN a[i] ELSE b[i - (k - 1)]
  <2> HIDE <1>2, <1>3
  <2>1. /\ a \o b \in Seq(Senders) /\ Len(a \o b) = Len(a) + Len(b)
        /\ \A i \in 1 .. Len(a) + Len(b) : (a \o b)[i] = IF i <= Len(a) THEN a[i] ELSE b[i - Len(a)]
    <3>1. a \in Seq(Senders) /\ b \in Seq(Senders)
      BY <1>4, <1>5
    <3> QED
      BY <3>1, ConcatProperties, Zenon
  <2>2. Len(a) = k - 1 /\ Len(a) + Len(b) = Len(q) - 1
    BY <1>1, <1>4, <1>5
  <2> QED
    BY <1>6, <2>1, <2>2
<1>8. ASSUME NEW i \in 1 .. Len(r)
      PROVE  r[i] = IF i < k THEN q[i] ELSE q[i + 1]
  <2>1. CASE i < k
    <3>1. i \in 1 .. k - 1
      BY <1>1, <2>1
    <3> QED
      BY <1>1, <1>4, <1>7, <2>1, <3>1
  <2>2. CASE ~(i < k)
    <3>0. i \in 1 .. Len(q) - 1
      BY <1>7
    <3>1. i - (k - 1) \in 1 .. Len(q) - k /\ k + (i - (k - 1)) = i + 1 /\ ~(i <= k - 1)
      BY <1>1, <2>2, <3>0, PastGap
    <3>2. r[i] = b[i - (k - 1)]
      BY <1>7, <3>0, <3>1
    <3>3. b[i - (k - 1)] = q[k + (i - (k - 1))]
      BY <1>5, <3>1
    <3> QED
      BY <2>2, <3>1, <3>2, <3>3
  <2> QED
    BY <2>1, <2>2
<1> QED
  BY <1>1, <1>7, <1>8, ShorterQueue DEF Without

\* Of two calls in the queue the head is ahead.
LEMMA HeadAhead ==
  ASSUME NEW q \in Seq(Senders), q # <<>>, NEW s, In(q, s), s # Head(q)
  PROVE  Ahead(q, Head(q), s)
<1>1. PICK j \in DOMAIN q : q[j] = s
  BY DEF In
<1>2. 1 \in DOMAIN q /\ q[1] = Head(q) /\ 1 < j
  BY <1>1
<1> QED
  BY <1>1, <1>2 DEF Ahead

-----------------------------------------------------------------------------
(***************************************************************************)
(* The queue holds the calls that wait, each once.                         *)
(***************************************************************************)
LEMMA QueueSame ==
  ASSUME QueueInv, UNCHANGED queue, \A s \in Senders : Waiting(s)' <=> Waiting(s)
  PROVE  QueueInv'
  BY DEF QueueInv

LEMMA QueueJoined ==
  ASSUME TypeOK, QueueInv, NEW u \in Senders, ~Waiting(u), queue' = Append(queue, u),
         NEW p \in {"asked", "missed"}, phase' = [phase EXCEPT ![u] = p]
  PROVE  QueueInv' /\ \A s \in Senders \ {u} : \A t : Ahead(queue', t, s) => Ahead(queue, t, s)
<1>1. queue \in Seq(Senders) /\ Distinct(queue) /\ ~In(queue, u)
  BY DEF TypeOK, QueueInv
<1>2. ASSUME NEW s \in Senders PROVE Waiting(s)' <=> s = u \/ Waiting(s)
  BY DEF TypeOK, Waiting
<1> QED
  BY <1>1, <1>2, AppendQueue DEF QueueInv

LEMMA QueueLeft ==
  ASSUME TypeOK, QueueInv, NEW u \in Senders, Leaves(queue', queue, u),
         phase'[u] \notin {"asked", "missed"},
         \A s \in Senders \ {u} : phase'[s] = phase[s]
  PROVE  QueueInv' /\ \A s, t : Ahead(queue', t, s) => Ahead(queue, t, s)
<1>1. ASSUME NEW s \in Senders PROVE Waiting(s)' <=> s # u /\ Waiting(s)
  BY DEF Waiting
<1> QED
  BY <1>1 DEF QueueInv, Leaves

\* Of two calls in the queue, what the one waits for does not grow.
Overtaken(s) ==
  /\ \A t : Ahead(queue', t, s) => Ahead(queue, t, s)
  /\ \A t \in Senders : phase'[t] = "fetching" => t \in Before(s)

LEMMA QueueStep ==
  ASSUME TypeOK, QueueInv, Next
  PROVE  QueueInv' /\ \A s \in Senders : Waiting(s) /\ phase'[s] = phase[s] => Overtaken(s)
<1> DEFINE Goal ==
      QueueInv' /\ \A s \in Senders : Waiting(s) /\ phase'[s] = phase[s] => Overtaken(s)
<1> USE DEF TypeOK, To
<1>1. ASSUME NEW u \in Senders, Asks(u) \/ LeavesRead(u) PROVE Goal
  <2>1. ~Waiting(u) /\ \A t \in Senders : phase'[t] = "fetching" => phase[t] = "fetching"
    BY <1>1 DEF Asks, LeavesRead, Waiting
  <2>2. CASE UNCHANGED queue
    <3>0. ~Asks(u)
      <4>1. queue \in Seq(Senders)
        OBVIOUS
      <4>2. queue # Append(queue, u)
        BY <4>1
      <4> QED
        BY <2>2, <4>2 DEF Asks
    <3>1. \A s \in Senders : Waiting(s)' <=> Waiting(s)
      <4>1. phase[u] = "checking" /\ LeavesRead(u)
        BY <1>1, <3>0 DEF LeavesRead
      <4>2. CASE phase' = [phase EXCEPT ![u] = "answered"]
        BY <4>1, <4>2 DEF Waiting
      <4>3. CASE queue' = Append(queue, u)
        <5>1. queue \in Seq(Senders)
          OBVIOUS
        <5>2. queue # Append(queue, u)
          BY <5>1
        <5> QED
          BY <2>2, <4>3, <5>2
      <4> QED
        BY <4>1, <4>2, <4>3 DEF LeavesRead
    <3> QED
      BY <2>1, <2>2, <3>1, QueueSame DEF Overtaken, Before
  <2>3. CASE queue' = Append(queue, u)
    <3>1. \E p \in {"asked", "missed"} : phase' = [phase EXCEPT ![u] = p]
      <4>1. queue # Append(queue, u)
        <5>1. queue \in Seq(Senders)
          OBVIOUS
        <5> QED
          BY <5>1
      <4> QED
        BY <1>1, <2>3, <4>1 DEF Asks, LeavesRead
    <3>2. QueueInv' /\ \A s \in Senders \ {u} : \A t : Ahead(queue', t, s) => Ahead(queue, t, s)
      BY <2>1, <2>3, <3>1, QueueJoined
    <3> QED
      BY <2>1, <3>2 DEF Overtaken, Before
  <2> QED
    BY <1>1, <2>2, <2>3 DEF Asks, LeavesRead
<1>2. ASSUME NEW u \in Senders, GetsReadGuard(u) \/ GetsWriteGuard(u) PROVE Goal
  <2>1. queue # <<>> /\ Head(queue) = u /\ queue' = Tail(queue)
    BY <1>2 DEF GetsReadGuard, GetsWriteGuard, WriteFree, IsNext
  <2>2. /\ phase'[u] \notin {"asked", "missed"} /\ phase'[u] # phase[u]
        /\ \A s \in Senders \ {u} : phase'[s] = phase[s]
    BY <1>2 DEF GetsReadGuard, GetsWriteGuard, WriteFree
  <2>3. Leaves(queue', queue, u)
    BY <2>1, TailQueue DEF QueueInv
  <2>4. QueueInv' /\ \A s, t : Ahead(queue', t, s) => Ahead(queue, t, s)
    BY <2>2, <2>3, QueueLeft
  <2>5. ASSUME NEW s \in Senders, Waiting(s), phase'[s] = phase[s] PROVE Overtaken(s)
    <3>1. In(queue, s) /\ s # u
      BY <2>2, <2>5 DEF QueueInv
    <3>2. Ahead(queue, u, s)
      BY <2>1, <3>1, HeadAhead
    <3> QED
      BY <2>2, <2>4, <3>2 DEF Overtaken, Before
  <2> QED
    BY <2>4, <2>5
<1>3. ASSUME NEW u \in Senders, Replies(u) \/ FetchFails(u) \/ Ends(u) PROVE Goal
  <2>1. UNCHANGED queue /\ \A s \in Senders : Waiting(s)' <=> Waiting(s)
    BY <1>3 DEF Replies, FetchFails, Ends, Waiting
  <2>2. \A t \in Senders : phase'[t] = "fetching" => phase[t] = "fetching"
    BY <1>3 DEF Replies, FetchFails, Ends
  <2> QED
    BY <2>1, <2>2, QueueSame DEF Overtaken, Before
<1>4. ASSUME NEW u \in Senders, Abandoned(u) PROVE Goal
  <2>1. /\ phase'[u] = "idle" /\ \A s \in Senders \ {u} : phase'[s] = phase[s]
    BY <1>4 DEF Abandoned
  <2>2. CASE Waiting(u)
    <3>1. PICK k \in DOMAIN queue :
            /\ queue[k] = u
            /\ queue' = SubSeq(queue, 1, k - 1) \o SubSeq(queue, k + 1, Len(queue))
      BY <1>4, <2>2 DEF Abandoned, Dequeues, Waiting
    <3>2. Leaves(queue', queue, u)
      BY <3>1, DropQueue DEF QueueInv
    <3>3. QueueInv' /\ \A s, t : Ahead(queue', t, s) => Ahead(queue, t, s)
      BY <2>1, <3>2, QueueLeft
    <3> QED
      BY <2>1, <3>3 DEF Overtaken, Before
  <2>3. CASE ~Waiting(u)
    <3>1. UNCHANGED queue /\ \A s \in Senders : Waiting(s)' <=> Waiting(s)
      BY <1>4, <2>1, <2>3 DEF Abandoned, Dequeues, Waiting
    <3> QED
      BY <2>1, <3>1, QueueSame DEF Overtaken, Before
  <2> QED
    BY <2>2, <2>3
<1>5. CASE TimePasses
  <2>1. UNCHANGED <<queue, phase>>
    BY <1>5 DEF TimePasses, lockVars
  <2>2. \A s \in Senders : Waiting(s)' <=> Waiting(s)
    BY <2>1 DEF Waiting
  <2> QED
    BY <2>1, <2>2, QueueSame DEF Overtaken, Before
<1> QED
  BY <1>1, <1>2, <1>3, <1>4, <1>5 DEF Next, Runs, Answered

LEMMA Fewer ==
  ASSUME NEW B \in SUBSET Senders, NEW A \in SUBSET B
  PROVE  /\ Cardinality(A) \in Nat /\ Cardinality(B) \in Nat
         /\ Cardinality(A) <= Cardinality(B)
  BY SendersAssumption, FS_Subset, FS_CardinalityType

LEMMA OneFewer ==
  ASSUME NEW B \in SUBSET Senders, NEW A \in SUBSET B, NEW u \in B \ A
  PROVE  Cardinality(A) + 1 <= Cardinality(B)
<1>1. IsFiniteSet(B) /\ Cardinality(B \ {u}) = Cardinality(B) - 1
  BY SendersAssumption, FS_Subset, FS_RemoveElement
<1>2. A \in SUBSET (B \ {u}) /\ B \ {u} \in SUBSET Senders
  OBVIOUS
<1>3. Cardinality(A) \in Nat /\ Cardinality(B) \in Nat /\ Cardinality(A) <= Cardinality(B \ {u})
  BY <1>2, Fewer
<1> QED
  BY <1>1, <1>3

\* Whoever is behind the others waits for no more than the others.
LEMMA BehindOthers ==
  ASSUME NEW s \in Senders
  PROVE  /\ Others \in Nat
         /\ \A A \in SUBSET (Senders \ {s}) : Cardinality(A) <= Others
<1>1. Cardinality(Senders \ {s}) = Cardinality(Senders) - 1
  BY SendersAssumption, FS_RemoveElement
<1>2. Senders \ {s} \in SUBSET Senders
  OBVIOUS
<1>3. Cardinality(Senders \ {s}) \in Nat
  BY <1>2, Fewer
<1>4. \A A \in SUBSET (Senders \ {s}) : Cardinality(A) <= Cardinality(Senders \ {s})
  BY <1>2, Fewer
<1> QED
  BY <1>1, <1>3, <1>4 DEF Others

\* What a step is to a call: nothing, the end of another's RPC call, or its own.
Untouched(s) == phase'[s] = phase[s] /\ waited'[s] = waited[s]

SeesEnd(s) ==
  /\ phase'[s] = phase[s] /\ waited'[s] = waited[s] + 1
  /\ phase[s] \in {"asked", "checking", "missed"}
  /\ \E u \in Senders \ {s} : phase[u] = "fetching" /\ phase'[u] # "fetching"

Moves(s) ==
  \/ phase'[s] = "asked" /\ waited'[s] = 0
  \/ phase[s] = "asked" /\ phase'[s] = "checking" /\ waited'[s] = waited[s]
  \/ phase[s] = "checking" /\ phase'[s] = "missed" /\ waited'[s] = waited[s]
  \/ phase'[s] \in {"idle", "fetching", "answered", "failed"} /\ waited'[s] = waited[s]

LEMMA OverSeen ==
  ASSUME TypeOK, NEW u \in Senders, phase[u] = "fetching", Over(u),
         NEW p \in Phases \ {"fetching", "asked", "checking", "missed"},
         phase' = [phase EXCEPT ![u] = p]
  PROVE  \A s \in Senders : Untouched(s) \/ SeesEnd(s) \/ Moves(s)
  BY DEF TypeOK, Phases, Over, Untouched, SeesEnd, Moves

LEMMA StepKinds ==
  ASSUME TypeOK, Next
  PROVE  \A s \in Senders : Untouched(s) \/ SeesEnd(s) \/ Moves(s)
<1> USE DEF TypeOK, To
<1>1. ASSUME NEW u \in Senders, NEW s \in Senders,
             Asks(u) \/ GetsReadGuard(u) \/ LeavesRead(u) \/ GetsWriteGuard(u) \/ Ends(u)
      PROVE  Untouched(s) \/ Moves(s)
  BY <1>1 DEF Asks, GetsReadGuard, LeavesRead, GetsWriteGuard, WriteFree, Ends, Untouched, Moves
<1>2. ASSUME NEW u \in Senders, Replies(u) \/ FetchFails(u), NEW s \in Senders
      PROVE  Untouched(s) \/ SeesEnd(s) \/ Moves(s)
  BY <1>2, OverSeen DEF Replies, FetchFails, Phases
<1>3. ASSUME NEW u \in Senders, Abandoned(u), NEW s \in Senders
      PROVE  Untouched(s) \/ SeesEnd(s) \/ Moves(s)
  <2>1. CASE phase[u] = "fetching"
    BY <1>3, <2>1, OverSeen DEF Abandoned, Phases
  <2>2. CASE phase[u] # "fetching"
    BY <1>3, <2>2 DEF Abandoned, Untouched, Moves
  <2> QED
    BY <2>1, <2>2
<1>4. CASE TimePasses
  BY <1>4 DEF TimePasses, lockVars, Untouched
<1> QED
  BY <1>1, <1>2, <1>3, <1>4 DEF Next, Runs, Answered

LEMMA StepWait ==
  ASSUME CacheInv, WaitInv, TypeOK', Next
  PROVE  WaitInv'
<1>1. QueueInv' /\ \A s \in Senders : Waiting(s) /\ phase'[s] = phase[s] => Overtaken(s)
  BY QueueStep DEF CacheInv, WaitInv
<1> SUFFICES ASSUME NEW s \in Senders PROVE Bounded(s)'
  BY <1>1 DEF WaitInv
<1> DEFINE A == {t \in Senders : phase'[t] = "fetching" \/ Ahead(queue', t, s)}
<1>2. /\ Before(s) \in SUBSET Senders /\ A \in SUBSET Senders /\ A = Before(s)'
      /\ Cardinality(Before(s)) \in Nat /\ Cardinality(A) \in Nat
      /\ waited[s] \in Nat /\ waited'[s] \in Nat /\ Others \in Nat
  BY Fewer, BehindOthers DEF Before, CacheInv, TypeOK
<1>3. /\ phase[s] = "asked" => waited[s] + Cardinality(Before(s)) <= Others
      /\ phase[s] = "checking" => waited[s] <= Others
      /\ phase[s] = "missed" => waited[s] + Cardinality(Before(s)) <= 2 * Others
      /\ waited[s] <= 2 * Others
  BY DEF WaitInv, Bounded
<1>4. phase'[s] = phase[s] /\ Waiting(s) => A \in SUBSET Before(s)
  BY <1>1 DEF Overtaken, Before
<1> HIDE DEF A
<1> SUFFICES /\ phase'[s] = "asked" => waited'[s] + Cardinality(A) <= Others
             /\ phase'[s] = "checking" => waited'[s] <= Others
             /\ phase'[s] = "missed" => waited'[s] + Cardinality(A) <= 2 * Others
             /\ waited'[s] <= 2 * Others
  BY <1>2 DEF Bounded
<1>5. CASE Untouched(s)
  <2>1. Waiting(s) => Cardinality(A) <= Cardinality(Before(s))
    BY <1>2, <1>4, <1>5, Fewer DEF Untouched
  <2> QED
    BY <1>2, <1>3, <1>5, <2>1 DEF Untouched, Waiting
<1>6. CASE SeesEnd(s)
  <2>1. PICK u \in Senders \ {s} : phase[u] = "fetching" /\ phase'[u] # "fetching"
    BY <1>6 DEF SeesEnd
  <2>2. Waiting(s) /\ phase'[s] = phase[s]
    BY <1>6, <2>1 DEF SeesEnd, Waiting, CacheInv, OneWriter
  <2>3. u \in Before(s)
    BY <2>1 DEF Before
  <2>4. ~Ahead(queue, u, s)
    <3>1. ~In(queue, u)
      BY <2>1 DEF Waiting, WaitInv, QueueInv
    <3> QED
      BY <3>1 DEF Ahead, In
  <2>5. u \notin A
    BY <1>1, <2>1, <2>2, <2>4 DEF A, Overtaken
  <2>6. Cardinality(A) + 1 <= Cardinality(Before(s))
    BY <1>2, <1>4, <2>2, <2>3, <2>5, OneFewer
  <2> QED
    BY <1>2, <1>3, <1>6, <2>2, <2>6 DEF SeesEnd, Waiting
<1>7. CASE Moves(s)
  <2>1. Waiting(s)' => Cardinality(A) <= Others
    <3>1. ASSUME Waiting(s)' PROVE s \notin A
      <4>1. DOMAIN queue' \subseteq Nat
        <5>1. \A q \in Seq(Senders) : DOMAIN q \subseteq Nat
          OBVIOUS
        <5> QED
          BY <5>1 DEF TypeOK
      <4>2. ~Ahead(queue', s, s)
        BY <1>1, <4>1 DEF Ahead, QueueInv, Distinct
      <4> QED
        BY <3>1, <4>2 DEF A, Waiting
    <3> QED
      BY <1>2, <3>1, BehindOthers
  <2> QED
    BY <1>2, <1>3, <1>7, <2>1 DEF Moves, Waiting
<1> QED
  BY <1>5, <1>6, <1>7, StepKinds DEF CacheInv

-----------------------------------------------------------------------------
(***************************************************************************)
(* Types, the guards a call may hold at each await, mutual exclusion and   *)
(* the age of what is handed out, together inductive.                      *)
(***************************************************************************)
THEOREM CacheCorrect == Spec => []CacheInv
<1>1. CacheInv /\ [Next]_vars => CacheInv'
  BY StepType, StepWriter, StepCell, CellAge DEF CacheInv
<1> QED
  BY InitInv, <1>1, PTL DEF Spec

(***************************************************************************)
(* One RPC call serves all sends that missed together, for any number of   *)
(* senders (tx.rs: the second look under the write lock).                  *)
(***************************************************************************)
THEOREM FetchCorrect == Spec => []NoRedundantFetch
<1>1. CacheInv => NoRedundantFetch
  BY DEF CacheInv, OneWriter, NoRedundantFetch
<1> QED
  BY CacheCorrect, <1>1, PTL

(***************************************************************************)
(* No transaction is signed with a hash older than BLOCKHASH_TTL and one   *)
(* RPC call.                                                               *)
(***************************************************************************)
THEOREM AgeCorrect == Spec => []SignsRecentHash
  BY CacheCorrect, PTL DEF CacheInv

(***************************************************************************)
(* A send, also an emergency clear, waits for at most two RPC calls of     *)
(* each other sender (tx.rs: both locks are taken in order of arrival, and *)
(* whoever has ended a call queues again at the end).                      *)
(***************************************************************************)
THEOREM WaitCorrect == Spec => []WaitsBounded
<1>1. Init => WaitInv
  <2>1. ASSUME Init, NEW s \in Senders PROVE Bounded(s)
    BY <2>1, BehindOthers DEF Init, Bounded
  <2>2. ASSUME Init PROVE QueueInv
    BY <2>2 DEF Init, QueueInv, Distinct, In, Waiting
  <2> QED
    BY <2>1, <2>2 DEF WaitInv
<1>2. CacheInv /\ CacheInv' /\ WaitInv /\ [Next]_vars => WaitInv'
  <2>1. WaitInv /\ UNCHANGED vars => WaitInv'
    <3> SUFFICES ASSUME WaitInv, UNCHANGED vars PROVE WaitInv'
      OBVIOUS
    <3>1. UNCHANGED <<phase, queue, waited>>
      BY DEF vars, lockVars
    <3> QED
      BY <3>1 DEF WaitInv, QueueInv, Waiting, Bounded, Before
  <2> QED
    BY <2>1, StepWait DEF CacheInv
<1>3. WaitInv => WaitsBounded
  BY DEF WaitInv, Bounded, WaitsBounded, Others
<1> QED
  BY <1>1, <1>2, <1>3, CacheCorrect, PTL DEF Spec

\* Types, and the guard a call holds at each await (tx.rs: guards live for a block).
THEOREM TypeCorrect == Spec => []TypeOK
  BY CacheCorrect, PTL DEF CacheInv

(***************************************************************************)
(* get_or_refresh_blockhash implements the atomic cell.                    *)
(***************************************************************************)
THEOREM CacheImplements == Spec => KeepsPromise
<1>1. Init => CellInit
  BY DEF Init
<1> QED
  BY <1>1, CacheCorrect, StepCell, PTL DEF Spec, KeepsPromise, CellSpec
=============================================================================
