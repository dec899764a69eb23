-------------------------- MODULE AccountViewProofs --------------------------
(***************************************************************************)
(* What the account stream delivers, for every value of the constants: the *)
(* numbers it shows only rise, and caught up means exact.                  *)
(***************************************************************************)
EXTENDS AccountView, TLAPS

(***************************************************************************)
(* Numbers are copied from the book, and each copy is behind the one it    *)
(* was made from.                                                          *)
(***************************************************************************)
NumbersInv ==
  /\ \A f \in frames : f.view["seq"] <= book.view["seq"]
  /\ frame.view["seq"] <= book.view["seq"]
  /\ cell["seq"] <= book.view["seq"]
  /\ reading["seq"] <= cell["seq"]

(***************************************************************************)
(* The book's last change is on the way, or it is the frame being copied.  *)
(***************************************************************************)
LatestInv ==
  /\ \A f \in frames : f.slot <= book.slot /\ (f.slot = book.slot => f = book)
  /\ ~missed => book \in frames \/ frame = book
  /\ ~missed /\ book \notin frames => \A c \in Cells \ unstored : cell[c] = book.view[c]

ViewInv == TypeOK /\ NumbersInv /\ LatestInv
-----------------------------------------------------------------------------

LEMMA ViewStart == Init => ViewInv
<1> SUFFICES ASSUME Init PROVE ViewInv
  OBVIOUS
<1>1. Mids \cup 0 .. MaxLots \subseteq Nat
  BY ViewAssumption
<1>2. cell \in Views /\ cell["seq"] = 0
  BY <1>1 DEF Init, Views
<1>3. book \in Accounts
  BY <1>2 DEF Init, Accounts
<1>5. TypeOK
  <2>2. 0 \in 0 .. MaxBreaks
    BY ViewAssumption
  <2>3. /\ book \in Accounts /\ frames \subseteq Accounts /\ frame \in Accounts
        /\ cell \in Views /\ reading \in Views /\ acted \in Views
        /\ unstored = {} /\ unread = {} /\ link \in Links /\ breaks \in 0 .. MaxBreaks
    BY <1>2, <1>3, <2>2 DEF Init, Links
  <2>4. missed \in BOOLEAN /\ cancelled \in BOOLEAN
    BY DEF Init
  <2> QED
    BY <2>3, <2>4 DEF TypeOK
<1>6. NumbersInv /\ LatestInv
  BY <1>2, <1>3 DEF Init, NumbersInv, LatestInv, Accounts, Views
<1> QED
  BY <1>5, <1>6 DEF ViewInv
-----------------------------------------------------------------------------
(***************************************************************************)
(* The account and its node.                                               *)
(***************************************************************************)

LEMMA AccountType ==
  ASSUME NEW a \in Accounts
  PROVE  /\ a.slot \in Nat /\ a.view \in Views
         /\ \A c \in Cells : a.view[c] \in Nat
         /\ a.view["seq"] \in Nat /\ a.view["base"] \in Nat /\ a.view["quote"] \in Nat
  BY DEF Accounts, Views, Cells

LEMMA ChangeKeeps ==
  ASSUME ViewInv, NEW view \in Views, Changes(view),
         view["seq"] \in {book.view["seq"], book.view["seq"] + 1}
  PROVE  ViewInv'
<1>1. book' \in Accounts /\ book'.slot = book.slot + 1 /\ book'.view = view
  BY AccountType DEF Changes, Accounts, ViewInv, TypeOK
<1>2. /\ UNCHANGED <<link, breaks, frame, unstored, cell, unread, reading, acted, cancelled>>
      /\ frames' = (IF link = "up" THEN frames \cup {book'} ELSE frames)
      /\ missed' = (link # "up")
  BY DEF Changes, linkVars, storeVars, readVars
<1>4. TypeOK'
  BY <1>1, <1>2 DEF ViewInv, TypeOK
<1>5. book.view["seq"] \in Nat /\ book.view["seq"] <= book'.view["seq"] /\ book.slot \in Nat
  BY <1>1, AccountType DEF ViewInv, TypeOK
<1>6. NumbersInv'
  <2>1. ASSUME NEW f \in Accounts, f.view["seq"] <= book.view["seq"]
        PROVE  f.view["seq"] <= book'.view["seq"]
    BY <1>1, <1>5, <2>1, AccountType
  <2>2. cell["seq"] <= book'.view["seq"]
    <3>1. cell["seq"] \in Nat /\ book'.view["seq"] \in Nat /\ cell["seq"] <= book.view["seq"]
      BY <1>1, AccountType DEF ViewInv, NumbersInv, TypeOK, Views, Cells
    <3> QED
      BY <1>5, <3>1
  <2>3. \A f \in frames' : f \in frames \/ f = book'
    BY <1>2
  <2>4. book'.view["seq"] <= book'.view["seq"]
    BY <1>1, AccountType
  <2> QED
    BY <1>2, <2>1, <2>2, <2>3, <2>4 DEF ViewInv, NumbersInv, TypeOK
<1>7. LatestInv'
  <2>1. ASSUME NEW f \in frames' PROVE f.slot <= book'.slot /\ (f.slot = book'.slot => f = book')
    <3>1. CASE f = book'
      BY <1>1, <1>5, <3>1
    <3>2. CASE f \in frames
      <4>1. f.slot \in Nat /\ f.slot <= book.slot
        BY <3>2, AccountType DEF ViewInv, TypeOK, LatestInv
      <4> QED
        BY <1>1, <1>5, <4>1
    <3> QED
      BY <1>2, <3>1, <3>2
  <2>2. ~missed' => book' \in frames'
    BY <1>2
  <2> QED
    BY <2>1, <2>2 DEF LatestInv
<1> QED
  BY <1>4, <1>6, <1>7 DEF ViewInv

LEMMA FillKeeps == ASSUME ViewInv, Fill \/ Write PROVE ViewInv'
<1>1. book.view \in Views /\ book.view["seq"] \in Nat
  BY AccountType DEF ViewInv, TypeOK
<1>2. CASE Fill
  <2>1. PICK base, quote \in 0 .. MaxLots :
          Changes([book.view EXCEPT !["base"] = base, !["quote"] = quote])
    BY <1>2 DEF Fill
  <2>2. base \in Nat /\ quote \in Nat
    BY ViewAssumption
  <2> DEFINE view == [book.view EXCEPT !["base"] = base, !["quote"] = quote]
  <2>3. view \in Views /\ view["seq"] = book.view["seq"]
    BY <1>1, <2>2 DEF Views, Cells
  <2> QED
    BY <2>1, <2>3, ChangeKeeps
<1>3. CASE Write
  <2>1. PICK mid \in Mids : Changes([book.view EXCEPT !["mid"] = mid, !["seq"] = @ + 1])
    BY <1>3 DEF Write
  <2> DEFINE view == [book.view EXCEPT !["mid"] = mid, !["seq"] = @ + 1]
  <2>2. view \in Views /\ view["seq"] = book.view["seq"] + 1
    BY <1>1, ViewAssumption DEF Views, Cells
  <2> QED
    BY <2>1, <2>2, ChangeKeeps
<1> QED
  BY <1>2, <1>3

(***************************************************************************)
(* The subscription.                                                       *)
(***************************************************************************)

LEMMA LinkKeeps == ASSUME ViewInv, LinkWorks PROVE ViewInv'
<1>1. UNCHANGED <<book, frames, missed, frame, unstored, cell, unread, reading, acted,
                  cancelled>>
  BY DEF LinkWorks, Dials, AwaitReturns, AwaitFails, BackoffPasses, StopsWaiting, Moves,
     nodeVars, storeVars, readVars
<1>2. link' \in Links /\ link # "up" /\ breaks' \in 0 .. MaxBreaks
  <2>1. \A at \in Connecting : Then[at] \in Links /\ at # "up"
    BY DEF Then, Connecting, Links
  <2> QED
    BY <2>1, ViewAssumption DEF LinkWorks, Dials, AwaitReturns, AwaitFails, BackoffPasses,
       StopsWaiting, Moves, ViewInv, TypeOK, Links, Connecting, Then
<1>3. TypeOK'
  BY <1>1, <1>2 DEF ViewInv, TypeOK
<1>4. NumbersInv' /\ LatestInv'
  BY <1>1 DEF ViewInv, NumbersInv, LatestInv
<1> QED
  BY <1>3, <1>4 DEF ViewInv

LEMMA CloseKeeps == ASSUME ViewInv, StopsReading \/ StreamCloses PROVE ViewInv'
<1>1. /\ UNCHANGED <<book, frame, unstored, cell, unread, reading, acted, cancelled>>
      /\ link' \in {"ended", "waiting"} /\ unstored = {}
      /\ frames' = {} /\ missed' = (missed \/ frames # {})
  BY DEF StopsReading, StreamCloses, Closed, storeVars, readVars
<1>2. breaks' \in 0 .. MaxBreaks
  BY ViewAssumption DEF StopsReading, StreamCloses, ViewInv, TypeOK
<1>3. TypeOK'
  BY <1>1, <1>2 DEF ViewInv, TypeOK, Links
<1>4. NumbersInv' /\ LatestInv'
  BY <1>1 DEF ViewInv, NumbersInv, LatestInv
<1> QED
  BY <1>3, <1>4 DEF ViewInv
-----------------------------------------------------------------------------
(***************************************************************************)
(* The copy and the cycle.                                                 *)
(***************************************************************************)

LEMMA TakeKeeps == ASSUME ViewInv, NEW f \in frames, TakesFrame(f) PROVE ViewInv'
<1>1. /\ UNCHANGED <<book, link, breaks, cell, unread, reading, acted, cancelled>>
      /\ frames' = frames \ {f} /\ frame' = f /\ unstored' = Cells /\ link = "up"
      /\ missed' = (missed \/ f.slot < frame.slot)
  BY DEF TakesFrame, NextFrame, linkVars, readVars
<1>2. TypeOK'
  BY <1>1 DEF ViewInv, TypeOK
<1>3. NumbersInv'
  BY <1>1 DEF ViewInv, NumbersInv
<1>4. LatestInv'
  <2>1. \A g \in frames' : g.slot <= book'.slot /\ (g.slot = book'.slot => g = book')
    BY <1>1 DEF ViewInv, LatestInv
  <2>2. ASSUME ~missed', f # book PROVE book \in frames
    <3>1. frame # book
      <4>1. f.slot <= book.slot /\ f.slot # book.slot
        BY <2>2 DEF ViewInv, LatestInv
      <4>2. f.slot \in Nat /\ book.slot \in Nat
        BY AccountType DEF ViewInv, TypeOK
      <4>3. f.slot < book.slot
        BY <4>1, <4>2
      <4>4. ~(f.slot < frame.slot)
        BY <1>1, <2>2
      <4> QED
        BY <4>3, <4>4
    <3> QED
      BY <1>1, <2>2, <3>1 DEF ViewInv, LatestInv
  <2>3. ~missed' => book \in frames' \/ frame' = book
    BY <1>1, <2>2
  <2> QED
    BY <1>1, <2>1, <2>3 DEF LatestInv
<1> QED
  BY <1>2, <1>3, <1>4 DEF ViewInv

LEMMA SkipKeeps == ASSUME ViewInv, NEW f \in frames, SkipsFrame(f) PROVE ViewInv'
<1>1. /\ UNCHANGED <<book, link, frame, unstored, cell, unread, reading, acted, cancelled>>
      /\ frames' = frames \ {f} /\ breaks' \in 0 .. MaxBreaks
      /\ missed' = (missed \/ f.slot = book.slot)
  BY ViewAssumption DEF SkipsFrame, storeVars, readVars, ViewInv, TypeOK
<1>2. TypeOK'
  BY <1>1 DEF ViewInv, TypeOK
<1>3. NumbersInv' /\ LatestInv'
  BY <1>1 DEF ViewInv, NumbersInv, LatestInv
<1> QED
  BY <1>2, <1>3 DEF ViewInv

LEMMA StoreKeeps == ASSUME ViewInv, NEW c \in unstored, Stores(c) PROVE ViewInv'
<1> DEFINE value == IF c = "seq" /\ cell["seq"] > frame.view["seq"] THEN cell["seq"]
                                                                    ELSE frame.view[c]
<1>1. /\ UNCHANGED <<book, frames, missed, link, breaks, frame, unread, reading, acted,
                     cancelled>>
      /\ unstored' = unstored \ {c} /\ cell' = [cell EXCEPT ![c] = value]
  BY DEF Stores, nodeVars, linkVars, readVars
<1>2. /\ c \in Cells /\ cell \in Views /\ "seq" \in Cells
      /\ cell["seq"] \in Nat /\ frame.view["seq"] \in Nat /\ book.view["seq"] \in Nat
      /\ \A d \in Cells : frame.view[d] \in Nat
      /\ reading["seq"] \in Nat
  <2>1. /\ book \in Accounts /\ frame \in Accounts /\ cell \in Views /\ reading \in Views
        /\ c \in Cells
    BY DEF ViewInv, TypeOK
  <2>2. "seq" \in Cells
    BY DEF Cells
  <2>3. cell["seq"] \in Nat /\ reading["seq"] \in Nat
    BY <2>1, <2>2 DEF Views
  <2> QED
    BY <2>1, <2>2, <2>3, AccountType
<1>3. value \in Nat
  BY <1>2
<1>4. cell' \in Views /\ \A d \in Cells : cell'[d] = IF d = c THEN value ELSE cell[d]
  BY <1>1, <1>2, <1>3 DEF Views
<1>5. TypeOK'
  BY <1>1, <1>4 DEF ViewInv, TypeOK
<1>6. cell["seq"] <= cell'["seq"] /\ cell'["seq"] <= book.view["seq"]
  <2>1. cell["seq"] <= book.view["seq"] /\ frame.view["seq"] <= book.view["seq"]
    BY DEF ViewInv, NumbersInv
  <2> QED
    BY <1>2, <1>4, <2>1
<1>7. NumbersInv'
  <2>1. reading["seq"] <= cell'["seq"]
    <3>1. reading["seq"] <= cell["seq"] /\ cell'["seq"] \in Nat
      BY <1>2, <1>4 DEF ViewInv, NumbersInv, Views
    <3> QED
      BY <1>2, <1>6, <3>1
  <2> QED
    BY <1>1, <1>6, <2>1 DEF ViewInv, NumbersInv
<1>8. LatestInv'
  <2>1. ASSUME ~missed, book \notin frames
        PROVE  value = book.view[c]
    <3>1. frame = book /\ cell["seq"] <= book.view["seq"]
      BY <2>1 DEF ViewInv, LatestInv, NumbersInv
    <3> QED
      BY <1>2, <3>1
  <2>2. ASSUME ~missed, book \notin frames, NEW d \in Cells \ unstored'
        PROVE  cell'[d] = book.view[d]
    <3>1. CASE d = c
      BY <1>4, <2>1, <2>2, <3>1
    <3>2. CASE d # c
      BY <1>1, <1>4, <2>2, <3>2 DEF ViewInv, LatestInv
    <3> QED
      BY <3>1, <3>2
  <2> QED
    BY <1>1, <2>2 DEF ViewInv, LatestInv
<1> QED
  BY <1>5, <1>7, <1>8 DEF ViewInv

LEMMA ReadKeeps == ASSUME ViewInv, EngineReads \/ Cancels PROVE ViewInv'
<1>1. UNCHANGED <<book, frames, missed, link, breaks, frame, unstored, cell>>
  BY DEF EngineReads, CycleStarts, Loads, Cancels, nodeVars, linkVars, storeVars
<1>2. /\ unread' \subseteq Cells /\ cancelled' \in BOOLEAN
      /\ reading' \in Views /\ acted' \in Views
      /\ reading'["seq"] \in {reading["seq"], cell["seq"]}
  <2>1. CASE CycleStarts \/ Cancels
    BY <2>1 DEF CycleStarts, Cancels, readVars, ViewInv, TypeOK
  <2>2. ASSUME NEW c \in unread, Loads(c)
        PROVE  /\ reading' \in Views
               /\ reading'["seq"] \in {reading["seq"], cell["seq"]}
    BY <2>2 DEF Loads, ViewInv, TypeOK, Views, Cells
  <2>3. ASSUME NEW c \in unread, Loads(c)
        PROVE  /\ unread' \subseteq Cells /\ cancelled' \in BOOLEAN /\ acted' \in Views
    BY <2>2, <2>3 DEF Loads, ViewInv, TypeOK
  <2> QED
    BY <2>1, <2>2, <2>3 DEF EngineReads
<1>3. TypeOK'
  BY <1>1, <1>2 DEF ViewInv, TypeOK
<1>4. cell["seq"] \in Nat
  BY DEF ViewInv, TypeOK, Views, Cells
<1>5. NumbersInv' /\ LatestInv'
  BY <1>1, <1>2, <1>4 DEF ViewInv, NumbersInv, LatestInv
<1> QED
  BY <1>3, <1>5 DEF ViewInv

LEMMA ViewStep == ViewInv /\ [Next]_vars => ViewInv'
<1> SUFFICES ASSUME ViewInv, [Next]_vars PROVE ViewInv'
  OBVIOUS
<1>1. CASE UNCHANGED vars
  BY <1>1 DEF vars, nodeVars, linkVars, storeVars, readVars, ViewInv, TypeOK, NumbersInv, LatestInv
<1>2. CASE Next
  <2>1. Copies => (\E f \in frames : TakesFrame(f)) \/ (\E c \in unstored : Stores(c))
    BY DEF Copies
  <2> QED
    BY <1>2, <2>1, FillKeeps, LinkKeeps, CloseKeeps, TakeKeeps, SkipKeeps, StoreKeeps,
       ReadKeeps DEF Next
<1> QED
  BY <1>1, <1>2
-----------------------------------------------------------------------------
(***************************************************************************)
(* The invariant of the account stream, with the types.                    *)
(***************************************************************************)
THEOREM ViewCorrect == Spec => []ViewInv
  BY ViewStart, ViewStep, PTL DEF Spec

\* Types: what the tasks and the stream store is always an account (client.rs).
THEOREM TypeCorrect == Spec => []TypeOK
  BY ViewCorrect, PTL DEF ViewInv

(***************************************************************************)
(* A stream that has delivered everything, the last change last, leaves    *)
(* the account in the cells.                                               *)
(***************************************************************************)
THEOREM CaughtUpCorrect == Spec => []CaughtUpCellsAreExact
<1>1. ViewInv => CaughtUpCellsAreExact
  <2> SUFFICES ASSUME ViewInv, ~missed, frames = {}, unstored = {}
               PROVE  cell = book.view
    BY DEF CaughtUpCellsAreExact
  <2>1. \A c \in Cells : cell[c] = book.view[c]
    BY DEF ViewInv, LatestInv
  <2>2. cell \in Views /\ book.view \in Views
    BY AccountType DEF ViewInv, TypeOK
  <2> QED
    BY <2>1, <2>2 DEF Views
<1> QED
  BY <1>1, ViewCorrect, PTL

LEMMA LoadRaises ==
  ASSUME ViewInv, [Next]_vars, UNCHANGED book
  PROVE  reading'["seq"] \in reading["seq"] .. book.view["seq"]
<1>1. /\ reading["seq"] \in Nat /\ cell["seq"] \in Nat /\ book.view["seq"] \in Nat
      /\ reading["seq"] <= cell["seq"] /\ cell["seq"] <= book.view["seq"]
  BY AccountType DEF ViewInv, TypeOK, NumbersInv, Views, Cells
<1>2. reading'["seq"] \in {reading["seq"], cell["seq"]}
  <2>1. UNCHANGED reading \/ \E c \in unread : Loads(c)
    BY DEF Next, Fill, Write, Changes, LinkWorks, Dials, AwaitReturns, AwaitFails, BackoffPasses,
       StopsWaiting, Moves, StopsReading, StreamCloses, Closed, SkipsFrame, Copies, TakesFrame, Stores,
       EngineReads, CycleStarts, Cancels, vars, readVars
  <2>2. ASSUME NEW c \in unread, Loads(c)
        PROVE  reading'["seq"] \in {reading["seq"], cell["seq"]}
    BY <2>2 DEF Loads, ViewInv, TypeOK, Views, Cells
  <2> QED
    BY <2>1, <2>2
<1> QED
  BY <1>1, <1>2

LEMMA BookStep ==
  ASSUME ViewInv, [Next]_vars
  PROVE  /\ book'.view["seq"] \in {book.view["seq"], book.view["seq"] + 1}
         /\ UNCHANGED book \/ UNCHANGED reading
<1>1. book \in Accounts /\ book.view \in Views
  BY AccountType DEF ViewInv, TypeOK
<1>2. CASE Fill
  BY <1>1, <1>2 DEF Fill, Changes, readVars, Views, Cells
<1>3. CASE Write
  BY <1>1, <1>3 DEF Write, Changes, readVars, Views, Cells
<1>4. Fill \/ Write \/ UNCHANGED book
  BY DEF Next, LinkWorks, Dials, AwaitReturns, AwaitFails, BackoffPasses,
     StopsWaiting, Moves, StopsReading, StreamCloses, Closed, SkipsFrame, Copies, TakesFrame, Stores,
     EngineReads, CycleStarts, Loads, Cancels, vars, nodeVars
<1> QED
  BY <1>2, <1>3, <1>4

(***************************************************************************)
(* fills.rs implements SeqView, with frames in any order.                  *)
(***************************************************************************)
THEOREM ViewImplements == Spec => KeepsPromise
<1>1. Init => Numbers!SeqInit
  <2> SUFFICES ASSUME Init PROVE Numbers!SeqInit
    OBVIOUS
  <2>1. book.view = cell /\ reading = cell /\ cell["seq"] = 0
    BY DEF Init
  <2> QED
    BY <2>1 DEF Numbers!SeqInit
<1>2. ViewInv /\ [Next]_vars =>
        [Numbers!Raises \/ Numbers!Looks]_<<book.view["seq"], reading["seq"]>>
  <2> SUFFICES ASSUME ViewInv, [Next]_vars
               PROVE  [Numbers!Raises \/ Numbers!Looks]_<<book.view["seq"], reading["seq"]>>
    OBVIOUS
  <2>1. CASE UNCHANGED book
    BY <2>1, LoadRaises DEF Numbers!Looks
  <2>2. CASE UNCHANGED reading
    BY <2>2, BookStep DEF Numbers!Raises
  <2> QED
    BY <2>1, <2>2, BookStep
<1> QED
  BY <1>1, <1>2, ViewCorrect, PTL DEF Spec, KeepsPromise, Numbers!SeqSpec
=============================================================================
