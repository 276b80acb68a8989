-------------------------- MODULE InventoryTxProofs --------------------------
(***************************************************************************)
(* What holds of the calls of catalog-service statement by statement, for  *)
(* any orders, SKUs, item lists and number of sessions.                    *)
(***************************************************************************)
EXTENDS InventoryTx, TLAPS, WellFoundedInduction, NaturalsInduction, FiniteSetTheorems

InvP == INSTANCE InventoryProofs
  WITH Admins <- {}, AdjustQty <- {}, Targets <- {},
       stock <- InitialStock, adjust <- {}, overwritten <- [s \in Skus |-> FALSE]

LEMMA InventoryAssumed == InvP!InventoryAssumption
  BY TxAssumption DEF InvP!InventoryAssumption, InvP!IsFiniteSet, IsFiniteSet

-----------------------------------------------------------------------------
\* The operations the calls have the effect of are those the proofs are about.
LEMMA SamePost ==
  ASSUME NEW o, NEW S, NEW st, NEW t, NEW dR, NEW dS
  PROVE  Inv!Post(o, S, st, t, dR, dS) <=> InvP!Post(o, S, st, t, dR, dS)
  BY DEF Inv!Post, InvP!Post, Inv!Moved, InvP!Moved, Inv!LedgerRow, InvP!LedgerRow

LEMMA SameInventory ==
  /\ Inv!InvInit => InvP!InvInit
  /\ [Inv!InvNext]_(Inv!invVars) => [InvP!InvNext]_(InvP!invVars)
  <1>1. Inv!InvInit => InvP!InvInit
    BY DEF Inv!InvInit, InvP!InvInit, Inv!TxnType, InvP!TxnType
  <1>2. ASSUME NEW o
        PROVE  /\ Inv!Reserve(o) <=> InvP!Reserve(o)
               /\ Inv!Confirm(o) <=> InvP!Confirm(o)
    BY SamePost DEF Inv!Reserve, InvP!Reserve, Inv!CanReserve, InvP!CanReserve,
         Inv!Confirm, InvP!Confirm, Inv!CanConfirm, InvP!CanConfirm,
         Inv!Lines, InvP!Lines, Inv!ItemsOf, InvP!ItemsOf
  <1>3. ASSUME NEW o, NEW s
        PROVE  /\ Inv!ReleaseItems(o) <=> InvP!ReleaseItems(o)
               /\ Inv!ReleaseOpen(o) <=> InvP!ReleaseOpen(o)
               /\ Inv!Expire(o, s) <=> InvP!Expire(o, s)
    BY SamePost DEF Inv!ReleaseItems, InvP!ReleaseItems, Inv!ReleaseOpen, InvP!ReleaseOpen,
         Inv!Expire, InvP!Expire, Inv!ReleaseAs, InvP!ReleaseAs,
         Inv!CanRelease, InvP!CanRelease, Inv!Lines, InvP!Lines, Inv!ItemsOf, InvP!ItemsOf
  <1>4. ~\E w \in {} : Inv!AdjustWrite(w)
    OBVIOUS
  <1> QED
    BY <1>1, <1>2, <1>3, <1>4 DEF Inv!InvNext, InvP!InvNext, Inv!invVars, InvP!invVars

-----------------------------------------------------------------------------
(***************************************************************************)
(* What a running call has found and locked, and may rely on.              *)
(***************************************************************************)
Held(k) == k.cur \cup k.done

Status(k, s) == resv[k.order][s]

\* What a call that is done with line s without a lock on it has found.
Settled(k, s) ==
  CASE k.op = "reserve" -> Status(k, s) # "NONE"
    [] k.op = "confirm" -> Status(k, s) = "CONFIRMED"
    [] k.op = "release" -> Status(k, s) \in {"NONE", "RELEASED", "EXPIRED"}
    [] OTHER            -> Status(k, s) # "RESERVED"

Progress(k) ==
  /\ \A s, t \in k.cur : s = t
  /\ k.todo \cup Held(k) \subseteq Inv!ItemsOf(k.order)
  /\ k.op # "reserve" => \A s \in Held(k) : Status(k, s) = "RESERVED"
  /\ k.op = "expire" => \A s, t \in k.todo \cup Held(k) : s = t
  /\ k.op # "expire" =>
       \A s \in Inv!ItemsOf(k.order) : s \in k.todo \cup Held(k) \/ Settled(k, s)
  /\ k.op = "reserve" => \A s \in k.done : InitialStock[s] - reserved[s] >= Qty[k.order][s]

\* reserve takes its items by growing id.
Sorted(k) ==
  k.op = "reserve" => /\ \A s \in Held(k), t \in k.todo : s < t
                      /\ \A s \in k.done, t \in k.cur : s < t

\* Calls k and d of two sessions: no row and no line is locked by both, and
\* neither releases what the other is reserving.
Apart(k, d) ==
  /\ k.done \cap d.done = {}
  /\ k.order = d.order /\ k.op # "reserve" /\ d.op # "reserve" => Held(k) \cap Held(d) = {}
  /\ k.order = d.order /\ k.op = "reserve" => d.op \notin {"release", "open"}
  /\ k.order = d.order /\ d.op = "reserve" => k.op \notin {"release", "open"}

CallsApart ==
  \A c, d \in Calls : c # d /\ Busy(c) /\ Busy(d) => Apart(call[c], call[d])

\* Only an order's items have reservation rows.
LinesOfItems == \A o \in Orders, s \in Skus : resv[o][s] # "NONE" => s \in Inv!ItemsOf(o)

TxInv ==
  /\ TxTypeOK
  /\ LinesOfItems
  /\ CallsApart
  /\ \A c \in Calls : Busy(c) => Progress(call[c]) /\ Sorted(call[c])

-----------------------------------------------------------------------------
LEMMA BusyCall ==
  ASSUME TxTypeOK, NEW c \in Calls, Busy(c)
  PROVE  /\ call[c] \in Call
         /\ call[c].op \in Operation /\ call[c].order \in Orders
         /\ call[c].todo \subseteq Skus /\ call[c].cur \subseteq Skus /\ call[c].done \subseteq Skus
  BY DEF TxTypeOK, Busy, Call

(***************************************************************************)
(* A statement that changes no row keeps the invariant when what it leaves *)
(* of its own call does.                                                   *)
(***************************************************************************)
LEMMA PutKeeps ==
  ASSUME TxInv, UNCHANGED rows, NEW c \in Calls, NEW k \in Call, Put(c, k),
         Progress(k), Sorted(k),
         \A d \in Calls : d # c /\ Busy(d) => Apart(k, call[d]) /\ Apart(call[d], k)
  PROVE  TxInv'
  <1>1. call' \in [Calls -> Call \cup {Idle}]
    BY DEF TxInv, TxTypeOK, Put
  <1>2. \A d \in Calls : call'[d] = IF d = c THEN k ELSE call[d]
    BY DEF TxInv, TxTypeOK, Put
  <1>3. \A j : Progress(j) => Progress(j)'
    BY DEF Progress, Settled, Status, Held, rows, Inv!ItemsOf
  <1>4. LinesOfItems'
    BY DEF TxInv, LinesOfItems, rows, Inv!ItemsOf
  <1>5. CallsApart'
    <2> SUFFICES ASSUME NEW d \in Calls, NEW e \in Calls, d # e, Busy(d)', Busy(e)'
                 PROVE  Apart(call'[d], call'[e])
      BY DEF CallsApart, Apart, Held
    <2>1. CASE d = c
      BY <1>2, <2>1 DEF Busy
    <2>2. CASE e = c
      BY <1>2, <2>2 DEF Busy
    <2>3. CASE d # c /\ e # c
      BY <1>2, <2>3 DEF Busy, TxInv, CallsApart
    <2> QED
      BY <2>1, <2>2, <2>3
  <1>6. ASSUME NEW d \in Calls, Busy(d)'
        PROVE  Progress(call[d])' /\ Sorted(call[d])'
    <2>1. PICK j : j = call'[d]
      OBVIOUS
    <2>2. Progress(j) /\ Sorted(j)
      BY <1>2, <1>6, <2>1 DEF TxInv, Busy
    <2>3. Progress(j)'
      BY <1>3, <2>2
    <2> QED
      BY <2>1, <2>2, <2>3 DEF Progress, Settled, Status, Held, Sorted, Inv!ItemsOf
  <1> QED
    BY <1>1, <1>4, <1>5, <1>6 DEF TxInv, TxTypeOK
LEMMA RollbackKeeps ==
  ASSUME TxInv, NEW c \in Calls, Rollback(c)
  PROVE  TxInv'
  <1>1. \A d \in Calls : call'[d] = IF d = c THEN Idle ELSE call[d]
    BY DEF TxInv, TxTypeOK, Rollback, Put
  <1>2. call' \in [Calls -> Call \cup {Idle}]
    BY DEF TxInv, TxTypeOK, Rollback, Put
  <1>3. \A d \in Calls : Busy(d)' => Busy(d) /\ call'[d] = call[d]
    BY <1>1 DEF Busy
  <1>4. LinesOfItems'
    BY DEF TxInv, LinesOfItems, Rollback, rows, Inv!ItemsOf
  <1>5. CallsApart'
    BY <1>3 DEF TxInv, CallsApart, Apart, Held
  <1>6. ASSUME NEW d \in Calls, Busy(d)'
        PROVE  Progress(call[d])' /\ Sorted(call[d])'
    <2>1. Progress(call[d]) /\ Sorted(call[d]) /\ call'[d] = call[d]
      BY <1>3, <1>6 DEF TxInv
    <2> QED
      BY <2>1 DEF Progress, Settled, Status, Held, Sorted, Inv!ItemsOf, Rollback, rows
  <1> QED
    BY <1>2, <1>4, <1>5, <1>6 DEF TxInv, TxTypeOK

(***************************************************************************)
(* A call begins with all its items to come, and beside no call it must    *)
(* not run with.                                                           *)
(***************************************************************************)
LEMMA StartKeeps ==
  ASSUME TxInv, NEW c \in Calls, NEW o \in Orders,
         \/ StartReserve(c, o) \/ StartConfirm(c, o) \/ StartRelease(c, o) \/ StartOpen(c, o)
         \/ \E s \in Skus : StartExpire(c, o, s)
  PROVE  TxInv'
  <1>1. \A S \in SUBSET Skus, op \in Operation :
          LET k == [op |-> op, order |-> o, todo |-> S, cur |-> {}, done |-> {}] IN
            /\ k \in Call
            /\ k.op = op /\ k.order = o /\ k.todo = S /\ k.cur = {} /\ k.done = {}
    BY DEF Call
  <1>2. ASSUME NEW S \in SUBSET Skus, NEW op \in Operation, Start(c, op, o, S),
               S \subseteq Inv!ItemsOf(o),
               op = "expire" => \A s, t \in S : s = t,
               op \in {"reserve", "confirm", "release"} => Inv!ItemsOf(o) \subseteq S,
               op = "open" => \A s \in Inv!ItemsOf(o) : s \in S \/ resv[o][s] # "RESERVED",
               op = "reserve" => ~Runs(o, {"release", "open"}),
               op \in {"release", "open"} => ~Runs(o, {"reserve"})
        PROVE  TxInv'
    <2> DEFINE k == [op |-> op, order |-> o, todo |-> S, cur |-> {}, done |-> {}]
    <2>1. /\ k \in Call
          /\ k.op = op /\ k.order = o /\ k.todo = S /\ k.cur = {} /\ k.done = {}
      BY <1>1
    <2>2. Put(c, k) /\ UNCHANGED rows
      BY <1>2 DEF Start
    <2> HIDE DEF k
    <2>3. Progress(k) /\ Sorted(k)
      BY <1>2, <2>1 DEF Progress, Sorted, Held, Settled, Status, Operation
    <2>4. ASSUME NEW d \in Calls, d # c, Busy(d)
          PROVE  Apart(k, call[d]) /\ Apart(call[d], k)
      BY <1>2, <2>1, <2>4 DEF Apart, Held, Runs
    <2> QED
      BY <2>1, <2>2, <2>3, <2>4, PutKeeps
  <1>3. Inv!ItemsOf(o) \in SUBSET Skus
    BY DEF Inv!ItemsOf
  <1>4. /\ Inv!Lines(o, Skus, "RESERVED") \in SUBSET Skus
        /\ Inv!Lines(o, Skus, "RESERVED") \subseteq Inv!ItemsOf(o)
        /\ \A s \in Skus : s \in Inv!Lines(o, Skus, "RESERVED") \/ resv[o][s] # "RESERVED"
    BY DEF Inv!Lines, TxInv, LinesOfItems
  <1>5. CASE StartReserve(c, o)
    BY <1>2, <1>3, <1>5 DEF StartReserve, Operation
  <1>6. CASE StartConfirm(c, o)
    BY <1>2, <1>3, <1>6 DEF StartConfirm, Operation
  <1>7. CASE StartRelease(c, o)
    BY <1>2, <1>3, <1>7 DEF StartRelease, Operation
  <1>8. CASE StartOpen(c, o)
    BY <1>2, <1>3, <1>4, <1>8 DEF StartOpen, Operation
  <1>9. ASSUME NEW s \in Skus, StartExpire(c, o, s)
        PROVE  TxInv'
    <2>1. {s} \in SUBSET Skus /\ {s} \subseteq Inv!ItemsOf(o) /\ Start(c, "expire", o, {s})
      BY <1>9 DEF StartExpire, TxInv, LinesOfItems
    <2> QED
      BY <1>2, <2>1 DEF Operation
  <1> QED
    BY <1>5, <1>6, <1>7, <1>8, <1>9

(***************************************************************************)
(* A call takes a line: reserve one it found absent, the others one that   *)
(* is RESERVED and that they lock.                                         *)
(***************************************************************************)
LEMMA TakeKeeps ==
  ASSUME TxInv, NEW c \in Calls, NEW s \in Skus, Busy(c), call[c].cur = {},
         IsNext(call[c], s), Take(c, s),
         call[c].op # "reserve" =>
           Status(call[c], s) = "RESERVED" /\ LineFree(call[c].order, s)
  PROVE  TxInv'
  <1> DEFINE j == call[c]
             k == [call[c] EXCEPT !.todo = call[c].todo \ {s}, !.cur = {s}]
  <1>1. j \in Call /\ Progress(j) /\ Sorted(j)
    BY BusyCall DEF TxInv
  <1>2. /\ k \in Call
        /\ k.op = j.op /\ k.order = j.order /\ k.todo = j.todo \ {s}
        /\ k.cur = {s} /\ k.done = j.done
    BY <1>1 DEF Call
  <1>3. Put(c, k) /\ UNCHANGED rows
    BY DEF Take
  <1>4. s \in j.todo /\ j.cur = {}
    BY DEF IsNext
  <1>5. j.op = "reserve" => \A t \in j.todo : s <= t
    BY DEF IsNext
  <1>6. j.todo \subseteq Skus /\ j.done \subseteq Skus /\ Skus \subseteq Nat
    BY <1>1, TxAssumption DEF Call
  <1>7. j.op # "reserve" => Status(j, s) = "RESERVED"
    OBVIOUS
  <1>8. ASSUME NEW d \in Calls, d # c, Busy(d)
        PROVE  /\ Apart(j, call[d]) /\ Apart(call[d], j)
               /\ j.op # "reserve" /\ call[d].op # "reserve" /\ j.order = call[d].order
                    => s \notin Held(call[d])
    BY <1>8 DEF TxInv, CallsApart, LineFree, HoldsLine, Held
  <1> HIDE DEF j, k
  <1>9. Progress(k)
    <2>1. Held(j) = j.done /\ Held(k) = {s} \cup j.done /\ k.todo \cup Held(k) = j.todo \cup Held(j)
      BY <1>2, <1>4 DEF Held
    <2>2. \A x : (Settled(k, x) <=> Settled(j, x)) /\ Status(k, x) = Status(j, x)
      BY <1>2 DEF Settled, Status
    <2>3. j.op # "reserve" => \A x \in Held(k) : Status(k, x) = "RESERVED"
      BY <1>1, <1>7, <2>1, <2>2 DEF Progress
    <2>4. k.todo \cup Held(k) \subseteq Inv!ItemsOf(k.order)
      BY <1>1, <1>2, <2>1 DEF Progress
    <2>5. j.op # "expire" =>
            \A x \in Inv!ItemsOf(k.order) : x \in k.todo \cup Held(k) \/ Settled(k, x)
      BY <1>1, <1>2, <2>1, <2>2 DEF Progress
    <2> QED
      BY <1>1, <1>2, <2>1, <2>3, <2>4, <2>5 DEF Progress
  <1>10. Sorted(k)
    <2>1. Held(j) = j.done /\ Held(k) = {s} \cup j.done
      BY <1>2, <1>4 DEF Held
    <2>2. ASSUME j.op = "reserve", NEW t \in k.todo
          PROVE  s < t
      <3>1. t \in Nat /\ s \in Nat /\ t # s /\ s <= t
        BY <1>2, <1>4, <1>5, <1>6, <2>2
      <3> QED
        BY <3>1
    <2>3. j.op = "reserve" => \A x \in j.done, t \in j.todo : x < t
      BY <1>1, <2>1 DEF Sorted
    <2> QED
      BY <1>2, <1>4, <2>1, <2>2, <2>3 DEF Sorted
  <1>11. ASSUME NEW d \in Calls, d # c, Busy(d)
         PROVE  Apart(k, call[d]) /\ Apart(call[d], k)
    BY <1>2, <1>4, <1>8, <1>11 DEF Apart, Held
  <1> QED
    BY <1>2, <1>3, <1>9, <1>10, <1>11, PutKeeps

LEMMA SkipKeeps ==
  ASSUME TxInv, NEW c \in Calls, NEW s \in Skus, Busy(c), call[c].cur = {},
         IsNext(call[c], s), Skip(c, s), Settled(call[c], s)
  PROVE  TxInv'
  <1> DEFINE j == call[c]
             k == [call[c] EXCEPT !.todo = call[c].todo \ {s}]
  <1>1. j \in Call /\ Progress(j) /\ Sorted(j) /\ Settled(j, s)
    BY BusyCall DEF TxInv
  <1>2. /\ k \in Call
        /\ k.op = j.op /\ k.order = j.order /\ k.todo = j.todo \ {s}
        /\ k.cur = j.cur /\ k.done = j.done
    BY <1>1 DEF Call
  <1>3. Put(c, k) /\ UNCHANGED rows
    BY DEF Skip
  <1>4. ASSUME NEW d \in Calls, d # c, Busy(d)
        PROVE  Apart(j, call[d]) /\ Apart(call[d], j)
    BY <1>4 DEF TxInv, CallsApart
  <1> HIDE DEF j, k
  <1>5. Progress(k)
    BY <1>1, <1>2 DEF Progress, Held, Settled, Status
  <1>6. Sorted(k)
    BY <1>1, <1>2 DEF Sorted, Held
  <1>7. ASSUME NEW d \in Calls, d # c, Busy(d)
        PROVE  Apart(k, call[d]) /\ Apart(call[d], k)
    BY <1>2, <1>4, <1>7 DEF Apart, Held
  <1> QED
    BY <1>2, <1>3, <1>5, <1>6, <1>7, PutKeeps

\* UPDATE inventories waits for the row's lock, and reserve's has its condition.
LEMMA UpdateKeeps ==
  ASSUME TxInv, NEW c \in Calls, NEW s \in Skus, UpdateRow(c, s)
  PROVE  TxInv'
  <1> DEFINE j == call[c]
             k == [call[c] EXCEPT !.cur = {}, !.done = call[c].done \cup {s}]
  <1>0. CASE Rollback(c)
    BY <1>0, RollbackKeeps
  <1>a. CASE Put(c, k) /\ UNCHANGED rows /\ Enough(j, s)
    <2>1. j \in Call /\ Progress(j) /\ Sorted(j) /\ s \in j.cur
      BY BusyCall DEF TxInv, UpdateRow
    <2>2. /\ k \in Call
          /\ k.op = j.op /\ k.order = j.order /\ k.todo = j.todo
          /\ k.cur = {} /\ k.done = j.done \cup {s}
      BY <2>1 DEF Call
    <2>3. ASSUME NEW d \in Calls, d # c, Busy(d)
          PROVE  Apart(j, call[d]) /\ Apart(call[d], j) /\ s \notin call[d].done
      BY <2>3 DEF TxInv, CallsApart, UpdateRow, RowFree, HoldsRow
    <2>4. Put(c, k) /\ UNCHANGED rows /\ Enough(j, s)
      BY <1>a
    <2> HIDE DEF j, k
    <2>5. Progress(k)
      BY <2>1, <2>2, <2>4 DEF Progress, Held, Settled, Status, Enough
    <2>6. Sorted(k)
      BY <2>1, <2>2 DEF Sorted, Held
    <2>7. ASSUME NEW d \in Calls, d # c, Busy(d)
          PROVE  Apart(k, call[d]) /\ Apart(call[d], k)
      BY <2>1, <2>2, <2>3, <2>7 DEF Apart, Held
    <2> QED
      BY <2>2, <2>4, <2>5, <2>6, <2>7, PutKeeps
  <1> QED
    BY <1>0, <1>a DEF UpdateRow
LEMMA LineKeeps ==
  ASSUME TxInv, InvP!TypeOK, NEW c \in Calls, NEW s \in Skus,
         FindLine(c, s) \/ ConfirmLine(c, s) \/ ReleaseLine(c, s)
  PROVE  TxInv'
  <1>0. /\ Busy(c) /\ call[c].cur = {} /\ IsNext(call[c], s)
        /\ call[c].op \in Operation /\ call[c].order \in Orders
    BY BusyCall DEF FindLine, ConfirmLine, ReleaseLine, TxInv
  <1>1. resv[call[c].order][s] \in InvP!ReservationStatus
    BY <1>0 DEF InvP!TypeOK
  <1>2. CASE FindLine(c, s)
    BY <1>0, <1>2, TakeKeeps, SkipKeeps DEF FindLine, Settled, Status
  <1>3. CASE ConfirmLine(c, s)
    BY <1>0, <1>3, TakeKeeps, SkipKeeps, RollbackKeeps DEF ConfirmLine, Settled, Status
  <1>4. CASE ReleaseLine(c, s)
    <2>1. CASE Take(c, s) /\ resv[call[c].order][s] = "RESERVED" /\ LineFree(call[c].order, s)
      BY <1>0, <2>1, TakeKeeps DEF Status
    <2>2. CASE Skip(c, s) /\ resv[call[c].order][s] # "RESERVED"
               /\ ~(resv[call[c].order][s] = "CONFIRMED" /\ call[c].op = "release")
      <3>1. Settled(call[c], s)
        BY <1>1, <1>4, <2>2 DEF ReleaseLine, Settled, Status, InvP!ReservationStatus
      <3> QED
        BY <1>0, <2>2, <3>1, SkipKeeps
    <2>3. CASE Rollback(c)
      BY <2>3, RollbackKeeps
    <2> QED
      BY <1>4, <2>1, <2>2, <2>3 DEF ReleaseLine
  <1> QED
    BY <1>2, <1>3, <1>4

-----------------------------------------------------------------------------
\* A call that has nothing left to do, and may write.
Ready(c) ==
  /\ Busy(c) /\ call[c].todo = {} /\ call[c].cur = {}
  /\ call[c].op = "reserve" => \A s \in call[c].done : Status(call[c], s) = "NONE"

\* What the commit of a call writes.
LEMMA WriteMoves ==
  ASSUME TxInv, InvP!TypeOK, NEW c \in Calls, Ready(c), Write(call[c])
  PROVE  \E st \in {"RESERVED", "CONFIRMED", "RELEASED", "EXPIRED"},
            t \in InvP!TxnType, dR \in {-1, 1}, dS \in {0, 1} :
           /\ InvP!Post(call[c].order, call[c].done, st, t, dR, dS)
           /\ st = "RESERVED" <=> call[c].op = "reserve"
  <1> DEFINE k == call[c]
  <1>1. \/ k.op = "reserve" /\ InvP!Post(k.order, k.done, "RESERVED", "RESERVE", 1, 0)
        \/ k.op = "confirm" /\ InvP!Post(k.order, k.done, "CONFIRMED", "CONFIRM", -1, 1)
        \/ k.op = "expire" /\ InvP!Post(k.order, k.done, "EXPIRED", "RELEASE", -1, 0)
        \/ k.op \in {"release", "open"} /\ InvP!Post(k.order, k.done, "RELEASED", "RELEASE", -1, 0)
    <2>1. k.op \in Operation
      BY BusyCall DEF Ready, TxInv
    <2> QED
      BY <2>1, SamePost DEF Write, Operation
  <1>2. /\ -1 \in {-1, 1} /\ 1 \in {-1, 1} /\ 0 \in {0, 1} /\ 1 \in {0, 1}
        /\ "RESERVE" \in InvP!TxnType /\ "CONFIRM" \in InvP!TxnType /\ "RELEASE" \in InvP!TxnType
    BY DEF InvP!TxnType
  <1> HIDE DEF k
  <1>3. CASE k.op = "reserve" /\ InvP!Post(k.order, k.done, "RESERVED", "RESERVE", 1, 0)
    BY <1>2, <1>3 DEF k
  <1>4. CASE k.op = "confirm" /\ InvP!Post(k.order, k.done, "CONFIRMED", "CONFIRM", -1, 1)
    BY <1>2, <1>4 DEF k
  <1>5. CASE k.op = "expire" /\ InvP!Post(k.order, k.done, "EXPIRED", "RELEASE", -1, 0)
    BY <1>2, <1>5 DEF k
  <1>6. CASE k.op \in {"release", "open"} /\ InvP!Post(k.order, k.done, "RELEASED", "RELEASE", -1, 0)
    BY <1>2, <1>6 DEF k
  <1> QED
    BY <1>1, <1>3, <1>4, <1>5, <1>6

LEMMA WriteLines ==
  ASSUME TxInv, InvP!TypeOK, NEW c \in Calls, Ready(c), Write(call[c])
  PROVE  /\ \A o \in Orders, s \in Skus :
              \/ resv'[o][s] = resv[o][s]
              \/ /\ o = call[c].order /\ s \in call[c].done
                 /\ \/ call[c].op = "reserve" /\ resv[o][s] = "NONE" /\ resv'[o][s] = "RESERVED"
                    \/ /\ call[c].op # "reserve" /\ resv[o][s] = "RESERVED"
                       /\ resv'[o][s] \in {"CONFIRMED", "RELEASED", "EXPIRED"}
         /\ \A s \in Skus \ call[c].done : reserved'[s] = reserved[s]
  <1> DEFINE k == call[c]
  <1>1. k.order \in Orders /\ k.done \subseteq Skus
    BY BusyCall DEF Ready, TxInv
  <1>2. PICK st \in {"RESERVED", "CONFIRMED", "RELEASED", "EXPIRED"},
             t \in InvP!TxnType, dR \in {-1, 1}, dS \in {0, 1} :
           /\ InvP!Post(k.order, k.done, st, t, dR, dS)
           /\ st = "RESERVED" <=> k.op = "reserve"
    BY WriteMoves
  <1>3. \A s \in k.done : Status(k, s) = IF k.op = "reserve" THEN "NONE" ELSE "RESERVED"
    BY DEF Ready, TxInv, Progress, Held
  <1> HIDE DEF k
  <1>4. \A o \in Orders, s \in Skus :
          resv'[o][s] = IF o = k.order /\ s \in k.done THEN st ELSE resv[o][s]
    BY <1>1, <1>2, InventoryAssumed, InvP!PostStatus
  <1>5. \A s \in Skus \ k.done : reserved'[s] = reserved[s]
    BY <1>2 DEF InvP!Post
  <1>6. ASSUME NEW o \in Orders, NEW s \in Skus
        PROVE  \/ resv'[o][s] = resv[o][s]
               \/ /\ o = k.order /\ s \in k.done
                  /\ \/ k.op = "reserve" /\ resv[o][s] = "NONE" /\ resv'[o][s] = "RESERVED"
                     \/ /\ k.op # "reserve" /\ resv[o][s] = "RESERVED"
                        /\ resv'[o][s] \in {"CONFIRMED", "RELEASED", "EXPIRED"}
    BY <1>2, <1>3, <1>4 DEF Status
  <1> QED
    BY <1>5, <1>6 DEF k

(***************************************************************************)
(* The commit leaves the other calls what they rely on: it writes the rows *)
(* and lines it has locked, or the lines nobody else has a row for.        *)
(***************************************************************************)
LEMMA WriteKeeps ==
  ASSUME TxInv, InvP!TypeOK, NEW c \in Calls, Ready(c), Write(call[c]), Put(c, Idle)
  PROVE  TxInv'
  <1> DEFINE k == call[c]
  <1>1. \A d \in Calls : call'[d] = IF d = c THEN Idle ELSE call[d]
    BY DEF TxInv, TxTypeOK, Put
  <1>2. call' \in [Calls -> Call \cup {Idle}]
    BY DEF TxInv, TxTypeOK, Put
  <1>3. \A d \in Calls : Busy(d)' => Busy(d) /\ call'[d] = call[d] /\ d # c
    BY <1>1 DEF Busy
  <1>4. CallsApart'
    BY <1>3 DEF TxInv, CallsApart, Apart, Held
  <1>5. /\ \A o \in Orders, s \in Skus :
              \/ resv'[o][s] = resv[o][s]
              \/ /\ o = k.order /\ s \in k.done
                 /\ \/ k.op = "reserve" /\ resv[o][s] = "NONE" /\ resv'[o][s] = "RESERVED"
                    \/ /\ k.op # "reserve" /\ resv[o][s] = "RESERVED"
                       /\ resv'[o][s] \in {"CONFIRMED", "RELEASED", "EXPIRED"}
        /\ \A s \in Skus \ k.done : reserved'[s] = reserved[s]
    BY WriteLines
  <1>6. k.done \subseteq Inv!ItemsOf(k.order) /\ k.op \in Operation
    BY BusyCall DEF Ready, TxInv, Progress, Held
  <1>7. LinesOfItems'
    <2>1. \A o : Inv!ItemsOf(o)' = Inv!ItemsOf(o)
      BY DEF Inv!ItemsOf
    <2>2. \A o \in Orders, s \in Skus : resv'[o][s] # "NONE" => s \in Inv!ItemsOf(o)
      BY <1>5, <1>6 DEF TxInv, LinesOfItems
    <2> QED
      BY <2>1, <2>2 DEF LinesOfItems
  <1>8. ASSUME NEW d \in Calls, Busy(d)'
        PROVE  Progress(call[d])' /\ Sorted(call[d])'
    <2> DEFINE j == call[d]
    <2>1. Busy(d) /\ call'[d] = j /\ d # c
      BY <1>3, <1>8
    <2>2. Progress(j) /\ Sorted(j) /\ Apart(k, j)
      BY <2>1 DEF TxInv, CallsApart, Ready
    <2>3. j.op \in Operation /\ j.order \in Orders
          /\ j.todo \subseteq Skus /\ j.cur \subseteq Skus /\ j.done \subseteq Skus
      BY <2>1, BusyCall DEF TxInv
    <2> DEFINE After(s) == resv'[j.order][s]
    <2>4. \A s \in Inv!ItemsOf(j.order) : s \in Skus
      BY DEF Inv!ItemsOf
    <2>5. j.op # "reserve" => \A s \in Held(j) : After(s) = "RESERVED"
      BY <1>5, <2>2, <2>3 DEF Progress, Apart, Held, Status
    <2>6. ASSUME NEW s \in Inv!ItemsOf(j.order), Settled(j, s), j.op # "expire"
          PROVE  CASE j.op = "reserve" -> After(s) # "NONE"
                   [] j.op = "confirm" -> After(s) = "CONFIRMED"
                   [] j.op = "release" -> After(s) \in {"NONE", "RELEASED", "EXPIRED"}
                   [] OTHER            -> After(s) # "RESERVED"
      <3>1. \/ After(s) = Status(j, s)
            \/ /\ j.order = k.order
               /\ \/ k.op = "reserve" /\ Status(j, s) = "NONE" /\ After(s) = "RESERVED"
                  \/ /\ k.op # "reserve" /\ Status(j, s) = "RESERVED"
                     /\ After(s) \in {"CONFIRMED", "RELEASED", "EXPIRED"}
        BY <1>5, <2>3, <2>4 DEF Status
      <3>2. j.order = k.order /\ k.op = "reserve" => j.op \notin {"release", "open"}
        BY <2>2 DEF Apart
      <3>3. j.op \in {"reserve", "confirm", "release", "open"}
        BY <2>3, <2>6 DEF Operation
      <3> HIDE DEF j, k, After
      <3> QED
        BY <2>6, <3>1, <3>2, <3>3 DEF Settled
    <2>7. j.op = "reserve" => \A s \in j.done : reserved'[s] = reserved[s]
      BY <1>5, <2>2, <2>3 DEF Apart
    <2>8. Inv!ItemsOf(j.order)' = Inv!ItemsOf(call'[d].order)
      BY DEF Inv!ItemsOf
    <2> QED
      BY <2>1, <2>2, <2>5, <2>6, <2>7, <2>8 DEF Progress, Sorted, Held, Settled, Status, Inv!ItemsOf
  <1> QED
    BY <1>2, <1>4, <1>7, <1>8 DEF TxInv, TxTypeOK
-----------------------------------------------------------------------------
(***************************************************************************)
(* The commit of a call is the step of Inventory the call stands for: what *)
(* it found item by item is still so, for it holds the locks of what it    *)
(* changes and nothing else can change what it passed over.                *)
(***************************************************************************)
LEMMA CommitIsStep ==
  ASSUME TxInv, InvP!TypeOK, NEW c \in Calls, Ready(c), Write(call[c])
  PROVE  [Inv!InvNext]_(Inv!invVars)
  <1> DEFINE k == call[c]
             o == k.order
  <1>1. /\ k.op \in Operation /\ o \in Orders /\ k.done \subseteq Skus
        /\ k.todo = {} /\ k.cur = {}
    BY BusyCall DEF Ready, TxInv
  <1>2. Progress(k) /\ Held(k) = k.done
    BY <1>1 DEF Ready, TxInv, Held
  <1>3. /\ k.done \subseteq Inv!ItemsOf(o)
        /\ k.op # "expire" => \A s \in Inv!ItemsOf(o) : s \in k.done \/ Settled(k, s)
        /\ k.op # "reserve" => \A s \in k.done : resv[o][s] = "RESERVED"
        /\ k.op = "reserve" => \A s \in k.done : /\ resv[o][s] = "NONE"
                                                 /\ InitialStock[s] - reserved[s] >= Qty[o][s]
    BY <1>1, <1>2 DEF Progress, Ready, Status
  <1>4. Write(k)
    OBVIOUS
  <1> USE DEF Inv!InvNext
  <1>5. CASE k.op = "reserve"
    <2>1. k.done = Inv!Lines(o, Inv!ItemsOf(o), "NONE")
      BY <1>3, <1>5 DEF Settled, Status, Inv!Lines
    <2>2. Inv!CanReserve(o)
      BY <1>3, <1>5, <2>1 DEF Inv!CanReserve
    <2>3. Inv!Post(o, k.done, "RESERVED", "RESERVE", 1, 0)
      BY <1>4, <1>5 DEF Write
    <2>4. Inv!Reserve(o)
      BY <2>1, <2>2, <2>3 DEF Inv!Reserve
    <2> QED
      BY <1>1, <2>4
  <1>6. CASE k.op = "confirm"
    <2>1. k.done = Inv!Lines(o, Inv!ItemsOf(o), "RESERVED")
      BY <1>3, <1>6 DEF Settled, Status, Inv!Lines
    <2>2. Inv!CanConfirm(o)
      BY <1>3, <1>6 DEF Inv!CanConfirm, Settled, Status
    <2>3. Inv!Post(o, k.done, "CONFIRMED", "CONFIRM", -1, 1)
      BY <1>4, <1>6 DEF Write
    <2>4. Inv!Confirm(o)
      BY <2>1, <2>2, <2>3 DEF Inv!Confirm
    <2> QED
      BY <1>1, <2>4
  <1>7. CASE k.op = "release"
    <2>1. k.done = Inv!Lines(o, Inv!ItemsOf(o), "RESERVED")
      BY <1>3, <1>7 DEF Settled, Status, Inv!Lines
    <2>2. Inv!CanRelease(o, Inv!ItemsOf(o))
      BY <1>3, <1>7 DEF Inv!CanRelease, Settled, Status
    <2>3. Inv!Post(o, k.done, "RELEASED", "RELEASE", -1, 0)
      BY <1>4, <1>7 DEF Write
    <2>4. Inv!ReleaseItems(o)
      BY <2>1, <2>2, <2>3 DEF Inv!ReleaseItems, Inv!ReleaseAs
    <2> QED
      BY <1>1, <2>4
  <1>8. CASE k.op = "open"
    <2> DEFINE L == Inv!Lines(o, Inv!ItemsOf(o), "RESERVED")
    <2>1. k.done = L
      BY <1>3, <1>8 DEF Settled, Status, Inv!Lines
    <2>2. Inv!CanRelease(o, L) /\ Inv!Lines(o, L, "RESERVED") = L
      BY DEF Inv!CanRelease, Inv!Lines
    <2>3. Inv!Post(o, k.done, "RELEASED", "RELEASE", -1, 0)
      BY <1>4, <1>8 DEF Write
    <2> HIDE DEF L
    <2>4. Inv!ReleaseAs(o, L, "RELEASED")
      BY <2>1, <2>2, <2>3 DEF Inv!ReleaseAs
    <2>5. Inv!ReleaseOpen(o)
      BY <2>4 DEF Inv!ReleaseOpen, L
    <2> QED
      BY <1>1, <2>5
  <1>9. CASE k.op = "expire" /\ k.done # {}
    <2>1. PICK s \in Skus : k.done = {s}
      BY <1>1, <1>2, <1>9 DEF Progress
    <2>2. resv[o][s] = "RESERVED"
      BY <1>3, <1>9, <2>1
    <2>3. Inv!CanRelease(o, {s}) /\ Inv!Lines(o, {s}, "RESERVED") = {s}
      BY <2>2 DEF Inv!CanRelease, Inv!Lines
    <2>4. Inv!Post(o, {s}, "EXPIRED", "RELEASE", -1, 0)
      BY <1>4, <1>9, <2>1 DEF Write
    <2>5. Inv!Expire(o, s)
      BY <2>2, <2>3, <2>4 DEF Inv!Expire, Inv!ReleaseAs
    <2> QED
      BY <1>1, <2>5
  <1>10. CASE k.op = "expire" /\ k.done = {}
    <2>1. Inv!Post(o, {}, "EXPIRED", "RELEASE", -1, 0)
      BY <1>4, <1>10 DEF Write
    <2>2. /\ resv \in [Orders -> [Skus -> InvP!ReservationStatus]]
          /\ ledger \in [Orders -> [Skus -> [InvP!TxnType -> Nat]]]
          /\ reserved \in [Skus -> Int] /\ sold \in [Skus -> Int] /\ tail \in [Skus -> InvP!Row]
      BY DEF InvP!TypeOK
    <2>3. reserved' = reserved /\ sold' = sold /\ tail' = tail
      BY <2>1, <2>2 DEF Inv!Post
    <2>4. [s \in Skus |-> resv[o][s]] = resv[o] /\ [s \in Skus |-> ledger[o][s]] = ledger[o]
      BY <1>1, <2>2
    <2>5. resv' = resv
      <3>1. resv' = [resv EXCEPT ![o] = [s \in Skus |-> resv[o][s]]]
        BY <2>1 DEF Inv!Post
      <3> QED
        BY <1>1, <2>2, <2>4, <3>1
    <2>6. ledger' = ledger
      <3>1. ledger' = [ledger EXCEPT ![o] = [s \in Skus |-> ledger[o][s]]]
        BY <2>1 DEF Inv!Post
      <3> QED
        BY <1>1, <2>2, <2>4, <3>1
    <2> QED
      BY <2>3, <2>5, <2>6 DEF Inv!invVars
  <1> QED
    BY <1>1, <1>5, <1>6, <1>7, <1>8, <1>9, <1>10 DEF Operation

\* What the steps of the calls are.
LEMMA TxCases ==
  ASSUME [TxNext]_txVars, TxInv
  PROVE  \/ \E c \in Calls, o \in Orders :
              \/ StartReserve(c, o) \/ StartConfirm(c, o) \/ StartRelease(c, o) \/ StartOpen(c, o)
              \/ \E s \in Skus : StartExpire(c, o, s)
         \/ \E c \in Calls, s \in Skus : FindLine(c, s) \/ ConfirmLine(c, s) \/ ReleaseLine(c, s)
         \/ \E c \in Calls, s \in Skus : UpdateRow(c, s)
         \/ \E c \in Calls : Ready(c) /\ Write(call[c]) /\ Put(c, Idle)
         \/ \E c \in Calls : Rollback(c)
         \/ UNCHANGED txVars
  <1>1. ASSUME NEW c \in Calls, Commit(c)
        PROVE  Rollback(c) \/ (Ready(c) /\ Write(call[c]) /\ Put(c, Idle))
    BY <1>1 DEF Commit, Ready, Status
  <1> QED
    BY <1>1 DEF TxNext, Fail, Victim

LEMMA TxStep ==
  ASSUME TxInv, InvP!TypeOK, [TxNext]_txVars
  PROVE  TxInv' /\ [Inv!InvNext]_(Inv!invVars)
  <1>0. UNCHANGED rows => [Inv!InvNext]_(Inv!invVars)
    BY DEF rows, Inv!invVars
  <1>1. ASSUME NEW c \in Calls, NEW o \in Orders,
               \/ StartReserve(c, o) \/ StartConfirm(c, o) \/ StartRelease(c, o) \/ StartOpen(c, o)
               \/ \E s \in Skus : StartExpire(c, o, s)
        PROVE  TxInv' /\ UNCHANGED rows
    BY <1>1, StartKeeps
       DEF StartReserve, StartConfirm, StartRelease, StartOpen, StartExpire, Start
  <1>2. ASSUME NEW c \in Calls, NEW s \in Skus,
               FindLine(c, s) \/ ConfirmLine(c, s) \/ ReleaseLine(c, s)
        PROVE  TxInv' /\ UNCHANGED rows
    BY <1>2, LineKeeps DEF FindLine, ConfirmLine, ReleaseLine, Take, Skip, Rollback
  <1>3. ASSUME NEW c \in Calls, NEW s \in Skus, UpdateRow(c, s)
        PROVE  TxInv' /\ UNCHANGED rows
    BY <1>3, UpdateKeeps DEF UpdateRow, Rollback
  <1>4. ASSUME NEW c \in Calls, Ready(c), Write(call[c]), Put(c, Idle)
        PROVE  TxInv' /\ [Inv!InvNext]_(Inv!invVars)
    BY <1>4, WriteKeeps, CommitIsStep
  <1>5. ASSUME NEW c \in Calls, Rollback(c)
        PROVE  TxInv' /\ UNCHANGED rows
    BY <1>5, RollbackKeeps DEF Rollback
  <1>6. ASSUME UNCHANGED txVars
        PROVE  TxInv' /\ UNCHANGED rows
    <2>1. UNCHANGED rows /\ UNCHANGED call
      BY <1>6 DEF txVars, rows
    <2>2. TxTypeOK' /\ LinesOfItems' /\ CallsApart'
      BY <2>1 DEF rows, TxInv, TxTypeOK, LinesOfItems, CallsApart, Apart, Busy, Held, Inv!ItemsOf
    <2>3. ASSUME NEW c \in Calls, Busy(c)
          PROVE  Progress(call[c])' /\ Sorted(call[c])'
      <3>1. Progress(call[c]) /\ Sorted(call[c])
        BY <2>3 DEF TxInv
      <3>2. PICK k : k = call[c]
        OBVIOUS
      <3>3. k = call'[c] /\ Progress(k)' /\ Sorted(k)
        BY <2>1, <3>1, <3>2 DEF rows, Progress, Settled, Status, Held, Inv!ItemsOf
      <3> QED
        BY <3>3 DEF Progress, Settled, Status, Held, Sorted, Inv!ItemsOf
    <2> QED
      BY <2>1, <2>2, <2>3 DEF TxInv, Busy
  <1>7. TxInv' /\ (UNCHANGED rows \/ [Inv!InvNext]_(Inv!invVars))
    <2>1. CASE UNCHANGED txVars
      BY <1>6, <2>1
    <2> QED
      BY <1>1, <1>2, <1>3, <1>4, <1>5, <2>1, TxCases
  <1> QED
    BY <1>0, <1>7

LEMMA TxInvHolds == TxSpec => [](TxInv /\ InvP!TypeOK)
  <1>1. TxInit => TxInv /\ InvP!TypeOK
    <2> SUFFICES ASSUME TxInit
                 PROVE  TxInv /\ InvP!TypeOK
      OBVIOUS
    <2>1. \A c \in Calls : ~Busy(c)
      BY DEF TxInit, Busy
    <2>2. TxTypeOK
      BY DEF TxInit, TxTypeOK
    <2>3. LinesOfItems
      BY DEF TxInit, Inv!InvInit, LinesOfItems
    <2>4. TxInv
      BY <2>1, <2>2, <2>3 DEF TxInv, CallsApart
    <2>5. InvP!InvInit
      BY SameInventory DEF TxInit
    <2>6. InvP!TypeOK
      BY <2>5, TxAssumption
         DEF InvP!InvInit, InvP!TypeOK, InvP!ReservationStatus, InvP!TxnType, InvP!Row
    <2> QED
      BY <2>4, <2>6
  <1>2. TxInv /\ InvP!TypeOK /\ [TxNext]_txVars => (TxInv /\ InvP!TypeOK)'
    <2> SUFFICES ASSUME TxInv, InvP!TypeOK, [TxNext]_txVars
                 PROVE  (TxInv /\ InvP!TypeOK)'
      OBVIOUS
    <2>1. TxInv' /\ [InvP!InvNext]_(InvP!invVars)
      BY TxStep, SameInventory
    <2>2. InvP!TypeOK'
      BY <2>1, InventoryAssumed, InvP!TypeKept
    <2> QED
      BY <2>1, <2>2
  <1> QED
    BY <1>1, <1>2, PTL DEF TxSpec

(***************************************************************************)
(* The sessions' calls keep their type.                                    *)
(***************************************************************************)
THEOREM TxTyped == TxSpec => []TxTypeOK
  <1>1. TxInv => TxTypeOK
    BY DEF TxInv
  <1> QED
    BY <1>1, TxInvHolds, PTL

(***************************************************************************)
(* However the statements of concurrent calls interleave, wait, deadlock   *)
(* or fail, every call takes effect as one step of Inventory, at its       *)
(* commit, or not at all.                                                  *)
(***************************************************************************)
THEOREM CallsAreAtomic == TxSpec => Atomic
  <1>1. TxInit => Inv!InvInit
    BY DEF TxInit
  <1>2. TxInv /\ InvP!TypeOK /\ [TxNext]_txVars => [Inv!InvNext]_(Inv!invVars)
    BY TxStep
  <1> QED
    BY <1>1, <1>2, TxInvHolds, PTL DEF TxSpec, Atomic, Inv!InvSpec

-----------------------------------------------------------------------------
(***************************************************************************)
(* reserve calls do not wait for each other in a circle.  The item a       *)
(* waiting call is at is less than the item the call it waits for is at,   *)
(* and there are only so many items: the call with the fewest items beyond *)
(* its own waits for nobody of the circle.                                 *)
(***************************************************************************)
Beyond(s) == Cardinality({t \in Skus : t > s})

LEMMA BeyondShrinks ==
  ASSUME NEW s \in Skus, NEW t \in Skus, s < t
  PROVE  Beyond(s) \in Nat /\ Beyond(t) \in Nat /\ Beyond(t) < Beyond(s)
  <1> DEFINE S == {x \in Skus : x > s}
             T == {x \in Skus : x > t}
  <1>1. \A x \in Skus : x \in Nat
    BY TxAssumption
  <1>2. IsFiniteSet(S)
    BY TxAssumption, FS_Subset
  <1>3. T \in SUBSET S /\ T # S
    BY <1>1
  <1>4. IsFiniteSet(T) /\ Cardinality(T) <= Cardinality(S) /\ Cardinality(S) # Cardinality(T)
    <2> HIDE DEF S, T
    <2> QED
      BY <1>2, <1>3, FS_Subset
  <1>5. Cardinality(S) \in Nat /\ Cardinality(T) \in Nat
    BY <1>2, <1>4, FS_CardinalityType
  <1> HIDE DEF S, T
  <1>6. Cardinality(T) < Cardinality(S)
    BY <1>4, <1>5
  <1> QED
    BY <1>5, <1>6 DEF Beyond, S, T

THEOREM ReservesNeverDeadlock == TxSpec => []ReservesInOrder
  <1>1. TxInv => ReservesInOrder
    <2> SUFFICES ASSUME TxInv, NEW D \in SUBSET Calls, D # {}, Deadlocked(D),
                        \A c \in D : call[c].op = "reserve"
                 PROVE  FALSE
      BY DEF ReservesInOrder
    <2>1. \A c \in D : Busy(c) /\ c \in Calls
      BY DEF Deadlocked, WaitsFor
    <2>2. ASSUME NEW c \in D
          PROVE  \E d \in D, s \in call[c].cur : d # c /\ s \in call[d].done
      BY <2>2 DEF Deadlocked, WaitsFor, HoldsRow
    <2>3. ASSUME NEW c \in D, NEW s \in call[c].cur
          PROVE  \E d \in D : \E t \in call[d].cur :
                    s \in Skus /\ t \in Skus /\ s < t
      <3>1. PICK d \in D : s \in call[d].done
        <4>1. PICK d \in D : \E x \in call[c].cur : x \in call[d].done
          BY <2>2
        <4>2. \A x \in call[c].cur : x = s
          BY <2>1, <2>3 DEF TxInv, Progress
        <4> QED
          BY <4>1, <4>2
      <3>2. PICK t \in call[d].cur : TRUE
        BY <2>2
      <3>3. s < t
        BY <2>1, <3>1, <3>2 DEF TxInv, Sorted
      <3>4. s \in Skus /\ t \in Skus
        BY <2>1, <3>1, <3>2, BusyCall DEF TxInv
      <3> QED
        BY <3>2, <3>3, <3>4
    <2> DEFINE W == {Beyond(s) : s \in UNION {call[c].cur : c \in D}}
    <2>4. W # {} /\ W \subseteq Nat
      BY <2>2, <2>3, BeyondShrinks
    <2>5. PICK n \in W : \A m \in W : ~(<<m, n>> \in OpToRel(<, Nat))
      <3> HIDE DEF W
      <3> QED
        BY <2>4, NatLessThanWellFounded, WFMin
    <2>6. \A m \in W : ~(m < n)
      BY <2>4, <2>5 DEF OpToRel
    <2>7. PICK c \in D : \E s \in call[c].cur : n = Beyond(s)
      BY <2>5
    <2>8. PICK s \in call[c].cur : n = Beyond(s)
      BY <2>7
    <2>9. PICK d \in D : \E t \in call[d].cur : s \in Skus /\ t \in Skus /\ s < t
      BY <2>3
    <2>10. PICK t \in call[d].cur : s \in Skus /\ t \in Skus /\ s < t
      BY <2>9
    <2>11. Beyond(t) \in W /\ Beyond(t) < n
      BY <2>8, <2>10, BeyondShrinks
    <2> QED
      BY <2>6, <2>11
  <1> QED
    BY <1>1, TxInvHolds, PTL
=============================================================================
