----------------------------- MODULE InventoryTx -----------------------------
(***************************************************************************)
(* reserve, confirm and release of catalog-service statement by statement. *)
(* Inventory takes each call for one step; here the calls of concurrent    *)
(* sessions interleave, wait for each other's row locks, deadlock, and are *)
(* rolled back, and each is shown to have the effect of one step.          *)
(*                                                                         *)
(* PostgreSQL runs at READ COMMITTED: a statement sees what is committed,  *)
(* waits for the lock of a row it changes, and then looks at it again.  A  *)
(* session keeps its locks to the end.  The sessions do not autoflush, so  *)
(* the rows reserve adds are inserted by its commit.                       *)
(***************************************************************************)
EXTENDS Integers, FiniteSets

CONSTANTS
  Orders, Skus, MaxQty, Qty, InitialStock,  \* as in Inventory; a SKU is its id
  Listed,  \* Listed[o][s]: place of s in the item list of o's events
  Calls    \* sessions at the same time

ASSUME TxAssumption ==
  /\ IsFiniteSet(Orders)
  /\ Skus \subseteq Nat /\ IsFiniteSet(Skus)
  /\ MaxQty \in Nat
  /\ Qty \in [Orders -> [Skus -> 0..MaxQty]]
  /\ InitialStock \in [Skus -> Int]
  /\ Listed \in [Orders -> [Skus -> Nat]]

VARIABLES
  reserved, sold, resv, ledger, tail,  \* committed, as in Inventory
  call   \* call[c]: the call session c runs

Inv == INSTANCE Inventory
  WITH Admins <- {}, AdjustQty <- {}, Targets <- {},
       stock <- InitialStock, adjust <- {}, overwritten <- [s \in Skus |-> FALSE]

rows == <<reserved, sold, resv, ledger, tail>>
txVars == <<reserved, sold, resv, ledger, tail, call>>

Operation == {"reserve", "confirm", "release", "open", "expire"}
\* todo: items to come; cur: the item whose first statement is done; done:
\* items whose inventories row is changed, and locked.
Call == [op : Operation, order : Orders,
         todo : SUBSET Skus, cur : SUBSET Skus, done : SUBSET Skus]
Idle == [op |-> "idle"]

TxInit == Inv!InvInit /\ call = [c \in Calls |-> Idle]

Busy(c) == call[c] # Idle
Put(c, k) == call' = [call EXCEPT ![c] = k]
Rollback(c) == Put(c, Idle) /\ UNCHANGED rows

\* The locks of session d.
HoldsRow(d, s) == Busy(d) /\ s \in call[d].done
HoldsLine(d, o, s) ==
  /\ Busy(d) /\ call[d].op # "reserve" /\ call[d].order = o
  /\ s \in call[d].cur \cup call[d].done

-----------------------------------------------------------------------------
(***************************************************************************)
(* A call begins.  Nobody releases or expires what is still being          *)
(* reserved: order.cancelled and the compensation follow the answer to     *)
(* reserve, and the expiry job reads committed rows.                       *)
(***************************************************************************)
Runs(o, ops) == \E d \in Calls : Busy(d) /\ call[d].order = o /\ call[d].op \in ops

Start(c, op, o, S) ==
  /\ ~Busy(c)
  /\ Put(c, [op |-> op, order |-> o, todo |-> S, cur |-> {}, done |-> {}])
  /\ UNCHANGED rows

StartReserve(c, o) ==
  ~Runs(o, {"release", "open"}) /\ Start(c, "reserve", o, Inv!ItemsOf(o))

StartConfirm(c, o) == Start(c, "confirm", o, Inv!ItemsOf(o))

StartRelease(c, o) ==
  ~Runs(o, {"reserve"}) /\ Start(c, "release", o, Inv!ItemsOf(o))

\* release without items: every line it finds RESERVED.
StartOpen(c, o) ==
  ~Runs(o, {"reserve"}) /\ Start(c, "open", o, Inv!Lines(o, Skus, "RESERVED"))

StartExpire(c, o, s) == resv[o][s] = "RESERVED" /\ Start(c, "expire", o, {s})

(***************************************************************************)
(* The order in which a call takes its items: reserve by sku_id, the       *)
(* events' calls in the order of the list, release without items in any.   *)
(***************************************************************************)
\* Variant: reserve takes the items as the request lists them.
IsNextUnsorted(k, s) ==
  /\ s \in k.todo
  /\ k.op \in {"reserve", "confirm", "release"}
       => \A t \in k.todo : Listed[k.order][s] <= Listed[k.order][t]

IsNext(k, s) ==
  /\ s \in k.todo
  /\ k.op = "reserve" => \A t \in k.todo : s <= t
  /\ k.op \in {"confirm", "release"}
       => \A t \in k.todo : Listed[k.order][s] <= Listed[k.order][t]

Take(c, s) == Put(c, [call[c] EXCEPT !.todo = @ \ {s}, !.cur = {s}]) /\ UNCHANGED rows
Skip(c, s) == Put(c, [call[c] EXCEPT !.todo = @ \ {s}]) /\ UNCHANGED rows

LineFree(o, s) == \A d \in Calls : ~HoldsLine(d, o, s)
RowFree(s) == \A d \in Calls : ~HoldsRow(d, s)

\* reserve: _find_reservation.
FindLine(c, s) ==
  /\ Busy(c) /\ call[c].op = "reserve" /\ call[c].cur = {} /\ IsNext(call[c], s)
  /\ IF resv[call[c].order][s] = "NONE" THEN Take(c, s) ELSE Skip(c, s)

\* confirm: UPDATE stock_reservations, and the SELECT when it hits no row.
ConfirmLine(c, s) ==
  LET st == resv[call[c].order][s] IN
    /\ Busy(c) /\ call[c].op = "confirm" /\ call[c].cur = {} /\ IsNext(call[c], s)
    /\ \/ st = "RESERVED" /\ LineFree(call[c].order, s) /\ Take(c, s)
       \/ st = "CONFIRMED" /\ Skip(c, s)
       \/ st \notin {"RESERVED", "CONFIRMED"} /\ Rollback(c)

(***************************************************************************)
(* release: the same statements.  The session of a release without items,  *)
(* or of the expiry job, has loaded the line as RESERVED; the UPDATE sets  *)
(* that object to the target status even when it hits no row, so the       *)
(* SELECT after it never shows CONFIRMED there.                            *)
(***************************************************************************)
ReleaseLine(c, s) ==
  LET st == resv[call[c].order][s]
      shown == st = "CONFIRMED" /\ call[c].op = "release" IN
    /\ Busy(c) /\ call[c].op \in {"release", "open", "expire"}
    /\ call[c].cur = {} /\ IsNext(call[c], s)
    /\ \/ st = "RESERVED" /\ LineFree(call[c].order, s) /\ Take(c, s)
       \/ st # "RESERVED" /\ ~shown /\ Skip(c, s)
       \/ shown /\ Rollback(c)

\* The WHERE of reserve's UPDATE on inventories; the others have none.
Enough(k, s) ==
  k.op = "reserve" => InitialStock[s] - reserved[s] >= Qty[k.order][s]

\* UPDATE inventories.
UpdateRow(c, s) ==
  /\ Busy(c) /\ s \in call[c].cur
  /\ RowFree(s)
  /\ IF Enough(call[c], s)
     THEN Put(c, [call[c] EXCEPT !.cur = {}, !.done = @ \cup {s}]) /\ UNCHANGED rows
     ELSE Rollback(c)

(***************************************************************************)
(* The commit.  reserve inserts its lines now: the unique index on         *)
(* (order_no, sku_id) refuses a line another call has inserted meanwhile.  *)
(***************************************************************************)
Write(k) ==
  CASE k.op = "reserve" -> Inv!Post(k.order, k.done, "RESERVED", "RESERVE", 1, 0)
    [] k.op = "confirm" -> Inv!Post(k.order, k.done, "CONFIRMED", "CONFIRM", -1, 1)
    [] k.op = "expire"  -> Inv!Post(k.order, k.done, "EXPIRED", "RELEASE", -1, 0)
    [] OTHER            -> Inv!Post(k.order, k.done, "RELEASED", "RELEASE", -1, 0)

\* Variant: each item is committed by itself.
CommitEachItem(c) ==
  /\ Busy(c) /\ call[c].cur = {} /\ call[c].done # {}
  /\ Write(call[c])
  /\ Put(c, [call[c] EXCEPT !.done = {}])

Commit(c) ==
  LET k == call[c] IN
    /\ Busy(c) /\ k.todo = {} /\ k.cur = {}
    /\ IF k.op = "reserve" /\ \E s \in k.done : resv[k.order][s] # "NONE"
       THEN Rollback(c)
       ELSE Write(k) /\ Put(c, Idle)

\* An error, a cancelled request or a lost connection, at any point.
Fail(c) == Busy(c) /\ Rollback(c)

-----------------------------------------------------------------------------
\* The sessions c waits for.
WaitsFor(c, d) ==
  /\ c # d /\ Busy(c)
  /\ \/ \E s \in call[c].cur : HoldsRow(d, s)
     \/ /\ call[c].op # "reserve" /\ call[c].cur = {}
        /\ \E s \in Skus : /\ IsNext(call[c], s)
                           /\ resv[call[c].order][s] = "RESERVED"
                           /\ HoldsLine(d, call[c].order, s)

\* The sessions of D wait for each other in a circle.
Deadlocked(D) ==
  \A c \in D : (\E d \in D : WaitsFor(c, d)) /\ (\E d \in D : WaitsFor(d, c))

\* PostgreSQL rolls one of them back.
Victim(c) ==
  /\ \E D \in SUBSET Calls : c \in D /\ Deadlocked(D)
  /\ Rollback(c)

TxNext ==
  \/ \E c \in Calls, o \in Orders : StartReserve(c, o)
  \/ \E c \in Calls, o \in Orders : StartConfirm(c, o)
  \/ \E c \in Calls, o \in Orders : StartRelease(c, o)
  \/ \E c \in Calls, o \in Orders : StartOpen(c, o)
  \/ \E c \in Calls, o \in Orders, s \in Skus : StartExpire(c, o, s)
  \/ \E c \in Calls, s \in Skus : FindLine(c, s)
  \/ \E c \in Calls, s \in Skus : ConfirmLine(c, s)
  \/ \E c \in Calls, s \in Skus : ReleaseLine(c, s)
  \/ \E c \in Calls, s \in Skus : UpdateRow(c, s)
  \/ \E c \in Calls : Commit(c)
  \/ \E c \in Calls : Fail(c)
  \/ \E c \in Calls : Victim(c)

TxSpec == TxInit /\ [][TxNext]_txVars
-----------------------------------------------------------------------------
\* The calls have their type.
TxTypeOK == call \in [Calls -> Call \cup {Idle}]

(***************************************************************************)
(* Each call has the effect of one step of Inventory, at its commit, or    *)
(* none: the statements of concurrent calls do not get in each other's way *)
(* (the conditional UPDATEs, the locks they leave, the single commit).     *)
(***************************************************************************)
Atomic == Inv!InvSpec

(***************************************************************************)
(* reserve calls alone never wait for each other in a circle, whatever     *)
(* item lists they came with (sorted in reserve).  Calls of other kinds    *)
(* may, since confirm and release keep the order of the list.              *)
(***************************************************************************)
ReservesInOrder ==
  \A D \in SUBSET Calls :
    D # {} /\ Deadlocked(D) => \E c \in D : call[c].op # "reserve"
=============================================================================
