------------------------------ MODULE Inventory ------------------------------
(***************************************************************************)
(* The inventory of catalog-service: the inventories rows, the             *)
(* stock_reservations rows and the inventory_transactions ledger, under    *)
(* reserve / confirm / release, the expiry job and the manual adjustment.  *)
(*                                                                         *)
(* reserve, confirm and release are one database transaction each: every   *)
(* row they change is changed by a conditional UPDATE, whose row lock is   *)
(* held until the single commit at the end, and any error rolls the whole  *)
(* call back.  They are atomic actions here.  adjust_inventory reads the   *)
(* row without a lock and later writes absolute values over it, so it is   *)
(* two actions.                                                            *)
(***************************************************************************)
EXTENDS Integers, FiniteSets

CONSTANTS
  Orders,        \* order numbers that call the inventory
  Skus,          \* SKUs, one inventories row each
  MaxQty,        \* largest quantity of an item (ReserveItem.quantity)
  Qty,           \* Qty[o][s]: units of s in order o, 0 when s is not in it
  InitialStock,  \* initial_stock each SKU was created with
  Admins,        \* concurrent manual adjustments
  AdjustQty,     \* quantities an administrator enters: any integer is taken
  Targets        \* bound: the stocks an adjustment may aim at

ASSUME InventoryAssumption ==
  /\ IsFiniteSet(Orders)
  /\ MaxQty \in Nat
  /\ Qty \in [Orders -> [Skus -> 0..MaxQty]]
  /\ InitialStock \in [Skus -> Int]
  /\ AdjustQty \subseteq Int

VARIABLES
  stock,       \* inventories.stock
  reserved,    \* inventories.reserved
  sold,        \* inventories.sold
  resv,        \* resv[o][s]: status of the reservation row, "NONE" when absent
  ledger,      \* ledger[o][s][t]: ledger rows of type t for order o and SKU s
  tail,        \* tail[s]: the *_after columns of the newest ledger row of s
  adjust,      \* adjustments that have read their row and not yet written it
  overwritten  \* history: an adjustment of s was written over a row it had not read

invVars == <<stock, reserved, sold, resv, ledger, tail, adjust, overwritten>>

ReservationStatus == {"NONE", "RESERVED", "CONFIRMED", "RELEASED", "EXPIRED"}
TxnType == {"RESERVE", "CONFIRM", "RELEASE"}
Row == [stock : Int, reserved : Int, sold : Int]
AdjustType == {"SET", "INCREASE", "DECREASE"}
Adjustment == [admin : Admins, sku : Skus, op : AdjustType, target : Int, seen : Row]

ItemsOf(o) == {s \in Skus : Qty[o][s] > 0}

RowOf(s) == [stock |-> stock[s], reserved |-> reserved[s], sold |-> sold[s]]

\* The orders whose line of s has status st.
Holders(st, s) == {o \in Orders : resv[o][s] = st}

(***************************************************************************)
(* The units of s that the orders in P ask for, unit i of order o being    *)
(* <<o, i>>: their number is the sum of the quantities.                    *)
(***************************************************************************)
UnitsOf(P, s) == {u \in P \X (1..MaxQty) : u[2] <= Qty[u[1]][s]}

-----------------------------------------------------------------------------
InvInit ==
  /\ stock = InitialStock
  /\ reserved = [s \in Skus |-> 0]
  /\ sold = [s \in Skus |-> 0]
  /\ resv = [o \in Orders |-> [s \in Skus |-> "NONE"]]
  /\ ledger = [o \in Orders |-> [s \in Skus |-> [t \in TxnType |-> 0]]]
  /\ tail = [s \in Skus |-> [stock |-> InitialStock[s], reserved |-> 0, sold |-> 0]]
  /\ adjust = {}
  /\ overwritten = [s \in Skus |-> FALSE]

\* The row of s once order o's quantity has moved its counters.
Moved(o, s, dReserved, dSold) ==
  [stock    |-> stock[s],
   reserved |-> reserved[s] + dReserved * Qty[o][s],
   sold     |-> sold[s] + dSold * Qty[o][s]]

\* Variant: the row is not refreshed before the ledger row is built.
LedgerRowUnrefreshed(o, s, dReserved, dSold) == RowOf(s)

\* _add_txn writes the row session.refresh has just read back.
LedgerRow(o, s, dReserved, dSold) == Moved(o, s, dReserved, dSold)

(***************************************************************************)
(* What one call writes: the reservation rows of order o for the SKUs in S *)
(* take status st, their inventories rows move by the quantities, and each *)
(* gets one ledger row of type t.                                          *)
(***************************************************************************)
Post(o, S, st, t, dReserved, dSold) ==
  /\ resv' = [resv EXCEPT ![o] = [s \in Skus |-> IF s \in S THEN st ELSE @[s]]]
  /\ reserved' = [s \in Skus |->
       IF s \in S THEN Moved(o, s, dReserved, dSold).reserved ELSE reserved[s]]
  /\ sold' = [s \in Skus |->
       IF s \in S THEN Moved(o, s, dReserved, dSold).sold ELSE sold[s]]
  /\ ledger' = [ledger EXCEPT ![o] =
       [s \in Skus |->
          IF s \in S THEN [ledger[o][s] EXCEPT ![t] = @ + 1] ELSE ledger[o][s]]]
  /\ tail' = [s \in Skus |->
       IF s \in S THEN LedgerRow(o, s, dReserved, dSold) ELSE tail[s]]
  /\ UNCHANGED <<stock, adjust, overwritten>>

\* The SKUs of S for which order o has a row in status st.
Lines(o, S, st) == {s \in S : resv[o][s] = st}

(***************************************************************************)
(* reserve: a SKU the order already has a row for, in any status, is       *)
(* reported as done and skipped; every other one must pass                 *)
(* stock - reserved >= quantity, or the whole call is rolled back.         *)
(***************************************************************************)
\* Variant: the condition looks at stock alone.
CanReserveIgnoringReserved(o) ==
  \A s \in Lines(o, ItemsOf(o), "NONE") : stock[s] >= Qty[o][s]

CanReserve(o) ==
  \A s \in Lines(o, ItemsOf(o), "NONE") : stock[s] - reserved[s] >= Qty[o][s]

Reserve(o) ==
  /\ CanReserve(o)
  /\ Post(o, Lines(o, ItemsOf(o), "NONE"), "RESERVED", "RESERVE", 1, 0)

(***************************************************************************)
(* confirm: RESERVED lines become CONFIRMED, CONFIRMED ones are skipped;   *)
(* a missing line (CAT-4008) or one already released or expired (CAT-5013) *)
(* rolls the whole call back.  stock is not touched.                       *)
(***************************************************************************)
\* Variant: expired lines are taken for sold ones.
CanConfirmSome(o) ==
  \A s \in ItemsOf(o) : resv[o][s] \in {"RESERVED", "CONFIRMED", "EXPIRED"}

CanConfirm(o) == \A s \in ItemsOf(o) : resv[o][s] \in {"RESERVED", "CONFIRMED"}

\* Variant: lines released meanwhile are skipped instead of raising CAT-5013.
ConfirmWhatIsLeft(o) ==
  Post(o, Lines(o, ItemsOf(o), "RESERVED"), "CONFIRMED", "CONFIRM", -1, 1)

Confirm(o) ==
  /\ CanConfirm(o)
  /\ Post(o, Lines(o, ItemsOf(o), "RESERVED"), "CONFIRMED", "CONFIRM", -1, 1)

(***************************************************************************)
(* release of the items S: RESERVED lines are given back under status st;  *)
(* missing, released and expired ones are skipped; a CONFIRMED one         *)
(* (CAT-5012) rolls the whole call back.                                   *)
(***************************************************************************)
CanRelease(o, S) == \A s \in S : resv[o][s] # "CONFIRMED"

\* Variant: the UPDATE on stock_reservations does not ask for RESERVED.
ReleaseAnyStatus(o, S, st) ==
  /\ CanRelease(o, S)
  /\ Post(o, S, st, "RELEASE", -1, 0)

ReleaseAs(o, S, st) ==
  /\ CanRelease(o, S)
  /\ Post(o, Lines(o, S, "RESERVED"), st, "RELEASE", -1, 0)

\* An order.cancelled event names the order's items.
ReleaseItems(o) == ReleaseAs(o, ItemsOf(o), "RELEASED")

\* The order-side compensation names none: every line still RESERVED.
ReleaseOpen(o) == ReleaseAs(o, Lines(o, ItemsOf(o), "RESERVED"), "RELEASED")

(***************************************************************************)
(* release_expired_job releases each overdue line by a call of its own.    *)
(* Clocks are not modelled: any RESERVED line may be overdue.              *)
(***************************************************************************)
\* Variant: only orders with every line still RESERVED are selected.
ExpireWholeOrders(o, s) ==
  /\ \A i \in ItemsOf(o) : resv[o][i] = "RESERVED"
  /\ ReleaseAs(o, {s}, "EXPIRED")

Expire(o, s) ==
  /\ resv[o][s] = "RESERVED"
  /\ ReleaseAs(o, {s}, "EXPIRED")

(***************************************************************************)
(* adjust_inventory: read the row, check the new stock against the         *)
(* reserved units just read, and later write it whatever the row now is.   *)
(* An INCREASE is not checked, and its quantity may be negative.  The      *)
(* ledger row carries the reserved and sold columns that were read.        *)
(***************************************************************************)
AdjustTargets(op, s) ==
  CASE op = "SET"      -> {q \in AdjustQty : q >= reserved[s]}
    [] op = "INCREASE" -> {stock[s] + q : q \in AdjustQty}
    [] op = "DECREASE" -> {n \in {stock[s] - q : q \in AdjustQty} : n >= reserved[s]}

AdjustRead(a, s) ==
  /\ \A w \in adjust : w.admin # a
  /\ \E op \in AdjustType : \E n \in AdjustTargets(op, s) \cap Targets :
       adjust' = adjust \cup
         {[admin |-> a, sku |-> s, op |-> op, target |-> n, seen |-> RowOf(s)]}
  /\ UNCHANGED <<stock, reserved, sold, resv, ledger, tail, overwritten>>

\* The UPDATE names the columns that differ from what was read.
AdjustWrite(w) ==
  /\ stock' = [stock EXCEPT ![w.sku] =
                 IF w.target = w.seen.stock THEN @ ELSE w.target]
  /\ tail' = [tail EXCEPT ![w.sku] = [w.seen EXCEPT !.stock = w.target]]
  /\ overwritten' = [overwritten EXCEPT ![w.sku] = @ \/ w.seen # RowOf(w.sku)]
  /\ adjust' = adjust \ {w}
  /\ UNCHANGED <<reserved, sold, resv, ledger>>

-----------------------------------------------------------------------------
InvNext ==
  \/ \E o \in Orders : Reserve(o)
  \/ \E o \in Orders : Confirm(o)
  \/ \E o \in Orders : ReleaseItems(o)
  \/ \E o \in Orders : ReleaseOpen(o)
  \/ \E o \in Orders, s \in Skus : Expire(o, s)
  \/ \E a \in Admins, s \in Skus : AdjustRead(a, s)
  \/ \E w \in adjust : AdjustWrite(w)

InvSpec == InvInit /\ [][InvNext]_invVars

(***************************************************************************)
(* The expiry job runs every minute and selects every overdue line, and a  *)
(* line that stays RESERVED becomes overdue: each line's expiry is fair.   *)
(* Nothing makes an order call the service again, or an administrator.     *)
(***************************************************************************)
InvFairSpec ==
  InvSpec /\ \A o \in Orders, s \in Skus : WF_invVars(Expire(o, s))
-----------------------------------------------------------------------------
TypeOK ==
  /\ stock \in [Skus -> Int]
  /\ reserved \in [Skus -> Int]
  /\ sold \in [Skus -> Int]
  /\ resv \in [Orders -> [Skus -> ReservationStatus]]
  /\ ledger \in [Orders -> [Skus -> [TxnType -> Nat]]]
  /\ tail \in [Skus -> Row]
  /\ adjust \subseteq Adjustment
  /\ overwritten \in [Skus -> BOOLEAN]

(***************************************************************************)
(* The counters are what the reservation rows add up to: reserved is the   *)
(* sum over RESERVED lines and sold the sum over CONFIRMED ones, however   *)
(* calls are repeated, refused or overtaken by the expiry job, and through *)
(* every manual adjustment (inventory_service.reserve, confirm, release).  *)
(***************************************************************************)
Conservation ==
  \A s \in Skus : /\ reserved[s] = Cardinality(UnitsOf(Holders("RESERVED", s), s))
                 /\ sold[s] = Cardinality(UnitsOf(Holders("CONFIRMED", s), s))

(***************************************************************************)
(* Confirmation is all or nothing per order: once one line of an order is  *)
(* CONFIRMED every line of it is, whatever expired or was released before  *)
(* (confirm raises CAT-5013 and rolls back instead of confirming a part).  *)
(***************************************************************************)
ConfirmedTogether ==
  \A o \in Orders :
    (\E s \in Skus : resv[o][s] = "CONFIRMED")
      => \A s \in ItemsOf(o) : resv[o][s] = "CONFIRMED"

(***************************************************************************)
(* The ledger tells each line's story once: one RESERVE row for a line     *)
(* that was ever reserved, then at most one of CONFIRM and RELEASE, and    *)
(* which of them agrees with the line's status (the promise the missing    *)
(* unique index uk_inventory_transactions_ref_txn was meant to enforce).   *)
(***************************************************************************)
LedgerOnce ==
  \A o \in Orders, s \in Skus :
    LET rows == ledger[o][s]  status == resv[o][s] IN
      /\ rows["RESERVE"] = IF status = "NONE" THEN 0 ELSE 1
      /\ rows["CONFIRM"] = IF status = "CONFIRMED" THEN 1 ELSE 0
      /\ rows["RELEASE"] = IF status \in {"RELEASED", "EXPIRED"} THEN 1 ELSE 0

(***************************************************************************)
(* Units already promised are taken away by an administrator alone: only   *)
(* the write of an adjustment makes stock - reserved negative or more so,  *)
(* and either a reserve overtook it after its read, or it is an INCREASE   *)
(* to less than the reserved units it read, which adjust_inventory does    *)
(* not check.  The conditional UPDATE of reserve, and the check of SET and *)
(* DECREASE on an unmoved row, never do.                                   *)
(***************************************************************************)
Available(s) == stock[s] - reserved[s]

NoOverReserve ==
  [][\A s \in Skus :
       Available(s)' < 0 /\ Available(s)' < Available(s)
         => \E w \in adjust \ adjust' :
              /\ w.sku = s
              /\ \/ w.seen.reserved < reserved[s]
                 \/ w.op = "INCREASE" /\ w.target < w.seen.reserved]_invVars

(***************************************************************************)
(* The newest ledger row of a SKU states the row's columns as they are     *)
(* (the *_after columns of _add_txn), unless an adjustment overwrote it.   *)
(***************************************************************************)
LedgerTail == \A s \in Skus : ~overwritten[s] => tail[s] = RowOf(s)

(***************************************************************************)
(* A settled line stays as it is: no retry of reserve, no late order.paid  *)
(* and no second release brings a CONFIRMED, RELEASED or EXPIRED line      *)
(* back or moves it elsewhere.                                             *)
(***************************************************************************)
SettledIsFinal ==
  [][\A o \in Orders, s \in Skus :
       resv[o][s] \in {"CONFIRMED", "RELEASED", "EXPIRED"}
         => resv'[o][s] = resv[o][s]]_invVars

(***************************************************************************)
(* The rows keep the promise of StockPromise: whichever calls are repeated *)
(* or compete, the lines of an order are held together and sold together,  *)
(* and none is held again once it was sold, released or expired.           *)
(***************************************************************************)
Outcome(st) ==
  CASE st = "NONE"      -> "open"
    [] st = "RESERVED"  -> "held"
    [] st = "CONFIRMED" -> "sold"
    [] OTHER            -> "returned"

Promise == INSTANCE StockPromise
  WITH LinesOf <- [o \in Orders |-> ItemsOf(o)],
       promise <- [o \in Orders |-> [s \in ItemsOf(o) |-> Outcome(resv[o][s])]]

KeepsPromise == Promise!Spec

(***************************************************************************)
(* No reservation holds stock for ever: a RESERVED line is eventually      *)
(* confirmed, released or expired, even when its order never comes back.   *)
(***************************************************************************)
ReservationSettles ==
  \A o \in Orders, s \in Skus :
    resv[o][s] = "RESERVED" ~> resv[o][s] # "RESERVED"

(***************************************************************************)
(* What the requirements ask (no overselling): the units promised to       *)
(* buyers, reserved and sold, are never more than the stock there is.      *)
(***************************************************************************)
NoOversell == \A s \in Skus : reserved[s] + sold[s] <= stock[s]
=============================================================================
