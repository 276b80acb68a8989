--------------------------- MODULE CheckoutProofs ----------------------------
(***************************************************************************)
(* What holds of the checkout saga for any orders, SKUs, quantities and    *)
(* messages.  The saga is an Inventory and an OrderService at once, so     *)
(* what is proved of either module is used here through an instance of its *)
(* proofs.                                                                 *)
(***************************************************************************)
EXTENDS Checkout, TLAPS

InvP == INSTANCE InventoryProofs WITH Admins <- {}, AdjustQty <- {}, Targets <- {}
OrdP == INSTANCE OrderServiceProofs WITH MaxCrashes <- 0

-----------------------------------------------------------------------------
\* The assumptions of the two modules follow from those of the saga.
LEMMA InventoryAssumed == InvP!InventoryAssumption
  BY SagaAssumption DEF InvP!InventoryAssumption, InvP!IsFiniteSet, IsFiniteSet

LEMMA OrderAssumed == OrdP!OrderAssumption
  BY SagaAssumption DEF OrdP!OrderAssumption

(***************************************************************************)
(* The operations of the instance the saga calls are those of the instance *)
(* the proofs are about.                                                   *)
(***************************************************************************)
LEMMA SameItems == \A o : Inv!ItemsOf(o) = InvP!ItemsOf(o)
  BY DEF Inv!ItemsOf, InvP!ItemsOf

LEMMA SameReserve ==
  ASSUME NEW o
  PROVE  Inv!Reserve(o) <=> InvP!Reserve(o)
  BY DEF Inv!Reserve, InvP!Reserve, Inv!CanReserve, InvP!CanReserve, Inv!Lines, InvP!Lines,
         Inv!ItemsOf, InvP!ItemsOf, Inv!Post, InvP!Post, Inv!Moved, InvP!Moved,
         Inv!LedgerRow, InvP!LedgerRow

LEMMA SameConfirm ==
  ASSUME NEW o
  PROVE  Inv!Confirm(o) <=> InvP!Confirm(o)
  BY DEF Inv!Confirm, InvP!Confirm, Inv!CanConfirm, InvP!CanConfirm, Inv!Lines, InvP!Lines,
         Inv!ItemsOf, InvP!ItemsOf, Inv!Post, InvP!Post, Inv!Moved, InvP!Moved,
         Inv!LedgerRow, InvP!LedgerRow

LEMMA SameRelease ==
  ASSUME NEW o, NEW s
  PROVE  /\ Inv!ReleaseItems(o) <=> InvP!ReleaseItems(o)
         /\ Inv!ReleaseOpen(o) <=> InvP!ReleaseOpen(o)
         /\ Inv!Expire(o, s) <=> InvP!Expire(o, s)
  BY DEF Inv!ReleaseItems, InvP!ReleaseItems, Inv!ReleaseOpen, InvP!ReleaseOpen,
         Inv!Expire, InvP!Expire, Inv!ReleaseAs, InvP!ReleaseAs,
         Inv!CanRelease, InvP!CanRelease, Inv!Lines, InvP!Lines,
         Inv!ItemsOf, InvP!ItemsOf, Inv!Post, InvP!Post, Inv!Moved, InvP!Moved,
         Inv!LedgerRow, InvP!LedgerRow

LEMMA SameInventory ==
  /\ Inv!InvInit => InvP!InvInit
  /\ [Inv!InvNext]_(Inv!invVars) => [InvP!InvNext]_(InvP!invVars)
  <1>1. Inv!InvInit => InvP!InvInit
    BY DEF Inv!InvInit, InvP!InvInit, Inv!TxnType, InvP!TxnType
  <1>2. ASSUME NEW w, Inv!AdjustWrite(w)
        PROVE  InvP!AdjustWrite(w)
    BY <1>2 DEF Inv!AdjustWrite, InvP!AdjustWrite, Inv!RowOf, InvP!RowOf
  <1> QED
    BY <1>1, <1>2, SameReserve, SameConfirm, SameRelease
       DEF Inv!InvNext, InvP!InvNext, Inv!invVars, InvP!invVars

\* The operations of order-service, likewise.
LEMMA SameOrders ==
  /\ Ord!OrdInit => OrdP!OrdInit
  /\ [Ord!OrdNext]_(Ord!ordVars) => [OrdP!OrdNext]_(OrdP!ordVars)
  <1>1. Ord!OrdInit => OrdP!OrdInit
    BY DEF Ord!OrdInit, OrdP!OrdInit, Ord!EventType, OrdP!EventType
  <1>2. ASSUME NEW o, NEW a, NEW seen
        PROVE  Ord!Transition(o, a, seen) <=> OrdP!Transition(o, a, seen)
    BY DEF Ord!Transition, OrdP!Transition, Ord!From, OrdP!From, Ord!To, OrdP!To,
           Ord!AddLog, OrdP!AddLog
  <1>3. ASSUME NEW o
        PROVE  /\ Ord!Create(o) <=> OrdP!Create(o)
               /\ Ord!Cancel(o) <=> OrdP!Cancel(o)
               /\ Ord!Ship(o) <=> OrdP!Ship(o)
               /\ Ord!ConfirmReceipt(o) <=> OrdP!ConfirmReceipt(o)
    BY <1>2 DEF Ord!Create, OrdP!Create, Ord!Cancel, OrdP!Cancel, Ord!Ship, OrdP!Ship,
                Ord!ConfirmReceipt, OrdP!ConfirmReceipt, Ord!Emit, OrdP!Emit,
                Ord!AddLog, OrdP!AddLog
  <1>4. ASSUME NEW m
        PROVE  /\ Ord!Arrive(m) <=> OrdP!Arrive(m)
               /\ Ord!Load(m) <=> OrdP!Load(m)
               /\ Ord!Acknowledge(m) <=> OrdP!Acknowledge(m)
               /\ Ord!Reject(m) <=> OrdP!Reject(m)
               /\ Ord!Crash(m) <=> OrdP!Crash(m)
    BY DEF Ord!Arrive, OrdP!Arrive, Ord!Load, OrdP!Load, Ord!Acknowledge, OrdP!Acknowledge,
           Ord!Reject, OrdP!Reject, Ord!Crash, OrdP!Crash, Ord!Put, OrdP!Put
  <1>5. ASSUME NEW m
        PROVE  Ord!Apply(m) <=> OrdP!Apply(m)
    BY <1>2 DEF Ord!Apply, OrdP!Apply, Ord!NotPending, OrdP!NotPending, Ord!Emit, OrdP!Emit,
                Ord!Put, OrdP!Put
  <1>6. [Ord!OrdNext]_(Ord!ordVars) => [OrdP!OrdNext]_(OrdP!ordVars)
    BY <1>3, <1>4, <1>5 DEF Ord!OrdNext, OrdP!OrdNext, Ord!ordVars, OrdP!ordVars
  <1> QED
    BY <1>1, <1>6

-----------------------------------------------------------------------------
(***************************************************************************)
(* A step of the saga is an operation of the Inventory or leaves its rows  *)
(* alone, and likewise for order-service.                                  *)
(***************************************************************************)
LEMMA InventoryStep == [Next]_vars => [Inv!InvNext]_(Inv!invVars)
  <1> SUFFICES ASSUME [Next]_vars
               PROVE  Inv!InvNext \/ UNCHANGED inventory
    BY DEF inventory, Inv!invVars
  <1> USE DEF Inv!InvNext
  <1>1. ASSUME NEW o \in Orders, ServeReserve(o)
        PROVE  Inv!InvNext \/ UNCHANGED inventory
    BY <1>1 DEF ServeReserve
  <1>2. ASSUME NEW o \in Orders, ServeUndo(o)
        PROVE  Inv!InvNext
    BY <1>2 DEF ServeUndo
  <1>3. ASSUME NEW o \in Orders, ConsumePaid(o)
        PROVE  Inv!InvNext \/ UNCHANGED inventory
    BY <1>3 DEF ConsumePaid
  <1>4. ASSUME NEW o \in Orders, ConsumeCancelled(o)
        PROVE  Inv!InvNext \/ UNCHANGED inventory
    BY <1>4 DEF ConsumeCancelled
  <1>5. ASSUME NEW o \in Orders, NEW s \in Skus, ExpireLine(o, s)
        PROVE  Inv!InvNext
    BY <1>5 DEF ExpireLine
  <1> QED
    BY <1>1, <1>2, <1>3, <1>4, <1>5
       DEF Next, vars, SendReserve, LoseReserve, Reserved, GiveUp, Insert, InsertFails,
           Compensate, Die, LoseUndo, Deliver, Duplicate, CancelOrder, PaymentStep

LEMMA OrdersStep == [Next]_vars => [Ord!OrdNext]_(Ord!ordVars)
  <1> SUFFICES ASSUME [Next]_vars
               PROVE  Ord!OrdNext \/ UNCHANGED orders
    BY DEF orders, Ord!ordVars
  <1> USE DEF Ord!OrdNext
  <1>1. ASSUME NEW o \in Orders, Insert(o) \/ InsertFails(o)
        PROVE  Ord!OrdNext \/ UNCHANGED orders
    BY <1>1 DEF Insert, InsertFails
  <1>2. ASSUME NEW o \in Orders, CancelOrder(o)
        PROVE  Ord!OrdNext
    BY <1>2 DEF CancelOrder
  <1>3. ASSUME NEW m \in Messages, PaymentStep(m)
        PROVE  Ord!OrdNext
    BY <1>3 DEF PaymentStep
  <1> QED
    BY <1>1, <1>2, <1>3
       DEF Next, vars, SendReserve, ServeReserve, LoseReserve, Reserved, GiveUp, Compensate,
           Die, ServeUndo, LoseUndo, Deliver, Duplicate, ConsumePaid, ConsumeCancelled, ExpireLine

(***************************************************************************)
(* The inventory of the saga is the Inventory of catalog-service: what is  *)
(* proved of that module holds through timeouts, requests served late,     *)
(* compensations and duplicated events.                                    *)
(***************************************************************************)
THEOREM SagaIsInventory == Spec => Inv!InvSpec
  <1>1. Init => Inv!InvInit
    BY DEF Init
  <1> QED
    BY <1>1, InventoryStep, PTL DEF Spec, Inv!InvSpec

\* The orders of the saga are those of order-service.
THEOREM SagaIsOrderService == Spec => Ord!OrdSpec
  <1>1. Init => Ord!OrdInit
    BY DEF Init
  <1> QED
    BY <1>1, OrdersStep, PTL DEF Spec, Ord!OrdSpec

LEMMA ProvedSpecs == Spec => InvP!InvSpec /\ OrdP!OrdSpec
  <1>1. Spec => InvP!InvSpec
    BY SagaIsInventory, SameInventory, PTL DEF Inv!InvSpec, InvP!InvSpec
  <1>2. Spec => OrdP!OrdSpec
    BY SagaIsOrderService, SameOrders, PTL DEF Ord!OrdSpec, OrdP!OrdSpec
  <1> QED
    BY <1>1, <1>2

LEMMA RowsTyped == Spec => [](InvP!TypeOK /\ OrdP!OrdTypeOK)
  BY ProvedSpecs, InventoryAssumed, OrderAssumed, InvP!InventoryTyped, OrdP!OrderTyped, PTL

(***************************************************************************)
(* Through the whole saga the counters are what the reservation rows add   *)
(* up to, orders are confirmed whole, and the ledger tells each line once. *)
(***************************************************************************)
THEOREM SagaStockAddsUp ==
  Spec => [](Inv!Conservation /\ Inv!ConfirmedTogether /\ Inv!LedgerOnce)
  <1>1. InvP!Conservation => Inv!Conservation
    BY DEF Inv!Conservation, InvP!Conservation, Inv!UnitsOf, InvP!UnitsOf,
           Inv!Holders, InvP!Holders, InvP!Cardinality, Inv!Cardinality, Cardinality
  <1>2. InvP!ConfirmedTogether => Inv!ConfirmedTogether
    BY SameItems DEF Inv!ConfirmedTogether, InvP!ConfirmedTogether
  <1>3. InvP!LedgerOnce => Inv!LedgerOnce
    BY DEF Inv!LedgerOnce, InvP!LedgerOnce
  <1> QED
    BY <1>1, <1>2, <1>3, ProvedSpecs, InventoryAssumed, InvP!CountersConserved,
       InvP!ConfirmedWhole, InvP!LedgerAgrees, PTL

(***************************************************************************)
(* Through the whole saga a paid order has its order.paid event, and stock *)
(* is given back by one order.cancelled event of a cancelled order.        *)
(***************************************************************************)
THEOREM SagaAnnounces ==
  Spec => [](Ord!PaidIsAnnounced /\ Ord!CancelledIsAnnouncedOnce)
  <1>1. OrdP!PaidIsAnnounced => Ord!PaidIsAnnounced
    BY DEF Ord!PaidIsAnnounced, OrdP!PaidIsAnnounced
  <1>2. OrdP!CancelledIsAnnouncedOnce => Ord!CancelledIsAnnouncedOnce
    BY DEF Ord!CancelledIsAnnouncedOnce, OrdP!CancelledIsAnnouncedOnce
  <1> QED
    BY <1>1, <1>2, ProvedSpecs, OrderAssumed, OrdP!PaidAnnounced, OrdP!CancelledAnnouncedOnce, PTL
-----------------------------------------------------------------------------
\* The requests and events keep their types.
THEOREM SagaTyped == Spec => []SagaTypeOK
  <1>1. Init => SagaTypeOK
    BY DEF Init, SagaTypeOK, ClientState, RequestState, InboxState
  <1>2. SagaTypeOK /\ [Next]_vars => SagaTypeOK'
    <2> SUFFICES ASSUME SagaTypeOK, [Next]_vars
                 PROVE  SagaTypeOK'
      OBVIOUS
    <2> USE DEF SagaTypeOK, ClientState, RequestState, InboxState
    <2>1. ASSUME NEW o \in Orders, NEW e \in CatalogEvent, NEW st \in InboxState
          PROVE  [inbox EXCEPT ![o][e] = st] \in [Orders -> [CatalogEvent -> InboxState]]
      <3>1. inbox[o] \in [CatalogEvent -> InboxState]
        OBVIOUS
      <3>2. [inbox[o] EXCEPT ![e] = st] \in [CatalogEvent -> InboxState]
        BY <3>1
      <3> QED
        BY <3>2
    <2>2. ASSUME NEW o \in Orders, NEW e \in CatalogEvent, Deliver(o, e) \/ Duplicate(o, e)
          PROVE  SagaTypeOK'
      <3>1. inbox' = [inbox EXCEPT ![o][e] = "queued"] /\ UNCHANGED <<client, call, undo>>
        BY <2>2 DEF Deliver, Duplicate
      <3>2. "queued" \in InboxState
        OBVIOUS
      <3>3. inbox' \in [Orders -> [CatalogEvent -> InboxState]]
        BY <2>1, <3>1, <3>2
      <3> QED
        BY <3>1, <3>3
    <2>3. ASSUME NEW o \in Orders, ConsumePaid(o) \/ ConsumeCancelled(o)
          PROVE  SagaTypeOK'
      <3>1. PICK e \in CatalogEvent, st \in InboxState : inbox' = [inbox EXCEPT ![o][e] = st]
        BY <2>3 DEF ConsumePaid, ConsumeCancelled, CatalogEvent
      <3> QED
        BY <2>1, <2>3, <3>1 DEF ConsumePaid, ConsumeCancelled
    <2>4. ASSUME NEW o \in Orders,
                 SendReserve(o) \/ ServeReserve(o) \/ LoseReserve(o) \/ Reserved(o) \/ GiveUp(o)
          PROVE  SagaTypeOK'
      BY <2>4 DEF SendReserve, ServeReserve, LoseReserve, Reserved, GiveUp, ClientTo
    <2>5. ASSUME NEW o \in Orders,
                 \/ Insert(o) \/ InsertFails(o) \/ Compensate(o) \/ Die(o)
                 \/ ServeUndo(o) \/ LoseUndo(o)
          PROVE  SagaTypeOK'
      BY <2>5 DEF Insert, InsertFails, Compensate, Die, ServeUndo, LoseUndo, ClientTo
    <2>6. CASE UNCHANGED sagaVars
      BY <2>6 DEF sagaVars
    <2> QED
      BY <2>2, <2>3, <2>4, <2>5, <2>6 DEF Next, vars, ExpireLine, CancelOrder, PaymentStep
  <1> QED
    BY <1>1, <1>2, PTL DEF Spec

(***************************************************************************)
(* What a step of the saga does to one reservation row.                    *)
(***************************************************************************)
LEMMA LineStep ==
  ASSUME InvP!TypeOK, [Next]_vars, NEW o \in Orders, NEW s \in Skus
  PROVE  \/ resv'[o][s] = resv[o][s]
         \/ resv[o][s] = "NONE" /\ resv'[o][s] = "RESERVED"
         \/ resv[o][s] = "RESERVED" /\ resv'[o][s] \in {"RELEASED", "EXPIRED"}
         \/ /\ resv[o][s] = "RESERVED" /\ resv'[o][s] = "CONFIRMED"
            /\ inbox[o]["order.paid"] = "queued"
  <1> DEFINE Goal == \/ resv'[o][s] = resv[o][s]
                     \/ resv[o][s] = "NONE" /\ resv'[o][s] = "RESERVED"
                     \/ resv[o][s] = "RESERVED" /\ resv'[o][s] \in {"RELEASED", "EXPIRED"}
                     \/ /\ resv[o][s] = "RESERVED" /\ resv'[o][s] = "CONFIRMED"
                        /\ inbox[o]["order.paid"] = "queued"
  <1>0. ASSUME NEW p \in Orders, NEW S, NEW from, NEW to, NEW t, NEW dR, NEW dS,
               InvP!Post(p, InvP!Lines(p, S, from), to, t, dR, dS)
        PROVE  \/ resv'[o][s] = resv[o][s]
               \/ o = p /\ resv[o][s] = from /\ resv'[o][s] = to
    <2> DEFINE L == InvP!Lines(p, S, from)
    <2>1. \A x \in L : resv[p][x] = from
      BY DEF InvP!Lines
    <2>2. InvP!Post(p, L, to, t, dR, dS)
      BY <1>0
    <2> HIDE DEF L
    <2>3. \A q \in Orders, x \in Skus :
            resv'[q][x] = IF q = p /\ x \in L THEN to ELSE resv[q][x]
      BY <2>2, InventoryAssumed, InvP!PostStatus
    <2> QED
      BY <2>1, <2>3
  <1>1. ASSUME NEW p \in Orders, InvP!Reserve(p)
        PROVE  Goal
    BY <1>0, <1>1 DEF InvP!Reserve
  <1>2. ASSUME NEW p \in Orders, InvP!Confirm(p), inbox[p]["order.paid"] = "queued"
        PROVE  Goal
    BY <1>0, <1>2 DEF InvP!Confirm
  <1>3. ASSUME NEW p \in Orders, NEW S, NEW st \in {"RELEASED", "EXPIRED"}, InvP!ReleaseAs(p, S, st)
        PROVE  Goal
    BY <1>0, <1>3 DEF InvP!ReleaseAs
  <1>4. ASSUME NEW p \in Orders, ServeReserve(p)
        PROVE  Goal
    BY <1>1, <1>4, SameReserve DEF ServeReserve, inventory
  <1>5. ASSUME NEW p \in Orders, ConsumePaid(p)
        PROVE  Goal
    BY <1>2, <1>5, SameConfirm DEF ConsumePaid, inventory
  <1>6. ASSUME NEW p \in Orders, NEW x \in Skus,
               ServeUndo(p) \/ ConsumeCancelled(p) \/ ExpireLine(p, x)
        PROVE  Goal
    BY <1>3, <1>6, SameRelease
       DEF ServeUndo, ConsumeCancelled, ExpireLine, inventory,
           InvP!ReleaseItems, InvP!ReleaseOpen, InvP!Expire
  <1>7. CASE UNCHANGED inventory
    BY <1>7 DEF inventory
  <1> QED
    BY <1>4, <1>5, <1>6, <1>7
       DEF Next, vars, SendReserve, LoseReserve, Reserved, GiveUp, Insert, InsertFails,
           Compensate, Die, LoseUndo, Deliver, Duplicate, CancelOrder, PaymentStep
\* What a step of the saga does to the status and the order.paid events of an order.
LEMMA OrderRowStep ==
  ASSUME OrdP!OrdTypeOK, [Next]_vars, NEW o \in Orders
  PROVE  /\ emitted[o]["order.paid"] \in Nat
         /\ emitted'[o]["order.paid"] \in Nat
         /\ emitted'[o]["order.paid"] >= emitted[o]["order.paid"]
         /\ status[o] # "NONE" => status'[o] # "NONE"
  <1>1. [OrdP!OrdNext]_(OrdP!ordVars)
    BY OrdersStep, SameOrders
  <1>2. \A u \in OrdP!EventType : emitted[o][u] \in Nat
    BY DEF OrdP!OrdTypeOK
  <1>3. "order.paid" \in OrdP!EventType
    BY DEF OrdP!EventType
  <1> QED
    BY <1>1, <1>2, <1>3, OrderAssumed, OrdP!OrderStep DEF OrdP!EventType, OrdP!From, OrdP!To

-----------------------------------------------------------------------------
(***************************************************************************)
(* An order whose every line has a reservation row.  The row of an order   *)
(* is inserted after a served reserve request only, and no line loses its  *)
(* reservation row, whatever its status becomes.                           *)
(***************************************************************************)
HasLines(o) == \A s \in Inv!ItemsOf(o) : resv[o][s] # "NONE"

ReservedFirst ==
  \A o \in Orders :
    call[o] = "served" \/ client[o] = "inserting" \/ status[o] # "NONE" => HasLines(o)

LEMMA LinesStay ==
  ASSUME InvP!TypeOK, [Next]_vars, NEW o \in Orders, HasLines(o)
  PROVE  HasLines(o)'
  <1>1. \A s \in Inv!ItemsOf(o) : s \in Skus
    BY DEF Inv!ItemsOf
  <1>2. Inv!ItemsOf(o)' = Inv!ItemsOf(o)
    BY DEF Inv!ItemsOf
  <1> QED
    BY <1>1, <1>2, LineStep DEF HasLines

\* A reserve request that was served has left no line without its row.
LEMMA ServedHasLines ==
  ASSUME InvP!TypeOK, NEW o \in Orders, Inv!Reserve(o)
  PROVE  HasLines(o)'
  <1> DEFINE L == InvP!Lines(o, InvP!ItemsOf(o), "NONE")
  <1>1. InvP!Post(o, L, "RESERVED", "RESERVE", 1, 0)
    BY SameReserve DEF InvP!Reserve
  <1>2. ASSUME NEW s \in Inv!ItemsOf(o)
        PROVE  s \in Skus /\ (resv[o][s] = "NONE" => s \in L)
    BY SameItems DEF InvP!Lines, InvP!ItemsOf
  <1> HIDE DEF L
  <1>3. \A q \in Orders, x \in Skus :
          resv'[q][x] = IF q = o /\ x \in L THEN "RESERVED" ELSE resv[q][x]
    BY <1>1, InventoryAssumed, InvP!PostStatus
  <1>4. Inv!ItemsOf(o)' = Inv!ItemsOf(o)
    BY DEF Inv!ItemsOf
  <1> QED
    BY <1>2, <1>3, <1>4 DEF HasLines

(***************************************************************************)
(* No order without stock.  Inductive with what the served request and the *)
(* handler about to insert know.                                           *)
(***************************************************************************)
THEOREM ReservedBeforeOrder == Spec => []OrdersWereReserved
  <1>1. Init => ReservedFirst
    BY DEF Init, ReservedFirst, Ord!OrdInit
  <1>2. SagaTypeOK /\ InvP!TypeOK /\ OrdP!OrdTypeOK /\ ReservedFirst /\ [Next]_vars
          => ReservedFirst'
    <2> SUFFICES ASSUME SagaTypeOK, InvP!TypeOK, OrdP!OrdTypeOK, ReservedFirst, [Next]_vars,
                        NEW o \in Orders,
                        call'[o] = "served" \/ client'[o] = "inserting" \/ status'[o] # "NONE"
                 PROVE  HasLines(o)'
      BY DEF ReservedFirst
    <2>1. HasLines(o) => HasLines(o)'
      BY LinesStay
    <2>2. call[o] = "served" \/ client[o] = "inserting" \/ status[o] # "NONE" => HasLines(o)
      BY DEF ReservedFirst
    <2>3. ASSUME NEW p \in Orders, ServeReserve(p)
          PROVE  HasLines(o)'
      <3>1. CASE Inv!Reserve(p) /\ p = o
        BY <3>1, ServedHasLines
      <3>2. CASE ~(Inv!Reserve(p) /\ p = o)
        <4>1. call[o] = "served" \/ client[o] = "inserting" \/ status[o] # "NONE"
          BY <2>3, <3>2 DEF ServeReserve, SagaTypeOK, orders
        <4> QED
          BY <2>1, <2>2, <4>1
      <3> QED
        BY <3>1, <3>2
    <2>4. ASSUME NEW p \in Orders, Reserved(p)
          PROVE  HasLines(o)'
      BY <2>1, <2>2, <2>4 DEF Reserved, ClientTo, SagaTypeOK, orders
    <2>5. ASSUME NEW p \in Orders, Insert(p) \/ InsertFails(p)
          PROVE  HasLines(o)'
      <3>1. client[p] = "inserting" /\ call' = call
        BY <2>5 DEF Insert, InsertFails, ClientTo
      <3>2. o # p => status'[o] = status[o] /\ client'[o] = client[o]
        BY <2>5 DEF Insert, InsertFails, ClientTo, Ord!Create, orders, SagaTypeOK, OrdP!OrdTypeOK
      <3> QED
        BY <2>1, <2>2, <3>1, <3>2
    <2>6. ASSUME NEW p \in Orders,
                 SendReserve(p) \/ LoseReserve(p) \/ GiveUp(p) \/ Compensate(p) \/ Die(p)
          PROVE  HasLines(o)'
      BY <2>1, <2>2, <2>6
         DEF SendReserve, LoseReserve, GiveUp, Compensate, Die, ClientTo, SagaTypeOK, orders
    <2>7. CASE UNCHANGED <<call, client, status>>
      BY <2>1, <2>2, <2>7
    <2>8. ASSUME \E p \in Orders : CancelOrder(p)
          PROVE  HasLines(o)'
      <3>1. PICK p \in Orders : CancelOrder(p)
        BY <2>8
      <3>2. status[o] # "NONE" \/ call[o] = "served" \/ client[o] = "inserting"
        BY <3>1 DEF CancelOrder, Ord!Cancel, Ord!Transition, Ord!From, sagaVars, OrdP!OrdTypeOK
      <3> QED
        BY <2>1, <2>2, <3>2
    <2>9. ASSUME NEW m \in Messages, PaymentStep(m)
          PROVE  HasLines(o)'
      <3>1. status[o] # "NONE" \/ call[o] = "served" \/ client[o] = "inserting"
        BY <2>9 DEF PaymentStep, Ord!Arrive, Ord!Load, Ord!Apply, Ord!Transition, Ord!NotPending,
                    Ord!From, sagaVars, OrdP!OrdTypeOK
      <3> QED
        BY <2>1, <2>2, <3>1
    <2> QED
      BY <2>3, <2>4, <2>5, <2>6, <2>7, <2>8, <2>9
         DEF Next, vars, ServeUndo, LoseUndo, Deliver, Duplicate, ConsumePaid, ConsumeCancelled,
             ExpireLine, CancelOrder, PaymentStep, orders, sagaVars
  <1>3. ReservedFirst => OrdersWereReserved
    BY DEF ReservedFirst, OrdersWereReserved, HasLines
  <1> QED
    BY <1>1, <1>2, <1>3, SagaTyped, RowsTyped, PTL DEF Spec
-----------------------------------------------------------------------------
(***************************************************************************)
(* Stock is sold only for a payment.  Inductive with the event that comes  *)
(* between: an order.paid event the catalogue has seen was committed by    *)
(* order-service, and no event is taken back from the outbox.              *)
(***************************************************************************)
SeenWasEmitted ==
  \A o \in Orders : inbox[o]["order.paid"] # "none" => emitted[o]["order.paid"] > 0

\* An order.paid event gets to the catalogue only once it is in the outbox.
LEMMA InboxStep ==
  ASSUME SagaTypeOK, [Next]_vars, NEW o \in Orders
  PROVE  \/ inbox'[o]["order.paid"] = inbox[o]["order.paid"]
         \/ inbox[o]["order.paid"] = "none" /\ emitted[o]["order.paid"] > 0
                                           /\ inbox'[o]["order.paid"] = "queued"
         \/ inbox[o]["order.paid"] # "none" /\ inbox'[o]["order.paid"] \in {"queued", "rejected"}
         \/ Inv!Confirm(o) /\ inbox[o]["order.paid"] = "queued"
  <1> DEFINE Goal ==
         \/ inbox'[o]["order.paid"] = inbox[o]["order.paid"]
         \/ inbox[o]["order.paid"] = "none" /\ emitted[o]["order.paid"] > 0
                                           /\ inbox'[o]["order.paid"] = "queued"
         \/ inbox[o]["order.paid"] # "none" /\ inbox'[o]["order.paid"] \in {"queued", "rejected"}
         \/ Inv!Confirm(o) /\ inbox[o]["order.paid"] = "queued"
  <1>1. ASSUME NEW p \in Orders, NEW t \in CatalogEvent, NEW st,
               inbox' = [inbox EXCEPT ![p][t] = st]
        PROVE  inbox'[o]["order.paid"] = IF p = o /\ t = "order.paid" THEN st
                                         ELSE inbox[o]["order.paid"]
    <2>1. "order.paid" \in CatalogEvent
      BY DEF CatalogEvent
    <2>2. inbox[p] \in [CatalogEvent -> InboxState]
      BY DEF SagaTypeOK
    <2>3. inbox' = [inbox EXCEPT ![p] = [inbox[p] EXCEPT ![t] = st]]
      BY <1>1
    <2> QED
      BY <2>1, <2>2, <2>3 DEF SagaTypeOK
  <1>2. ASSUME NEW p \in Orders, NEW t \in CatalogEvent, Deliver(p, t) \/ Duplicate(p, t)
        PROVE  Goal
    BY <1>1, <1>2 DEF Deliver, Duplicate
  <1>3. "order.paid" \in CatalogEvent /\ "order.cancelled" \in CatalogEvent
    BY DEF CatalogEvent
  <1>4. ASSUME NEW p \in Orders, ConsumePaid(p)
        PROVE  Goal
    BY <1>1, <1>3, <1>4 DEF ConsumePaid
  <1>5. ASSUME NEW p \in Orders, ConsumeCancelled(p)
        PROVE  Goal
    BY <1>1, <1>3, <1>5 DEF ConsumeCancelled
  <1>6. CASE UNCHANGED inbox
    BY <1>6
  <1> QED
    BY <1>2, <1>4, <1>5, <1>6
       DEF Next, vars, SendReserve, ServeReserve, LoseReserve, Reserved, GiveUp, Insert,
           InsertFails, Compensate, Die, ServeUndo, LoseUndo, ExpireLine, CancelOrder,
           PaymentStep, sagaVars

THEOREM SoldForPayment == Spec => []SoldOnlyIfPaid
  <1> DEFINE Paid == SeenWasEmitted /\ SoldOnlyIfPaid
  <1>1. Init => Paid
    BY DEF Init, SeenWasEmitted, SoldOnlyIfPaid, CatalogEvent, Inv!InvInit
  <1>2. SagaTypeOK /\ InvP!TypeOK /\ OrdP!OrdTypeOK /\ Paid /\ [Next]_vars => Paid'
    <2> SUFFICES ASSUME SagaTypeOK, InvP!TypeOK, OrdP!OrdTypeOK, Paid, [Next]_vars
                 PROVE  Paid'
      OBVIOUS
    <2>1. ASSUME NEW o \in Orders, inbox'[o]["order.paid"] # "none"
          PROVE  emitted'[o]["order.paid"] > 0
      <3>1. emitted[o]["order.paid"] > 0
        BY <2>1, InboxStep DEF SeenWasEmitted
      <3> QED
        BY <3>1, OrderRowStep
    <2>2. ASSUME NEW o \in Orders, NEW s \in Skus, resv'[o][s] = "CONFIRMED"
          PROVE  emitted'[o]["order.paid"] > 0
      <3>1. resv[o][s] = "CONFIRMED" \/ inbox[o]["order.paid"] = "queued"
        BY <2>2, LineStep
      <3>2. emitted[o]["order.paid"] > 0
        BY <3>1 DEF SeenWasEmitted, SoldOnlyIfPaid
      <3> QED
        BY <3>2, OrderRowStep
    <2> QED
      BY <2>1, <2>2 DEF SeenWasEmitted, SoldOnlyIfPaid
  <1> QED
    BY <1>1, <1>2, SagaTyped, RowsTyped, PTL DEF Spec

(***************************************************************************)
(* An accepted order.paid event has sold every line, and no line that was  *)
(* sold is moved again.  Inductive with the types.                         *)
(***************************************************************************)
THEOREM AcceptedSoldAll == Spec => []AcceptedMeansSold
  <1>1. Init => AcceptedMeansSold
    BY DEF Init, AcceptedMeansSold, CatalogEvent
  <1>2. SagaTypeOK /\ InvP!TypeOK /\ AcceptedMeansSold /\ [Next]_vars => AcceptedMeansSold'
    <2> SUFFICES ASSUME SagaTypeOK, InvP!TypeOK, AcceptedMeansSold, [Next]_vars,
                        NEW o \in Orders, inbox'[o]["order.paid"] = "done",
                        NEW s \in Inv!ItemsOf(o)
                 PROVE  resv'[o][s] = "CONFIRMED"
      BY DEF AcceptedMeansSold, Inv!ItemsOf
    <2>1. s \in Skus
      BY DEF Inv!ItemsOf
    <2>2. CASE inbox[o]["order.paid"] = "done"
      <3>1. resv[o][s] = "CONFIRMED"
        BY <2>2 DEF AcceptedMeansSold
      <3> QED
        BY <2>1, <3>1, LineStep
    <2>3. CASE inbox[o]["order.paid"] # "done"
      <3>1. InvP!Confirm(o)
        BY <2>3, InboxStep, SameConfirm
      <3> DEFINE L == InvP!Lines(o, InvP!ItemsOf(o), "RESERVED")
      <3>2. InvP!Post(o, L, "CONFIRMED", "CONFIRM", -1, 1)
        BY <3>1 DEF InvP!Confirm
      <3>3. s \in L \/ resv[o][s] = "CONFIRMED"
        BY <3>1, SameItems DEF InvP!Confirm, InvP!CanConfirm, InvP!Lines
      <3> HIDE DEF L
      <3>4. \A q \in Orders, x \in Skus :
              resv'[q][x] = IF q = o /\ x \in L THEN "CONFIRMED" ELSE resv[q][x]
        BY <3>2, InventoryAssumed, InvP!PostStatus
      <3> QED
        BY <2>1, <3>3, <3>4
    <2> QED
      BY <2>2, <2>3
  <1> QED
    BY <1>1, <1>2, SagaTyped, RowsTyped, PTL DEF Spec
=============================================================================
