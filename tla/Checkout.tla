------------------------------- MODULE Checkout -------------------------------
(***************************************************************************)
(* The checkout saga across services: create_order of order-service        *)
(* reserves stock over HTTP before it inserts the order, and compensates   *)
(* when the insert fails; order.paid and order.cancelled travel from its   *)
(* outbox to catalog-service, which confirms or releases the stock.  The   *)
(* rows of each side and the operations on them are those of the modules   *)
(* Inventory and OrderService; this module adds what happens between.      *)
(*                                                                         *)
(* The HTTP client waits three seconds.  A request may be served long      *)
(* after its caller gave up, or never.  Manual adjustments, shipping and   *)
(* the broker's redelivery to order-service are left to the two modules.   *)
(***************************************************************************)
EXTENDS Integers, FiniteSets, Sequences

CONSTANTS Orders, Skus, MaxQty, Qty, InitialStock, Messages, MsgOrder

ASSUME SagaAssumption ==
  /\ IsFiniteSet(Orders)
  /\ MaxQty \in Nat
  /\ Qty \in [Orders -> [Skus -> 0..MaxQty]]
  /\ InitialStock \in [Skus -> Int]
  /\ MsgOrder \in [Messages -> Orders]

VARIABLES
  stock, reserved, sold, resv, ledger, tail, adjust, overwritten,  \* Inventory
  status, log, emitted, msg, crashes,                              \* OrderService
  client,  \* client[o]: where the create_order call of o stands
  call,    \* call[o]: its reserve request, on the catalog side
  undo,    \* undo[o]: the release request of its compensation
  inbox    \* inbox[o][t]: the event of type t in catalog-service's queue

Inv == INSTANCE Inventory WITH Admins <- {}, AdjustQty <- {}, Targets <- {}
Ord == INSTANCE OrderService WITH MaxCrashes <- 0

inventory == <<stock, reserved, sold, resv, ledger, tail, adjust, overwritten>>
orders == <<status, log, emitted, msg, crashes>>
sagaVars == <<client, call, undo, inbox>>
vars == <<inventory, orders, sagaVars>>

\* "gaveup" is the error answer after a failed reserve call, "failed" the one
\* after the compensation.
ClientState == {"idle", "calling", "inserting", "undoing", "placed", "gaveup", "failed"}
RequestState == {"none", "sent", "served", "refused", "lost"}
CatalogEvent == {"order.paid", "order.cancelled"}
InboxState == {"none", "queued", "done", "rejected"}

Init ==
  /\ Inv!InvInit
  /\ Ord!OrdInit
  /\ client = [o \in Orders |-> "idle"]
  /\ call = [o \in Orders |-> "none"]
  /\ undo = [o \in Orders |-> "none"]
  /\ inbox = [o \in Orders |-> [t \in CatalogEvent |-> "none"]]

ClientTo(o, from, to) == client[o] = from /\ client' = [client EXCEPT ![o] = to]

-----------------------------------------------------------------------------
(***************************************************************************)
(* create_order, step one: the reserve call.                               *)
(***************************************************************************)
SendReserve(o) ==
  /\ ClientTo(o, "idle", "calling")
  /\ call' = [call EXCEPT ![o] = "sent"]
  /\ UNCHANGED <<inventory, orders, undo, inbox>>

ServeReserve(o) ==
  /\ call[o] = "sent"
  /\ \/ Inv!Reserve(o) /\ call' = [call EXCEPT ![o] = "served"]
     \/ /\ ~Inv!CanReserve(o)
        /\ call' = [call EXCEPT ![o] = "refused"]
        /\ UNCHANGED inventory
  /\ UNCHANGED <<orders, client, undo, inbox>>

LoseReserve(o) ==
  /\ call[o] = "sent"
  /\ call' = [call EXCEPT ![o] = "lost"]
  /\ UNCHANGED <<inventory, orders, client, undo, inbox>>

\* Variant: a 409 answer is taken for an idempotent replay.
ReservedOrRefused(o) ==
  /\ call[o] \in {"served", "refused"}
  /\ ClientTo(o, "calling", "inserting")
  /\ UNCHANGED <<inventory, orders, call, undo, inbox>>

Reserved(o) ==
  /\ call[o] = "served"
  /\ ClientTo(o, "calling", "inserting")
  /\ UNCHANGED <<inventory, orders, call, undo, inbox>>

\* A refusal (ORD-5001), a transport error or a timeout (ORD-7002), whatever
\* the catalogue did or is still to do with the request.
GiveUp(o) ==
  /\ ClientTo(o, "calling", "gaveup")
  /\ UNCHANGED <<inventory, orders, call, undo, inbox>>

(***************************************************************************)
(* create_order, step two: the insert and its commit.  The exception that  *)
(* starts the compensation may come before the commit, or from a commit    *)
(* whose answer was lost.                                                  *)
(***************************************************************************)
Insert(o) ==
  /\ ClientTo(o, "inserting", "placed")
  /\ Ord!Create(o)
  /\ UNCHANGED <<inventory, call, undo, inbox>>

InsertFails(o) ==
  /\ ClientTo(o, "inserting", "undoing")
  /\ Ord!Create(o) \/ UNCHANGED orders
  /\ UNCHANGED <<inventory, call, undo, inbox>>

\* release_stock swallows its own errors; ORD-8001 is raised either way.
Compensate(o) ==
  /\ ClientTo(o, "undoing", "failed")
  /\ undo' = [undo EXCEPT ![o] = "sent"]
  /\ UNCHANGED <<inventory, orders, call, inbox>>

\* order-service dies between two steps of the saga.
Die(o) ==
  /\ client[o] \in {"calling", "inserting", "undoing"}
  /\ client' = [client EXCEPT ![o] = "failed"]
  /\ UNCHANGED <<inventory, orders, call, undo, inbox>>

ServeUndo(o) ==
  /\ undo[o] = "sent"
  /\ Inv!ReleaseOpen(o)
  /\ undo' = [undo EXCEPT ![o] = "served"]
  /\ UNCHANGED <<orders, client, call, inbox>>

LoseUndo(o) ==
  /\ undo[o] = "sent"
  /\ undo' = [undo EXCEPT ![o] = "lost"]
  /\ UNCHANGED <<inventory, orders, client, call, inbox>>

-----------------------------------------------------------------------------
(***************************************************************************)
(* The outbox publishes each event at least once (Deliver, Duplicate); the *)
(* consumers of catalog-service run one call each.  A call that raises has *)
(* its message rejected and changes nothing.                               *)
(***************************************************************************)
\* Variant: the event is published from the handler, before its commit.
DeliverBeforeCommit(o, t) ==
  /\ inbox[o][t] = "none"
  /\ \/ emitted[o][t] > 0
     \/ t = "order.paid" /\ \E m \in Messages : MsgOrder[m] = o /\ msg[m].at = "loaded"
  /\ inbox' = [inbox EXCEPT ![o][t] = "queued"]
  /\ UNCHANGED <<inventory, orders, client, call, undo>>

Deliver(o, t) ==
  /\ inbox[o][t] = "none"
  /\ emitted[o][t] > 0
  /\ inbox' = [inbox EXCEPT ![o][t] = "queued"]
  /\ UNCHANGED <<inventory, orders, client, call, undo>>

Duplicate(o, t) ==
  /\ inbox[o][t] \in {"done", "rejected"}
  /\ inbox' = [inbox EXCEPT ![o][t] = "queued"]
  /\ UNCHANGED <<inventory, orders, client, call, undo>>

\* handle_order_paid; an exception of any kind rejects the message for good.
ConsumePaid(o) ==
  /\ inbox[o]["order.paid"] = "queued"
  /\ \/ Inv!Confirm(o) /\ inbox' = [inbox EXCEPT ![o]["order.paid"] = "done"]
     \/ /\ inbox' = [inbox EXCEPT ![o]["order.paid"] = "rejected"]
        /\ UNCHANGED inventory
  /\ UNCHANGED <<orders, client, call, undo>>

\* Variant: the event is handled only when no other event of the order came.
ConsumeCancelledUnlessPaid(o) ==
  /\ inbox[o]["order.cancelled"] = "queued"
  /\ inbox[o]["order.paid"] = "none"
  /\ Inv!ReleaseItems(o)
  /\ inbox' = [inbox EXCEPT ![o]["order.cancelled"] = "done"]
  /\ UNCHANGED <<orders, client, call, undo>>

\* handle_order_cancelled
ConsumeCancelled(o) ==
  /\ inbox[o]["order.cancelled"] = "queued"
  /\ \/ /\ Inv!ReleaseItems(o)
        /\ inbox' = [inbox EXCEPT ![o]["order.cancelled"] = "done"]
     \/ /\ inbox' = [inbox EXCEPT ![o]["order.cancelled"] = "rejected"]
        /\ UNCHANGED inventory
  /\ UNCHANGED <<orders, client, call, undo>>

-----------------------------------------------------------------------------
\* Steps of one service alone.
ExpireLine(o, s) == Inv!Expire(o, s) /\ UNCHANGED <<orders, sagaVars>>

CancelOrder(o) == Ord!Cancel(o) /\ UNCHANGED <<inventory, sagaVars>>

PaymentStep(m) ==
  /\ Ord!Arrive(m) \/ Ord!Load(m) \/ Ord!Apply(m)
  /\ UNCHANGED <<inventory, sagaVars>>

Next ==
  \/ \E o \in Orders : SendReserve(o)
  \/ \E o \in Orders : ServeReserve(o)
  \/ \E o \in Orders : LoseReserve(o)
  \/ \E o \in Orders : Reserved(o)
  \/ \E o \in Orders : GiveUp(o)
  \/ \E o \in Orders : Insert(o)
  \/ \E o \in Orders : InsertFails(o)
  \/ \E o \in Orders : Compensate(o)
  \/ \E o \in Orders : Die(o)
  \/ \E o \in Orders : ServeUndo(o)
  \/ \E o \in Orders : LoseUndo(o)
  \/ \E o \in Orders, t \in CatalogEvent : Deliver(o, t)
  \/ \E o \in Orders, t \in CatalogEvent : Duplicate(o, t)
  \/ \E o \in Orders : ConsumePaid(o)
  \/ \E o \in Orders : ConsumeCancelled(o)
  \/ \E o \in Orders, s \in Skus : ExpireLine(o, s)
  \/ \E o \in Orders : CancelOrder(o)
  \/ \E m \in Messages : PaymentStep(m)

Spec == Init /\ [][Next]_vars

(***************************************************************************)
(* Fairness, stated apart because each liveness property assumes its own.  *)
(* Requests are served or lost in the end and the expiry job runs every    *)
(* minute: no buyer and no event has to do anything.                       *)
(***************************************************************************)
ExpiryRuns ==
  /\ \A o \in Orders : WF_vars(ServeReserve(o) \/ LoseReserve(o))
  /\ \A o \in Orders, s \in Skus : WF_vars(ExpireLine(o, s))

\* The outbox publishes and the consumers run; the expiry job need not.
EventsRun ==
  \A o \in Orders : /\ WF_vars(\E t \in CatalogEvent : Deliver(o, t))
                    /\ WF_vars(ConsumePaid(o))
                    /\ WF_vars(ConsumeCancelled(o))
-----------------------------------------------------------------------------
\* The requests and events have their types.
SagaTypeOK ==
  /\ client \in [Orders -> ClientState]
  /\ call \in [Orders -> RequestState]
  /\ undo \in [Orders -> RequestState]
  /\ inbox \in [Orders -> [CatalogEvent -> InboxState]]

(***************************************************************************)
(* No order without stock: once the orders row exists, every line of the   *)
(* order has been reserved (it may have been released since), whatever was *)
(* refused, lost, timed out or compensated (create_order reserves first).  *)
(***************************************************************************)
OrdersWereReserved ==
  \A o \in Orders :
    status[o] # "NONE" => \A s \in Inv!ItemsOf(o) : resv[o][s] # "NONE"

(***************************************************************************)
(* Stock is sold only for a payment: a CONFIRMED line belongs to an order  *)
(* whose order.paid event was committed by order-service.                  *)
(***************************************************************************)
SoldOnlyIfPaid ==
  \A o \in Orders, s \in Skus :
    resv[o][s] = "CONFIRMED" => emitted[o]["order.paid"] > 0

(***************************************************************************)
(* An order.paid event that the catalogue accepted has sold every line of  *)
(* the order, whatever the expiry job, the cancellation and the            *)
(* compensation did to some of them meanwhile.                             *)
(***************************************************************************)
AcceptedMeansSold ==
  \A o \in Orders :
    inbox[o]["order.paid"] = "done"
      => \A s \in Inv!ItemsOf(o) : resv[o][s] = "CONFIRMED"

(***************************************************************************)
(* No stock leaks: from some time on, an order that create_order reported  *)
(* as failed holds no reservation, although its reserve request may be     *)
(* served after the failure and its compensation lost (the expiry job).    *)
(***************************************************************************)
FailedOrdersHoldNothing ==
  ExpiryRuns =>
    \A o \in Orders :
      <>[](client[o] \in {"gaveup", "failed"}
             => \A s \in Skus : resv[o][s] # "RESERVED")

(***************************************************************************)
(* The order.cancelled event alone gives the stock of a cancelled order    *)
(* back, without the expiry job, in whatever order it meets order.paid,    *)
(* unless its handler fails and the message is rejected.                   *)
(***************************************************************************)
CancelledGivesBack ==
  EventsRun =>
    \A o \in Orders :
      status[o] = "CANCELLED"
        ~> \/ inbox[o]["order.cancelled"] = "rejected"
           \/ \A s \in Skus : resv[o][s] # "RESERVED"
=============================================================================
