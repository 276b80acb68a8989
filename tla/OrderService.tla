---------------------------- MODULE OrderService ----------------------------
(***************************************************************************)
(* The orders rows of order-service, their status log and the events put   *)
(* in the outbox, under the buyer's and the administrator's calls and the  *)
(* consumer of payment.succeeded.                                          *)
(*                                                                         *)
(* cancel, ship and confirm_receipt load the row for the first time with   *)
(* SELECT ... FOR UPDATE and commit once: each is atomic.  The handler of  *)
(* payment.succeeded first loads the row without a lock; its later SELECT  *)
(* ... FOR UPDATE locks the row but does not refresh the object already in *)
(* the session, so it decides on the status seen first.  It is two         *)
(* actions, and any call may commit between them.                          *)
(***************************************************************************)
EXTENDS Integers, Sequences

CONSTANTS
  Orders,      \* order numbers
  Messages,    \* payment.succeeded messages the broker delivers
  MsgOrder,    \* the order each message is for
  MaxCrashes   \* bound: times a consumer dies before its acknowledgement

ASSUME OrderAssumption ==
  /\ MsgOrder \in [Messages -> Orders]
  /\ MaxCrashes \in Nat

VARIABLES
  status,    \* orders.status, "NONE" before the row exists
  log,       \* log[o]: order_status_logs rows of o, oldest first
  emitted,   \* emitted[o][t]: outbox rows of type t written for o
  msg,       \* where each message is, and the status its handler has seen
  crashes    \* consumer crashes so far

ordVars == <<status, log, emitted, msg, crashes>>

OrderStatus == {"NONE", "PENDING_PAYMENT", "PAID", "SHIPPED", "RECEIVED", "CANCELLED"}
EventType == {"order.created", "order.paid", "order.cancelled", "order.shipped"}
LogRow == [from : OrderStatus, to : OrderStatus]
\* "unsent", then "queued", "loaded" (row read), "done" (to be acknowledged),
\* and "gone": acknowledged, or rejected ("lost"), which drops it.
Stage == {"unsent", "queued", "loaded", "done", "gone", "lost"}
Message == [at : Stage, seen : OrderStatus]

(***************************************************************************)
(* _TRANSITIONS, the actions something calls.  No code requests            *)
(* TIMEOUT_CLOSE, CLOSE_RELEASED, AUTO_COMPLETE or the two refund actions, *)
(* so the statuses only they reach are left out.                           *)
(***************************************************************************)
From(action) ==
  CASE action = "PAYMENT_SUCCEEDED" -> "PENDING_PAYMENT"
    [] action = "BUYER_CANCEL"      -> "PENDING_PAYMENT"
    [] action = "SHIP"              -> "PAID"
    [] action = "BUYER_CONFIRM"     -> "SHIPPED"

To(action) ==
  CASE action = "PAYMENT_SUCCEEDED" -> "PAID"
    [] action = "BUYER_CANCEL"      -> "CANCELLED"
    [] action = "SHIP"              -> "SHIPPED"
    [] action = "BUYER_CONFIRM"     -> "RECEIVED"

-----------------------------------------------------------------------------
OrdInit ==
  /\ status = [o \in Orders |-> "NONE"]
  /\ log = [o \in Orders |-> << >>]
  /\ emitted = [o \in Orders |-> [t \in EventType |-> 0]]
  /\ msg = [m \in Messages |-> [at |-> "unsent", seen |-> "NONE"]]
  /\ crashes = 0

Emit(o, t) == emitted' = [emitted EXCEPT ![o][t] = @ + 1]

AddLog(o, row) == log' = [log EXCEPT ![o] = Append(@, row)]

(***************************************************************************)
(* The UPDATE of transition and the log row it adds.  seen is the status   *)
(* of the object in the session.  The UPDATE changes the row only when the *)
(* row still has that status and version; its row count is not looked at.  *)
(* The session applies the UPDATE to its object before the log row is      *)
(* built, so from_status is the new status.                                *)
(***************************************************************************)
\* Variant: the UPDATE names the order only.
TransitionUnguarded(o, action, seen) ==
  /\ seen = From(action)
  /\ status' = [status EXCEPT ![o] = To(action)]
  /\ AddLog(o, [from |-> To(action), to |-> To(action)])

Transition(o, action, seen) ==
  /\ seen = From(action)
  /\ status' = [status EXCEPT ![o] = IF @ = seen THEN To(action) ELSE @]
  /\ AddLog(o, [from |-> To(action), to |-> To(action)])

\* create_order once the stock is reserved: the row, its log row, its event.
Create(o) ==
  /\ status[o] = "NONE"
  /\ status' = [status EXCEPT ![o] = "PENDING_PAYMENT"]
  /\ AddLog(o, [from |-> "NONE", to |-> "PENDING_PAYMENT"])
  /\ Emit(o, "order.created")
  /\ UNCHANGED <<msg, crashes>>

\* Variant: a refused transition still emits the event.
CancelAnyway(o) ==
  /\ status[o] # "NONE"
  /\ \/ Transition(o, "BUYER_CANCEL", status[o])
     \/ status[o] # "PENDING_PAYMENT" /\ UNCHANGED <<status, log>>
  /\ Emit(o, "order.cancelled")
  /\ UNCHANGED <<msg, crashes>>

Cancel(o) ==
  /\ Transition(o, "BUYER_CANCEL", status[o])
  /\ Emit(o, "order.cancelled")
  /\ UNCHANGED <<msg, crashes>>

Ship(o) ==
  /\ Transition(o, "SHIP", status[o])
  /\ Emit(o, "order.shipped")
  /\ UNCHANGED <<msg, crashes>>

ConfirmReceipt(o) ==
  /\ Transition(o, "BUYER_CONFIRM", status[o])
  /\ UNCHANGED <<emitted, msg, crashes>>

-----------------------------------------------------------------------------
(***************************************************************************)
(* payment.succeeded.  Only an order the buyer has been told about can be  *)
(* paid, so a message appears once the order exists; two messages for one  *)
(* order are two payments, or one event published twice.                   *)
(***************************************************************************)
Put(m, at, seen) == msg' = [msg EXCEPT ![m] = [at |-> at, seen |-> seen]]

Arrive(m) ==
  /\ msg[m].at = "unsent"
  /\ status[MsgOrder[m]] # "NONE"
  /\ Put(m, "queued", "NONE")
  /\ UNCHANGED <<status, log, emitted, crashes>>

\* The first SELECT, without a lock: a CANCELLED order ends the handler.
Load(m) ==
  /\ msg[m].at = "queued"
  /\ LET seen == status[MsgOrder[m]] IN
       Put(m, IF seen = "CANCELLED" THEN "done" ELSE "loaded", seen)
  /\ UNCHANGED <<status, log, emitted, crashes>>

\* A transition that was refused for any status but PAID is not an early
\* return: the event is written all the same.
NotPending(o, seen) ==
  /\ seen # "PENDING_PAYMENT"
  /\ UNCHANGED <<status, log>>
  /\ IF seen = "PAID" THEN UNCHANGED emitted ELSE Emit(o, "order.paid")

\* Variant: the event is committed by the session of its own, later.
ApplyWithoutEvent(m) ==
  LET o == MsgOrder[m]  seen == msg[m].seen IN
    /\ msg[m].at = "loaded"
    /\ \/ Transition(o, "PAYMENT_SUCCEEDED", seen) /\ UNCHANGED emitted
       \/ NotPending(o, seen)
    /\ Put(m, "done", seen)
    /\ UNCHANGED crashes

Apply(m) ==
  LET o == MsgOrder[m]  seen == msg[m].seen IN
    /\ msg[m].at = "loaded"
    /\ \/ Transition(o, "PAYMENT_SUCCEEDED", seen) /\ Emit(o, "order.paid")
       \/ NotPending(o, seen)
    /\ Put(m, "done", seen)
    /\ UNCHANGED crashes

Acknowledge(m) ==
  /\ msg[m].at = "done"
  /\ Put(m, "gone", msg[m].seen)
  /\ UNCHANGED <<status, log, emitted, crashes>>

\* An exception in the handler rejects the message without requeueing it, and
\* no queue is bound to the dead-letter exchange.
Reject(m) ==
  /\ msg[m].at \in {"queued", "loaded"}
  /\ Put(m, "lost", msg[m].seen)
  /\ UNCHANGED <<status, log, emitted, crashes>>

\* Variant: messages are acknowledged when they are delivered.
CrashAfterEarlyAck(m) ==
  /\ crashes < MaxCrashes
  /\ msg[m].at \in {"loaded", "done"}
  /\ Put(m, "gone", msg[m].seen)
  /\ crashes' = crashes + 1
  /\ UNCHANGED <<status, log, emitted>>

\* The consumer dies before its acknowledgement: the broker redelivers.
Crash(m) ==
  /\ crashes < MaxCrashes
  /\ msg[m].at \in {"loaded", "done"}
  /\ Put(m, "queued", "NONE")
  /\ crashes' = crashes + 1
  /\ UNCHANGED <<status, log, emitted>>

-----------------------------------------------------------------------------
OrdNext ==
  \/ \E o \in Orders : Create(o)
  \/ \E o \in Orders : Cancel(o)
  \/ \E o \in Orders : Ship(o)
  \/ \E o \in Orders : ConfirmReceipt(o)
  \/ \E m \in Messages : Arrive(m)
  \/ \E m \in Messages : Load(m)
  \/ \E m \in Messages : Apply(m)
  \/ \E m \in Messages : Acknowledge(m)
  \/ \E m \in Messages : Reject(m)
  \/ \E m \in Messages : Crash(m)

OrdSpec == OrdInit /\ [][OrdNext]_ordVars

(***************************************************************************)
(* The consumer runs its handler on every message the broker delivers, to  *)
(* the end.  Nothing makes anyone pay, cancel, ship or crash.              *)
(***************************************************************************)
OrdFairSpec ==
  OrdSpec /\ \A m \in Messages : WF_ordVars(Load(m)) /\ WF_ordVars(Apply(m))
-----------------------------------------------------------------------------
OrdTypeOK ==
  /\ status \in [Orders -> OrderStatus]
  /\ log \in [Orders -> Seq(LogRow)]
  /\ emitted \in [Orders -> [EventType -> Nat]]
  /\ msg \in [Messages -> Message]
  /\ crashes \in 0..MaxCrashes

(***************************************************************************)
(* The status moves only along the table, although the payment handler     *)
(* decides on a status it read before its lock: a cancelled order is not   *)
(* revived, and a shipped one is not put back to PAID (the status and      *)
(* version conditions of the UPDATE in transition).                        *)
(***************************************************************************)
Legal(from, to) ==
  \/ to = from
  \/ from = "NONE" /\ to = "PENDING_PAYMENT"
  \/ \E a \in {"PAYMENT_SUCCEEDED", "BUYER_CANCEL", "SHIP", "BUYER_CONFIRM"} :
       from = From(a) /\ to = To(a)

FollowsTable == [][\A o \in Orders : Legal(status[o], status'[o])]_ordVars

(***************************************************************************)
(* Every order that was ever paid has an order.paid event in the outbox,   *)
(* whatever crashed, was redelivered or was cancelled meanwhile (the event *)
(* is written by the transaction that makes the order PAID).               *)
(***************************************************************************)
PaidIsAnnounced ==
  \A o \in Orders : status[o] \in {"PAID", "SHIPPED", "RECEIVED"}
                      => emitted[o]["order.paid"] > 0

(***************************************************************************)
(* Stock is given back by exactly one order.cancelled event, and only for  *)
(* an order that is CANCELLED: a second cancel, or one that lost against   *)
(* the payment, is refused with ORD-5006 before it writes the event.       *)
(***************************************************************************)
CancelledIsAnnouncedOnce ==
  \A o \in Orders :
    emitted[o]["order.cancelled"] = IF status[o] = "CANCELLED" THEN 1 ELSE 0

(***************************************************************************)
(* A payment the broker has delivered is not forgotten: its order leaves   *)
(* PENDING_PAYMENT unless the handler raised and the message was rejected. *)
(* A consumer that dies gets the message again (on_message of mq.py).      *)
(***************************************************************************)
PaymentApplied ==
  \A m \in Messages :
    msg[m].at = "queued"
      ~> status[MsgOrder[m]] # "PENDING_PAYMENT" \/ msg[m].at = "lost"

(***************************************************************************)
(* What the design says of order.paid: it is written when the status goes  *)
(* to PAID, so an order that has the event was paid and not cancelled.     *)
(***************************************************************************)
PaidEventMeansPaid ==
  \A o \in Orders : emitted[o]["order.paid"] > 0
                      => status[o] \in {"PAID", "SHIPPED", "RECEIVED"}
=============================================================================
