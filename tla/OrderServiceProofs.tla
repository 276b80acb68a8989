-------------------------- MODULE OrderServiceProofs --------------------------
(***************************************************************************)
(* What holds of the orders rows for any number of orders, messages and    *)
(* consumer crashes.                                                       *)
(***************************************************************************)
EXTENDS OrderService, TLAPS

Actions == {"PAYMENT_SUCCEEDED", "BUYER_CANCEL", "SHIP", "BUYER_CONFIRM"}

\* The types of what the helpers write.
LEMMA EmitTyped ==
  ASSUME OrdTypeOK, NEW o \in Orders, NEW t \in EventType, Emit(o, t)
  PROVE  /\ emitted' \in [Orders -> [EventType -> Nat]]
         /\ \A p \in Orders, u \in EventType :
              emitted'[p][u] = IF p = o /\ u = t THEN emitted[p][u] + 1 ELSE emitted[p][u]
  <1>1. emitted[o] \in [EventType -> Nat]
    BY DEF OrdTypeOK
  <1>2. [emitted[o] EXCEPT ![t] = emitted[o][t] + 1] \in [EventType -> Nat]
    BY <1>1
  <1>3. emitted' = [emitted EXCEPT ![o] = [emitted[o] EXCEPT ![t] = emitted[o][t] + 1]]
    BY DEF Emit
  <1> QED
    BY <1>1, <1>2, <1>3 DEF OrdTypeOK

LEMMA TransitionTyped ==
  ASSUME OrdTypeOK, NEW o \in Orders, NEW a \in Actions, NEW seen,
         Transition(o, a, seen)
  PROVE  /\ status' \in [Orders -> OrderStatus]
         /\ log' \in [Orders -> Seq(LogRow)]
         /\ \A p \in Orders :
              status'[p] = IF p = o /\ status[p] = From(a) THEN To(a) ELSE status[p]
  <1>1. To(a) \in OrderStatus
    BY DEF Actions, To, OrderStatus
  <1>2. [from |-> To(a), to |-> To(a)] \in LogRow
    BY <1>1 DEF LogRow
  <1>3. log' \in [Orders -> Seq(LogRow)]
    <2> DEFINE row == [from |-> To(a), to |-> To(a)]
    <2>1. log' = [log EXCEPT ![o] = Append(log[o], row)] /\ row \in LogRow
      BY <1>2 DEF Transition, AddLog
    <2> HIDE DEF row
    <2>2. log[o] \in Seq(LogRow)
      BY DEF OrdTypeOK
    <2>3. Append(log[o], row) \in Seq(LogRow)
      BY <2>1, <2>2
    <2> QED
      BY <2>1, <2>3 DEF OrdTypeOK
  <1>4. status' = [status EXCEPT ![o] = IF status[o] = From(a) THEN To(a) ELSE status[o]]
    BY DEF Transition
  <1>5. status' \in [Orders -> OrderStatus]
    BY <1>1, <1>4 DEF OrdTypeOK
  <1> QED
    BY <1>3, <1>4, <1>5 DEF OrdTypeOK

LEMMA PutTyped ==
  ASSUME OrdTypeOK, NEW m \in Messages, NEW at \in Stage, NEW seen \in OrderStatus,
         Put(m, at, seen)
  PROVE  msg' \in [Messages -> Message]
  BY DEF OrdTypeOK, Put, Message

LEMMA MessageTyped ==
  ASSUME OrdTypeOK, NEW m \in Messages
  PROVE  MsgOrder[m] \in Orders /\ msg[m].seen \in OrderStatus
                                /\ status[MsgOrder[m]] \in OrderStatus
  BY OrderAssumption DEF OrdTypeOK, Message

(***************************************************************************)
(* The four things a step can do to an order row, its log and its events,  *)
(* whichever call or message does it.                                      *)
(***************************************************************************)
Created(o) ==
  /\ status[o] = "NONE"
  /\ status' = [status EXCEPT ![o] = "PENDING_PAYMENT"]
  /\ AddLog(o, [from |-> "NONE", to |-> "PENDING_PAYMENT"])
  /\ Emit(o, "order.created")

Paid(o) == Transition(o, "PAYMENT_SUCCEEDED", "PENDING_PAYMENT") /\ Emit(o, "order.paid")

Announced(o) == UNCHANGED <<status, log>> /\ Emit(o, "order.paid")

Untouched == UNCHANGED <<status, log, emitted>>

LEMMA OrdCases ==
  ASSUME [OrdNext]_ordVars
  PROVE  \/ \E o \in Orders : Created(o)
         \/ \E o \in Orders : Cancel(o)
         \/ \E o \in Orders : Ship(o)
         \/ \E o \in Orders : ConfirmReceipt(o)
         \/ \E m \in Messages : Paid(MsgOrder[m])
         \/ \E m \in Messages : Announced(MsgOrder[m])
         \/ Untouched
  <1>1. ASSUME NEW m \in Messages, Apply(m)
        PROVE  Paid(MsgOrder[m]) \/ Announced(MsgOrder[m]) \/ Untouched
    BY <1>1 DEF Apply, Paid, Announced, Untouched, NotPending, Transition, From
  <1> QED
    BY <1>1 DEF OrdNext, Created, Create, Arrive, Load, Acknowledge, Reject, Crash,
                Untouched, ordVars

(***************************************************************************)
(* The variables of order-service keep their types.                        *)
(***************************************************************************)
THEOREM OrderTyped == OrdSpec => []OrdTypeOK
  <1>1. OrdInit => OrdTypeOK
    BY OrderAssumption DEF OrdInit, OrdTypeOK, OrderStatus, EventType, Message, Stage
  <1>2. OrdTypeOK /\ [OrdNext]_ordVars => OrdTypeOK'
    <2> SUFFICES ASSUME OrdTypeOK, [OrdNext]_ordVars
                 PROVE  OrdTypeOK'
      OBVIOUS
    <2>1. msg' \in [Messages -> Message] /\ crashes' \in 0..MaxCrashes
      <3>1. ASSUME NEW m \in Messages, Arrive(m) \/ Load(m) \/ Acknowledge(m) \/ Reject(m)
            PROVE  msg' \in [Messages -> Message] /\ crashes' \in 0..MaxCrashes
        BY <3>1, MessageTyped, PutTyped
           DEF Arrive, Load, Acknowledge, Reject, Stage, OrderStatus, OrdTypeOK
      <3>2. ASSUME NEW m \in Messages, Apply(m)
            PROVE  msg' \in [Messages -> Message] /\ crashes' \in 0..MaxCrashes
        <4>1. Put(m, "done", msg[m].seen) /\ crashes' = crashes
          BY <3>2 DEF Apply
        <4> QED
          BY <4>1, MessageTyped, PutTyped DEF Stage, OrdTypeOK
      <3>3. ASSUME NEW m \in Messages, Crash(m)
            PROVE  msg' \in [Messages -> Message] /\ crashes' \in 0..MaxCrashes
        <4>1. Put(m, "queued", "NONE")
          BY <3>3 DEF Crash
        <4>2. crashes' \in 0..MaxCrashes
          BY <3>3, OrderAssumption DEF Crash, OrdTypeOK
        <4> QED
          BY <4>1, <4>2, PutTyped DEF Stage, OrderStatus
      <3>4. CASE UNCHANGED <<msg, crashes>>
        BY <3>4 DEF OrdTypeOK
      <3> QED
        BY <3>1, <3>2, <3>3, <3>4
           DEF OrdNext, Create, Cancel, Ship, ConfirmReceipt, ordVars
    <2>2. /\ status' \in [Orders -> OrderStatus]
          /\ log' \in [Orders -> Seq(LogRow)]
          /\ emitted' \in [Orders -> [EventType -> Nat]]
      <3>1. ASSUME NEW o \in Orders, Created(o)
            PROVE  <2>2!1 /\ <2>2!2 /\ <2>2!3
        <4> DEFINE row == [from |-> "NONE", to |-> "PENDING_PAYMENT"]
        <4>1. row \in LogRow
          BY DEF LogRow, OrderStatus
        <4>2. log' = [log EXCEPT ![o] = Append(log[o], row)]
          BY <3>1 DEF Created, AddLog
        <4> HIDE DEF row
        <4>3. Append(log[o], row) \in Seq(LogRow)
          <5>1. log[o] \in Seq(LogRow)
            BY DEF OrdTypeOK
          <5> QED
            BY <4>1, <5>1
        <4>4. log' \in [Orders -> Seq(LogRow)]
          BY <4>2, <4>3 DEF OrdTypeOK
        <4>5. emitted' \in [Orders -> [EventType -> Nat]]
          BY <3>1, EmitTyped DEF Created, EventType
        <4>6. status' \in [Orders -> OrderStatus]
          BY <3>1 DEF Created, OrdTypeOK, OrderStatus
        <4> QED
          BY <4>4, <4>5, <4>6
      <3>2. ASSUME NEW o \in Orders, Cancel(o)
            PROVE  <2>2!1 /\ <2>2!2 /\ <2>2!3
        BY <3>2, TransitionTyped, EmitTyped DEF Cancel, Actions, EventType
      <3>3. ASSUME NEW o \in Orders, Ship(o)
            PROVE  <2>2!1 /\ <2>2!2 /\ <2>2!3
        BY <3>3, TransitionTyped, EmitTyped DEF Ship, Actions, EventType
      <3>4. ASSUME NEW o \in Orders, ConfirmReceipt(o)
            PROVE  <2>2!1 /\ <2>2!2 /\ <2>2!3
        BY <3>4, TransitionTyped DEF ConfirmReceipt, Actions, OrdTypeOK
      <3>5. ASSUME NEW o \in Orders, Paid(o)
            PROVE  <2>2!1 /\ <2>2!2 /\ <2>2!3
        BY <3>5, TransitionTyped, EmitTyped DEF Paid, Actions, EventType
      <3>6. ASSUME NEW o \in Orders, Announced(o)
            PROVE  <2>2!1 /\ <2>2!2 /\ <2>2!3
        BY <3>6, EmitTyped DEF Announced, EventType, OrdTypeOK
      <3>7. CASE Untouched
        BY <3>7 DEF Untouched, OrdTypeOK
      <3> QED
        BY <3>1, <3>2, <3>3, <3>4, <3>5, <3>6, <3>7, OrdCases, MessageTyped
    <2> QED
      BY <2>1, <2>2 DEF OrdTypeOK
  <1> QED
    BY <1>1, <1>2, PTL DEF OrdSpec

-----------------------------------------------------------------------------
(***************************************************************************)
(* What a step does to the status and the events of one order.             *)
(***************************************************************************)
LEMMA OrderStep ==
  ASSUME OrdTypeOK, [OrdNext]_ordVars, NEW o \in Orders
  PROVE  LET moves(a, t) == /\ status[o] = From(a) /\ status'[o] = To(a)
                            /\ \A u \in EventType : emitted'[o][u] =
                                  IF u = t THEN emitted[o][u] + 1 ELSE emitted[o][u]
         IN  \/ /\ status[o] = "NONE" /\ status'[o] = "PENDING_PAYMENT"
                /\ \A u \in EventType : emitted'[o][u] =
                      IF u = "order.created" THEN emitted[o][u] + 1 ELSE emitted[o][u]
             \/ moves("BUYER_CANCEL", "order.cancelled")
             \/ moves("SHIP", "order.shipped")
             \/ moves("BUYER_CONFIRM", "none")
             \/ moves("PAYMENT_SUCCEEDED", "order.paid")
             \/ /\ status'[o] = status[o]
                /\ \A u \in EventType \ {"order.paid"} : emitted'[o][u] = emitted[o][u]
                /\ emitted'[o]["order.paid"] \in {emitted[o]["order.paid"], emitted[o]["order.paid"] + 1}
  <1> DEFINE Same == status'[o] = status[o] /\ emitted'[o] = emitted[o]
  <1>1. CASE \E p \in Orders : Created(p)
    <2>1. PICK p \in Orders : Created(p)
      BY <1>1
    <2>2. p # o => Same
      BY <2>1 DEF Created, Emit, OrdTypeOK
    <2>3. p = o => /\ status[o] = "NONE" /\ status'[o] = "PENDING_PAYMENT"
                   /\ \A u \in EventType : emitted'[o][u] =
                         IF u = "order.created" THEN emitted[o][u] + 1 ELSE emitted[o][u]
      BY <2>1, EmitTyped DEF Created, EventType, OrdTypeOK
    <2> QED
      BY <2>2, <2>3 DEF EventType
  <1>2. ASSUME NEW p \in Orders, NEW a \in Actions, NEW t \in EventType,
               Transition(p, a, From(a)), Emit(p, t)
        PROVE  /\ p # o => Same
               /\ p = o => \A u \in EventType : emitted'[o][u] =
                             IF u = t THEN emitted[o][u] + 1 ELSE emitted[o][u]
               /\ p = o => status'[o] = IF status[o] = From(a) THEN To(a) ELSE status[o]
    <2>1. p # o => status'[o] = status[o]
      BY <1>2, TransitionTyped
    <2>2. p # o => emitted'[o] = emitted[o]
      BY <1>2 DEF Emit, OrdTypeOK
    <2> QED
      BY <1>2, <2>1, <2>2, TransitionTyped, EmitTyped
  <1>3. CASE \E p \in Orders : Cancel(p)
    <2>1. PICK p \in Orders : Cancel(p)
      BY <1>3
    <2>2. Transition(p, "BUYER_CANCEL", From("BUYER_CANCEL")) /\ Emit(p, "order.cancelled")
          /\ status[p] = From("BUYER_CANCEL")
      BY <2>1 DEF Cancel, Transition
    <2> QED
      BY <1>2, <2>2 DEF Actions, EventType
  <1>4. CASE \E p \in Orders : Ship(p)
    <2>1. PICK p \in Orders : Ship(p)
      BY <1>4
    <2>2. Transition(p, "SHIP", From("SHIP")) /\ Emit(p, "order.shipped")
          /\ status[p] = From("SHIP")
      BY <2>1 DEF Ship, Transition
    <2> QED
      BY <1>2, <2>2 DEF Actions, EventType
  <1>5. CASE \E p \in Orders : ConfirmReceipt(p)
    <2>1. PICK p \in Orders : ConfirmReceipt(p)
      BY <1>5
    <2>2. /\ Transition(p, "BUYER_CONFIRM", From("BUYER_CONFIRM")) /\ emitted' = emitted
          /\ status[p] = From("BUYER_CONFIRM")
      BY <2>1 DEF ConfirmReceipt, Transition
    <2>3. status'[o] = IF o = p THEN To("BUYER_CONFIRM") ELSE status[o]
      BY <2>2, TransitionTyped DEF Actions
    <2> QED
      BY <2>2, <2>3 DEF EventType
  <1>6. CASE \E m \in Messages : Paid(MsgOrder[m])
    <2>1. PICK p \in Orders : Paid(p)
      BY <1>6, MessageTyped
    <2>2. Transition(p, "PAYMENT_SUCCEEDED", From("PAYMENT_SUCCEEDED")) /\ Emit(p, "order.paid")
      BY <2>1 DEF Paid, From
    <2> QED
      BY <1>2, <2>2 DEF Actions, EventType
  <1>7. CASE \E m \in Messages : Announced(MsgOrder[m])
    <2>1. PICK p \in Orders : Announced(p)
      BY <1>7, MessageTyped
    <2> QED
      BY <2>1, EmitTyped DEF Announced, EventType
  <1>8. CASE Untouched
    BY <1>8 DEF Untouched
  <1> QED
    BY <1>1, <1>3, <1>4, <1>5, <1>6, <1>7, <1>8, OrdCases

(***************************************************************************)
(* Every order that was ever paid has its order.paid event in the outbox.  *)
(* Inductive with the types: only the transaction that writes the event    *)
(* makes an order PAID, and only from PAID does it move on.                *)
(***************************************************************************)
THEOREM PaidAnnounced == OrdSpec => []PaidIsAnnounced
  <1>1. OrdInit => PaidIsAnnounced
    BY DEF OrdInit, PaidIsAnnounced
  <1>2. OrdTypeOK /\ PaidIsAnnounced /\ [OrdNext]_ordVars => PaidIsAnnounced'
    <2> SUFFICES ASSUME OrdTypeOK, PaidIsAnnounced, [OrdNext]_ordVars,
                        NEW o \in Orders, status'[o] \in {"PAID", "SHIPPED", "RECEIVED"}
                 PROVE  emitted'[o]["order.paid"] > 0
      BY DEF PaidIsAnnounced
    <2>1. \A u \in EventType : emitted[o][u] \in Nat
      BY DEF OrdTypeOK
    <2> QED
      BY <2>1, OrderStep DEF PaidIsAnnounced, EventType, From, To
  <1> QED
    BY <1>1, <1>2, OrderTyped, PTL DEF OrdSpec

(***************************************************************************)
(* An order is CANCELLED exactly when its one order.cancelled event is in  *)
(* the outbox.  Inductive with the types.                                  *)
(***************************************************************************)
THEOREM CancelledAnnouncedOnce == OrdSpec => []CancelledIsAnnouncedOnce
  <1>1. OrdInit => CancelledIsAnnouncedOnce
    <2> SUFFICES ASSUME OrdInit, NEW o \in Orders
                 PROVE  emitted[o]["order.cancelled"] = 0 /\ status[o] # "CANCELLED"
      BY DEF CancelledIsAnnouncedOnce
    <2> QED
      BY DEF OrdInit, EventType
  <1>2. OrdTypeOK /\ CancelledIsAnnouncedOnce /\ [OrdNext]_ordVars
          => CancelledIsAnnouncedOnce'
    <2> SUFFICES ASSUME OrdTypeOK, CancelledIsAnnouncedOnce, [OrdNext]_ordVars,
                        NEW o \in Orders
                 PROVE  emitted'[o]["order.cancelled"]
                          = IF status'[o] = "CANCELLED" THEN 1 ELSE 0
      BY DEF CancelledIsAnnouncedOnce
    <2>1. \A u \in EventType : emitted[o][u] \in Nat
      BY DEF OrdTypeOK
    <2>2. emitted[o]["order.cancelled"] = IF status[o] = "CANCELLED" THEN 1 ELSE 0
      BY DEF CancelledIsAnnouncedOnce
    <2> QED
      BY <2>1, <2>2, OrderStep DEF EventType, From, To
  <1> QED
    BY <1>1, <1>2, OrderTyped, PTL DEF OrdSpec

(***************************************************************************)
(* Statuses move only along _TRANSITIONS, although the payment handler     *)
(* decides on a status it read before it held the lock.                    *)
(***************************************************************************)
THEOREM StatusFollowsTable == OrdSpec => FollowsTable
  <1>1. OrdTypeOK /\ [OrdNext]_ordVars => \A o \in Orders : Legal(status[o], status'[o])
    <2> SUFFICES ASSUME OrdTypeOK, [OrdNext]_ordVars, NEW o \in Orders
                 PROVE  Legal(status[o], status'[o])
      OBVIOUS
    <2> QED
      BY OrderStep DEF Legal
  <1> QED
    BY <1>1, OrderTyped, PTL DEF OrdSpec, FollowsTable
=============================================================================
