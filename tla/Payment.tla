------------------------------- MODULE Payment -------------------------------
(***************************************************************************)
(* The payments, refunds and payment_transactions rows of payment-service  *)
(* and the events it writes, under create_payment, the channel's callback  *)
(* (settle_paid) and create_refund.                                        *)
(*                                                                         *)
(* settle_paid and create_refund read the payment without a lock and then  *)
(* change it by a conditional UPDATE; what they write next is committed    *)
(* with that UPDATE, under its row lock.  Each is two actions.             *)
(***************************************************************************)
EXTENDS Integers, Sequences, FiniteSets, FiniteSetsExt

CONSTANTS
  Payments,       \* payment numbers
  Orders,         \* order numbers
  Channels,       \* payment channels
  Amounts,        \* amounts a client asks to pay
  ThirdPartyIds,  \* ids the channel gives its payments
  Hooks,          \* callbacks handled at the same time
  Requests,       \* refund requests handled at the same time
  Keys,           \* Idempotency-Key headers ("" when the header is missing)
  RefundAmounts   \* amounts a refund request asks for

ASSUME PaymentAssumption ==
  /\ Amounts \subseteq Int
  /\ RefundAmounts \subseteq Int

VARIABLES
  pay,       \* the payments rows
  refunds,   \* the refunds rows
  income,    \* income[p]: IN rows of payment_transactions
  settled,   \* settled[p]: payment.succeeded events in the outbox
  totals,    \* totals[p]: amount and running total of each payment.refunded event
  hook,      \* callbacks that have read their payment
  req        \* refund requests that have read their payment

payVars == <<pay, refunds, income, settled, totals, hook, req>>

NoRow == [status |-> "NONE"]
PaymentRow == [status : {"PENDING", "SUCCEEDED"}, order : Orders, channel : Channels,
               amount : Amounts, refunded : Int, tp : ThirdPartyIds \cup {"none"}]
RefundRow == [key : Keys, payment : Payments, amount : RefundAmounts]
RefundEvent == [amount : RefundAmounts, total : Int]
Idle == [at |-> "idle"]
HookState == {Idle} \cup [at : {"loaded"}, payment : Payments, tp : ThirdPartyIds]
RequestState == {Idle} \cup
  [at : {"loaded"}, payment : Payments, amount : RefundAmounts, key : Keys, seen : Int]

PayInit ==
  /\ pay = [p \in Payments |-> NoRow]
  /\ refunds = {}
  /\ income = [p \in Payments |-> 0]
  /\ settled = [p \in Payments |-> 0]
  /\ totals = [p \in Payments |-> << >>]
  /\ hook = [h \in Hooks |-> Idle]
  /\ req = [r \in Requests |-> Idle]

-----------------------------------------------------------------------------
(***************************************************************************)
(* create_payment: an active payment of the order and channel is returned  *)
(* as it is; the partial unique index makes a concurrent second insert     *)
(* fail.  Neither the order nor the amount is checked.                     *)
(***************************************************************************)
Active(q, o, c) == pay[q].status = "PENDING" /\ pay[q].order = o /\ pay[q].channel = c

CreatePayment(p, o, c, a) ==
  /\ pay[p].status = "NONE"
  /\ \A q \in Payments : ~Active(q, o, c)
  /\ pay' = [pay EXCEPT ![p] =
       [status |-> "PENDING", order |-> o, channel |-> c, amount |-> a,
        refunded |-> 0, tp |-> "none"]]
  /\ UNCHANGED <<refunds, income, settled, totals, hook, req>>

(***************************************************************************)
(* The channel's callback, which may come any number of times, also at the *)
(* same time.  A payment read as SUCCEEDED is answered at once.            *)
(***************************************************************************)
HookLoad(h, p, id) ==
  /\ hook[h] = Idle
  /\ pay[p].status = "PENDING"
  /\ hook' = [hook EXCEPT ![h] = [at |-> "loaded", payment |-> p, tp |-> id]]
  /\ UNCHANGED <<pay, refunds, income, settled, totals, req>>

\* uk_payments_third_party: no other payment of the channel has the id.
IdIsFree(p, id) ==
  \A q \in Payments \ {p} :
    pay[q].status = "SUCCEEDED" /\ pay[q].channel = pay[p].channel => pay[q].tp # id

\* Variant: the UPDATE does not ask for PENDING.
SettlesAnyStatus(p, id) == pay[p].status # "NONE" /\ IdIsFree(p, id)

Settles(p, id) == pay[p].status = "PENDING" /\ IdIsFree(p, id)

\* _add_txn of the IN row.
Enter(p) == income' = [income EXCEPT ![p] = @ + 1]

\* No row updated is an idempotent answer, a violated index an error: neither
\* changes anything.
HookSettle(h) ==
  /\ hook[h].at = "loaded"
  /\ LET p == hook[h].payment  id == hook[h].tp IN
       IF Settles(p, id)
       THEN /\ pay' = [pay EXCEPT ![p].status = "SUCCEEDED", ![p].tp = id]
            /\ Enter(p)
            /\ settled' = [settled EXCEPT ![p] = @ + 1]
       ELSE UNCHANGED <<pay, income, settled>>
  /\ hook' = [hook EXCEPT ![h] = Idle]
  /\ UNCHANGED <<refunds, totals, req>>

(***************************************************************************)
(* create_refund: only a payment read as SUCCEEDED; then refunded grows if *)
(* the sum stays within the amount, and the refund row, its OUT row and    *)
(* its event are committed with it.  The row is refreshed before the event *)
(* is written, so the event has the total after this refund.               *)
(***************************************************************************)
RefundLoad(r, p, a, k) ==
  /\ req[r] = Idle
  /\ pay[p].status = "SUCCEEDED"
  /\ req' = [req EXCEPT ![r] =
       [at |-> "loaded", payment |-> p, amount |-> a, key |-> k, seen |-> pay[p].refunded]]
  /\ UNCHANGED <<pay, refunds, income, settled, totals, hook>>

\* Variant: the sum is checked on the row that was read.
WithinAmountAsRead(q) == q.seen + q.amount <= pay[q.payment].amount

\* The WHERE of the UPDATE on payments.
WithinAmount(q) == pay[q.payment].refunded + q.amount <= pay[q.payment].amount

\* uk_refunds_idempotency_key
KeyIsFree(k) == \A x \in refunds : x.key # k

\* Variant: the row is not refreshed before the event is written.
TotalAsRead(q) == q.seen + q.amount

\* The row after session.refresh.
TotalAfter(q) == pay[q.payment].refunded + q.amount

RefundApply(r) ==
  /\ req[r].at = "loaded"
  /\ LET q == req[r]  p == q.payment IN
       IF WithinAmount(q) /\ KeyIsFree(q.key)
       THEN /\ pay' = [pay EXCEPT ![p].refunded = @ + q.amount]
            /\ refunds' = refunds \cup {[key |-> q.key, payment |-> p, amount |-> q.amount]}
            /\ totals' = [totals EXCEPT ![p] =
                 Append(@, [amount |-> q.amount, total |-> TotalAfter(q)])]
       ELSE UNCHANGED <<pay, refunds, totals>>
  /\ req' = [req EXCEPT ![r] = Idle]
  /\ UNCHANGED <<income, settled, hook>>

-----------------------------------------------------------------------------
PayNext ==
  \/ \E p \in Payments, o \in Orders, c \in Channels, a \in Amounts : CreatePayment(p, o, c, a)
  \/ \E h \in Hooks, p \in Payments, id \in ThirdPartyIds : HookLoad(h, p, id)
  \/ \E h \in Hooks : HookSettle(h)
  \/ \E r \in Requests, p \in Payments, a \in RefundAmounts, k \in Keys : RefundLoad(r, p, a, k)
  \/ \E r \in Requests : RefundApply(r)

PaySpec == PayInit /\ [][PayNext]_payVars
-----------------------------------------------------------------------------
PayTypeOK ==
  /\ pay \in [Payments -> PaymentRow \cup {NoRow}]
  /\ refunds \subseteq RefundRow
  /\ income \in [Payments -> Nat]
  /\ settled \in [Payments -> Nat]
  /\ totals \in [Payments -> Seq(RefundEvent)]
  /\ hook \in [Hooks -> HookState]
  /\ req \in [Requests -> RequestState]

(***************************************************************************)
(* A payment is entered once: however many callbacks come, one after the   *)
(* other or together, a SUCCEEDED payment has one IN row and one           *)
(* payment.succeeded event, and any other payment has none (the row count  *)
(* of the conditional UPDATE in settle_paid).                              *)
(***************************************************************************)
SettledOnce ==
  \A p \in Payments :
    LET once == IF pay[p].status = "SUCCEEDED" THEN 1 ELSE 0
    IN  income[p] = once /\ settled[p] = once

(***************************************************************************)
(* The refunds rows of a payment add up to its refunded_amount_cents, and  *)
(* once there is one, to no more than was paid, whatever requests raced.   *)
(***************************************************************************)
RefundsAddUp ==
  \A p \in Payments : pay[p].status # "NONE" =>
    LET mine == {x \in refunds : x.payment = p}
        amountOf(x) == x.amount
        paidBack == MapThenSumSet(amountOf, mine)
    IN  paidBack = pay[p].refunded /\ (mine # {} => paidBack <= pay[p].amount)

(***************************************************************************)
(* The payment.refunded events tell the running total: each one adds its   *)
(* amount to the total of the event before, and the last one states what   *)
(* the row states (session.refresh in create_refund).                      *)
(***************************************************************************)
TotalsRun ==
  \A p \in Payments :
    LET told(i) == IF i = 0 THEN 0 ELSE totals[p][i].total
        n == Len(totals[p])
    IN  /\ \A i \in 1..n : told(i) = told(i - 1) + totals[p][i].amount
        /\ pay[p].status # "NONE" => pay[p].refunded = told(n)
=============================================================================
