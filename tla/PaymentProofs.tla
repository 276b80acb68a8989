---------------------------- MODULE PaymentProofs ----------------------------
(***************************************************************************)
(* Proofs about Payment, for any payments, callbacks and refund requests.  *)
(*                                                                         *)
(* A callback decides twice: on the payment it read, and by the condition  *)
(* of its UPDATE.  Only the second decision counts: SettledOnce needs no   *)
(* fact about what a callback read, beyond its type.  Of a refund too only *)
(* the condition of the UPDATE and the unique key count (MoneyInv).        *)
(***************************************************************************)
EXTENDS Payment, TLAPS, FiniteSetTheorems, SequenceTheorems, WellFoundedInduction

LEMMA PayInitTyped == PayInit => PayTypeOK
  <1> SUFFICES ASSUME PayInit PROVE PayTypeOK
    OBVIOUS
  <1>1. pay \in [Payments -> PaymentRow \cup {NoRow}]
    BY DEF PayInit
  <1>2. totals \in [Payments -> Seq(RefundEvent)]
    BY DEF PayInit
  <1>3. hook \in [Hooks -> HookState] /\ req \in [Requests -> RequestState]
    BY DEF PayInit, HookState, RequestState
  <1>4. QED
    BY <1>1, <1>2, <1>3 DEF PayInit, PayTypeOK

\* A new row has its type.
LEMMA CreateTyped ==
  ASSUME PayTypeOK, NEW p \in Payments, NEW o \in Orders, NEW c \in Channels,
         NEW a \in Amounts, CreatePayment(p, o, c, a)
  PROVE  PayTypeOK'
  <1>1. [status |-> "PENDING", order |-> o, channel |-> c, amount |-> a,
         refunded |-> 0, tp |-> "none"] \in PaymentRow
    BY DEF PaymentRow
  <1>2. pay' \in [Payments -> PaymentRow \cup {NoRow}]
    BY <1>1 DEF CreatePayment, PayTypeOK
  <1>3. QED
    BY <1>2 DEF CreatePayment, PayTypeOK

\* A callback that has read is a loaded state of its hook.
LEMMA LoadTyped ==
  ASSUME PayTypeOK, NEW h \in Hooks, NEW p \in Payments, NEW id \in ThirdPartyIds,
         HookLoad(h, p, id)
  PROVE  PayTypeOK'
  <1>1. [at |-> "loaded", payment |-> p, tp |-> id] \in HookState
    BY DEF HookState
  <1>2. hook' \in [Hooks -> HookState]
    BY <1>1 DEF HookLoad, PayTypeOK
  <1>3. QED
    BY <1>2 DEF HookLoad, PayTypeOK

\* What a loaded callback names.
LEMMA LoadedHook ==
  ASSUME PayTypeOK, NEW h \in Hooks, hook[h].at = "loaded"
  PROVE  hook[h].payment \in Payments /\ hook[h].tp \in ThirdPartyIds
  <1>1. hook[h] \in HookState
    BY DEF PayTypeOK
  <1>2. hook[h] # Idle
    BY DEF Idle
  <1>3. QED
    BY <1>1, <1>2 DEF HookState

\* What a loaded request names.
LEMMA LoadedRequest ==
  ASSUME PayTypeOK, NEW r \in Requests, req[r].at = "loaded"
  PROVE  req[r] \in [at : {"loaded"}, payment : Payments, amount : RefundAmounts,
                     key : Keys, seen : Int]
  <1>1. req[r] \in RequestState
    BY DEF PayTypeOK
  <1>2. req[r] # Idle
    BY DEF Idle
  <1>3. QED
    BY <1>1, <1>2 DEF RequestState

\* A row that is not NoRow is a payment.
LEMMA ARow ==
  ASSUME PayTypeOK, NEW p \in Payments, pay[p].status # "NONE"
  PROVE  pay[p] \in PaymentRow
  <1>1. pay[p] \in PaymentRow \cup {NoRow}
    BY DEF PayTypeOK
  <1>2. pay[p] # NoRow
    BY DEF NoRow
  <1>3. QED
    BY <1>1, <1>2

LEMMA SettleTyped ==
  ASSUME PayTypeOK, NEW h \in Hooks, HookSettle(h)
  PROVE  PayTypeOK'
  <1> DEFINE p == hook[h].payment
             id == hook[h].tp
             row == [pay[p] EXCEPT !.status = "SUCCEEDED", !.tp = id]
  <1>1. p \in Payments /\ id \in ThirdPartyIds
    BY LoadedHook DEF HookSettle, Enter
  <1>2. hook' \in [Hooks -> HookState]
    BY DEF HookSettle, Enter, PayTypeOK, HookState
  <1>3. CASE Settles(p, id)
    <2>1. pay[p] \in PaymentRow
      BY <1>1, <1>3, ARow DEF Settles
    <2>2. row \in PaymentRow
      BY <1>1, <2>1 DEF PaymentRow
    <2>3. pay' = [pay EXCEPT ![p] = row]
      BY <1>3 DEF HookSettle, Enter
    <2>4. pay' \in [Payments -> PaymentRow \cup {NoRow}]
      <3> HIDE DEF row, p
      <3> QED
        BY <2>2, <2>3 DEF PayTypeOK
    <2>5. income' \in [Payments -> Nat] /\ settled' \in [Payments -> Nat]
      <3>1. /\ income' = [income EXCEPT ![p] = income[p] + 1]
            /\ settled' = [settled EXCEPT ![p] = settled[p] + 1]
        BY <1>3 DEF HookSettle, Enter
      <3>2. p \in Payments
        BY <1>1
      <3>3. income \in [Payments -> Nat] /\ settled \in [Payments -> Nat]
        BY DEF PayTypeOK
      <3> HIDE DEF p
      <3>4. income[p] + 1 \in Nat /\ settled[p] + 1 \in Nat
        BY <3>2, <3>3
      <3>5. QED
        BY <3>1, <3>3, <3>4
    <2>6. QED
      BY <1>2, <2>4, <2>5 DEF HookSettle, Enter, PayTypeOK
  <1>4. CASE ~Settles(p, id)
    BY <1>2, <1>4 DEF HookSettle, Enter, PayTypeOK
  <1>5. QED
    BY <1>3, <1>4

LEMMA RequestTyped ==
  ASSUME PayTypeOK, NEW r \in Requests, NEW p \in Payments, NEW a \in RefundAmounts,
         NEW k \in Keys, RefundLoad(r, p, a, k)
  PROVE  PayTypeOK'
  <1>1. pay[p] \in PaymentRow
    BY ARow DEF RefundLoad
  <1>2. pay[p].refunded \in Int
    BY <1>1 DEF PaymentRow
  <1>3. [at |-> "loaded", payment |-> p, amount |-> a, key |-> k, seen |-> pay[p].refunded]
          \in RequestState
    BY <1>2 DEF RequestState
  <1>4. req' \in [Requests -> RequestState]
    BY <1>3 DEF RefundLoad, PayTypeOK
  <1>5. QED
    BY <1>4 DEF RefundLoad, PayTypeOK

\* A payment of which more was paid back is a payment: needs that refunds ask
\* for integers and that only an existing payment is refunded (Loaded below).
Loaded == \A r \in Requests : req[r].at = "loaded" => pay[req[r].payment].status # "NONE"

LEMMA RefundTyped ==
  ASSUME PayTypeOK, Loaded, NEW r \in Requests, RefundApply(r)
  PROVE  PayTypeOK'
  <1> DEFINE q == req[r]
             p == q.payment
             row == [pay[p] EXCEPT !.refunded = pay[p].refunded + q.amount]
             refund == [key |-> q.key, payment |-> p, amount |-> q.amount]
             event == [amount |-> q.amount, total |-> TotalAfter(q)]
  <1>1. q \in [at : {"loaded"}, payment : Payments, amount : RefundAmounts,
               key : Keys, seen : Int]
    BY LoadedRequest DEF RefundApply
  <1>2. p \in Payments /\ q.amount \in RefundAmounts /\ q.amount \in Int /\ q.key \in Keys
    BY <1>1, PaymentAssumption
  <1>3. pay[p] \in PaymentRow
    BY <1>2, ARow DEF Loaded, RefundApply
  <1>4. req' \in [Requests -> RequestState]
    BY DEF RefundApply, PayTypeOK, RequestState
  <1>5. CASE WithinAmount(q) /\ KeyIsFree(q.key)
    <2>1. row \in PaymentRow
      BY <1>2, <1>3 DEF PaymentRow
    <2>2. pay' = [pay EXCEPT ![p] = row]
      BY <1>5 DEF RefundApply
    <2>3. pay' \in [Payments -> PaymentRow \cup {NoRow}]
      <3> HIDE DEF row, p
      <3> QED
        BY <2>1, <2>2 DEF PayTypeOK
    <2>4. refund \in RefundRow
      BY <1>2 DEF RefundRow
    <2>5. refunds' = refunds \cup {refund}
      BY <1>5 DEF RefundApply
    <2>6. refunds' \subseteq RefundRow
      <3> HIDE DEF refund
      <3> QED
        BY <2>4, <2>5 DEF PayTypeOK
    <2>7. event \in RefundEvent
      <3>1. TotalAfter(q) \in Int
        BY <1>2, <1>3 DEF TotalAfter, PaymentRow
      <3>2. QED
        BY <1>2, <3>1 DEF RefundEvent
    <2>8. totals' = [totals EXCEPT ![p] = Append(totals[p], event)]
      BY <1>5 DEF RefundApply
    <2>9. totals' \in [Payments -> Seq(RefundEvent)]
      <3> HIDE DEF event, p
      <3>1. p \in Payments => Append(totals[p], event) \in Seq(RefundEvent)
        BY <2>7 DEF PayTypeOK
      <3>2. QED
        BY <2>8, <3>1 DEF PayTypeOK
    <2>10. QED
      BY <1>4, <2>3, <2>6, <2>9 DEF RefundApply, PayTypeOK
  <1>6. CASE ~(WithinAmount(q) /\ KeyIsFree(q.key))
    BY <1>4, <1>6 DEF RefundApply, PayTypeOK
  <1>7. QED
    BY <1>5, <1>6

\* A payment is never taken back, so what a request read is still there.
LEMMA LoadedKept ==
  ASSUME PayTypeOK, Loaded, [PayNext]_payVars
  PROVE  Loaded'
  <1> SUFFICES ASSUME NEW r \in Requests, req'[r].at = "loaded"
               PROVE  pay'[req'[r].payment].status # "NONE"
    BY DEF Loaded
  <1> USE DEF PayTypeOK
  <1>1. ASSUME NEW p \in Payments, pay[p].status # "NONE"
        PROVE  pay'[p].status # "NONE"
    <2>1. ASSUME NEW x \in Payments, NEW o \in Orders, NEW c \in Channels, NEW a \in Amounts,
                 CreatePayment(x, o, c, a)
          PROVE  pay'[p].status # "NONE"
      BY <1>1, <2>1 DEF CreatePayment
    <2>2. ASSUME NEW h \in Hooks, HookSettle(h)
          PROVE  pay'[p].status # "NONE"
      <3> DEFINE x == hook[h].payment
      <3>1. x \in Payments
        BY <2>2, LoadedHook DEF HookSettle, Enter
      <3>2. CASE Settles(x, hook[h].tp)
        <4>1. pay[x] \in PaymentRow
          BY <3>1, <3>2, ARow DEF Settles
        <4>2. pay[p] \in PaymentRow
          BY <1>1, ARow
        <4>3. pay'[p].status = "SUCCEEDED" \/ pay'[p] = pay[p]
          BY <2>2, <3>1, <3>2, <4>1, <4>2 DEF HookSettle, Enter, PaymentRow
        <4>4. QED
          BY <1>1, <4>3
      <3>3. CASE ~Settles(x, hook[h].tp)
        BY <1>1, <2>2, <3>3 DEF HookSettle, Enter
      <3>4. QED
        BY <3>2, <3>3
    <2>3. ASSUME NEW q \in Requests, RefundApply(q)
          PROVE  pay'[p].status # "NONE"
      <3> DEFINE x == req[q].payment
      <3>1. pay' = [pay EXCEPT ![x].refunded = @ + req[q].amount] \/ pay' = pay
        BY <2>3 DEF RefundApply
      <3>2. pay[p] \in PaymentRow
        BY <1>1, ARow
      <3>3. pay'[p].status = pay[p].status
        <4>1. pay'[p] = pay[p] \/ pay'[p] = [pay[p] EXCEPT !.refunded = pay[p].refunded + req[q].amount]
          BY <3>1
        <4>2. QED
          BY <3>2, <4>1 DEF PaymentRow
      <3>4. QED
        BY <1>1, <3>3
    <2>4. CASE UNCHANGED pay
      BY <1>1, <2>4
    <2>5. QED
      BY <2>1, <2>2, <2>3, <2>4 DEF PayNext, HookLoad, RefundLoad, payVars
  <1>2. CASE req'[r] = req[r]
    <2>1. req[r].payment \in Payments
      BY <1>2, LoadedRequest
    <2>2. pay[req[r].payment].status # "NONE"
      BY <1>2 DEF Loaded
    <2>3. QED
      BY <1>1, <1>2, <2>1, <2>2
  <1>3. CASE req'[r] # req[r]
    <2>1. ASSUME NEW q \in Requests, RefundApply(q)
          PROVE  FALSE
      <3>1. req' = [req EXCEPT ![q] = Idle]
        BY <2>1 DEF RefundApply
      <3>2. req'[r] = Idle
        BY <1>3, <3>1
      <3>3. QED
        BY <3>2 DEF Idle
    <2>2. PICK q \in Requests, p \in Payments, a \in RefundAmounts, k \in Keys : RefundLoad(q, p, a, k)
      BY <1>3, <2>1 DEF PayNext, CreatePayment, HookLoad, HookSettle, Enter, payVars
    <2>3. q = r /\ req'[r].payment = p
      BY <1>3, <2>2 DEF RefundLoad
    <2>4. pay' = pay /\ pay[p].status = "SUCCEEDED"
      BY <2>2 DEF RefundLoad
    <2>5. QED
      BY <2>3, <2>4
  <1>4. QED
    BY <1>2, <1>3

LEMMA StepTyped ==
  ASSUME PayTypeOK, Loaded, [PayNext]_payVars
  PROVE  PayTypeOK'
  <1>1. CASE UNCHANGED payVars
    BY <1>1 DEF payVars, PayTypeOK
  <1>2. QED
    BY <1>1, CreateTyped, LoadTyped, SettleTyped, RequestTyped, RefundTyped DEF PayNext

(***************************************************************************)
(* The rows, events, callbacks and requests of payment-service stay in     *)
(* their types, whatever payments, amounts and callbacks there are         *)
(* (create_payment, settle_paid, create_refund).  Not by itself: a refund  *)
(* adds to a row, and the row must exist (Loaded).                         *)
(***************************************************************************)
THEOREM PaymentTyped == PaySpec => []PayTypeOK
  <1>1. PayInit => Loaded
    BY DEF PayInit, Loaded, Idle
  <1>2. PayTypeOK /\ Loaded /\ [PayNext]_payVars => PayTypeOK' /\ Loaded'
    BY StepTyped, LoadedKept
  <1>3. QED
    BY PayInitTyped, <1>1, <1>2, PTL DEF PaySpec

-----------------------------------------------------------------------------
\* The callback enters a payment: it was PENDING, so it was not entered yet.
LEMMA SettleOnce ==
  ASSUME PayTypeOK, SettledOnce, NEW h \in Hooks, HookSettle(h)
  PROVE  SettledOnce'
  <1> DEFINE x == hook[h].payment
  <1>1. x \in Payments
    BY LoadedHook DEF HookSettle, Enter
  <1> SUFFICES ASSUME NEW p \in Payments
               PROVE  LET once == IF pay'[p].status = "SUCCEEDED" THEN 1 ELSE 0
                      IN  income'[p] = once /\ settled'[p] = once
    BY DEF SettledOnce
  <1>2. CASE Settles(x, hook[h].tp) /\ p = x
    <2>1. pay[x] \in PaymentRow /\ pay[x].status = "PENDING"
      BY <1>1, <1>2, ARow DEF Settles
    <2>2. income[x] = 0 /\ settled[x] = 0
      BY <1>1, <2>1 DEF SettledOnce
    <2>3. pay'[x].status = "SUCCEEDED"
      BY <1>1, <1>2, <2>1 DEF HookSettle, Enter, PayTypeOK, PaymentRow
    <2>4. income'[x] = 1 /\ settled'[x] = 1
      BY <1>1, <1>2, <2>2 DEF HookSettle, Enter, PayTypeOK
    <2>5. QED
      BY <1>2, <2>3, <2>4
  <1>3. CASE ~(Settles(x, hook[h].tp) /\ p = x)
    <2>1. pay'[p] = pay[p] /\ income'[p] = income[p] /\ settled'[p] = settled[p]
      BY <1>1, <1>3 DEF HookSettle, Enter, PayTypeOK
    <2>2. QED
      BY <2>1 DEF SettledOnce
  <1>4. QED
    BY <1>2, <1>3

\* A refund leaves the status as it is.
LEMMA RefundKeepsOnce ==
  ASSUME PayTypeOK, Loaded, SettledOnce, NEW r \in Requests, RefundApply(r)
  PROVE  SettledOnce'
  <1> DEFINE x == req[r].payment
  <1>1. x \in Payments /\ pay[x].status # "NONE"
    BY LoadedRequest DEF RefundApply, Loaded
  <1>2. pay[x] \in PaymentRow
    BY <1>1, ARow
  <1>3. pay' = [pay EXCEPT ![x].refunded = @ + req[r].amount] \/ pay' = pay
    BY DEF RefundApply
  <1>4. ASSUME NEW p \in Payments
        PROVE  pay'[p].status = pay[p].status
    <2>1. CASE pay' = pay
      BY <2>1
    <2>2. CASE pay' = [pay EXCEPT ![x].refunded = @ + req[r].amount] /\ p # x
      BY <1>1, <2>2 DEF PayTypeOK
    <2>3. CASE pay' = [pay EXCEPT ![x].refunded = @ + req[r].amount] /\ p = x
      <3>1. pay'[x] = [pay[x] EXCEPT !.refunded = pay[x].refunded + req[r].amount]
        BY <1>1, <2>3 DEF PayTypeOK
      <3>2. QED
        BY <1>2, <2>3, <3>1 DEF PaymentRow
    <2>4. QED
      BY <1>3, <2>1, <2>2, <2>3
  <1>5. income' = income /\ settled' = settled
    BY DEF RefundApply
  <1>6. QED
    BY <1>4, <1>5 DEF SettledOnce

\* A new payment has not been entered.
LEMMA CreateKeepsOnce ==
  ASSUME PayTypeOK, SettledOnce, NEW x \in Payments, NEW o \in Orders, NEW c \in Channels,
         NEW a \in Amounts, CreatePayment(x, o, c, a)
  PROVE  SettledOnce'
  <1>1. income[x] = 0 /\ settled[x] = 0
    BY DEF SettledOnce, CreatePayment
  <1>2. pay'[x].status = "PENDING" /\ \A p \in Payments \ {x} : pay'[p] = pay[p]
    BY DEF CreatePayment, PayTypeOK
  <1>3. income' = income /\ settled' = settled
    BY DEF CreatePayment
  <1>4. QED
    BY <1>1, <1>2, <1>3 DEF SettledOnce

(***************************************************************************)
(* A payment is entered once, for any number of payments and of callbacks  *)
(* at the same time: a SUCCEEDED payment has one IN row and one            *)
(* payment.succeeded event, any other has none (settle_paid).              *)
(***************************************************************************)
THEOREM PaymentSettledOnce == PaySpec => []SettledOnce
  <1>1. PayInit => SettledOnce /\ Loaded
    BY DEF PayInit, SettledOnce, Loaded, NoRow, Idle
  <1>2. ASSUME PayTypeOK, Loaded, SettledOnce, [PayNext]_payVars
        PROVE  SettledOnce'
    <2>1. CASE UNCHANGED <<pay, income, settled>>
      BY <1>2, <2>1 DEF SettledOnce
    <2>2. QED
      BY <1>2, <2>1, SettleOnce, RefundKeepsOnce, CreateKeepsOnce
      DEF PayNext, HookLoad, RefundLoad, payVars
  <1>3. PayTypeOK /\ Loaded /\ SettledOnce /\ [PayNext]_payVars
          => PayTypeOK' /\ Loaded' /\ SettledOnce'
    BY <1>2, StepTyped, LoadedKept
  <1>4. QED
    BY PayInitTyped, <1>1, <1>3, PTL DEF PaySpec

-----------------------------------------------------------------------------
(***************************************************************************)
(* The sum of the amounts of a finite set of rows, which MapThenSumSet     *)
(* takes in an order of its own: the row it takes first can be exchanged   *)
(* for any other (SumOfRow).                                               *)
(***************************************************************************)
Sum(S) == LET amountOf(x) == x.amount IN MapThenSumSet(amountOf, S)
First(s) == CHOOSE x \in s : TRUE

IsSum(g, S) ==
  g = [s \in SUBSET S |-> IF s = {} THEN 0
                          ELSE LET x == CHOOSE y \in s : TRUE IN x.amount + g[s \ {x}]]

\* What SumRecurs shows for every finite set.
TakesFirst(s) == Sum(s) = IF s = {} THEN 0 ELSE First(s).amount + Sum(s \ {First(s)})

LEMMA SumIsFold == ASSUME NEW S PROVE Sum(S) = (CHOOSE g : IsSum(g, S))[S]
  BY DEF Sum, MapThenSumSet, MapThenFoldSet, IsSum

LEMMA Least ==
  ASSUME NEW T \in SUBSET Nat, T # {}
  PROVE  \E n \in T : \A m \in T : n <= m
  <1>1. PICK n \in T : \A m \in T : <<m, n>> \notin OpToRel(<, Nat)
    BY NatLessThanWellFounded, WFMin
  <1>2. ASSUME NEW m \in T, m < n PROVE FALSE
    <2>1. <<m, n>> \in OpToRel(<, Nat)
      BY <1>2 DEF OpToRel
    <2> QED
      BY <1>1, <2>1
  <1>3. \A m \in T : n <= m
    BY <1>2
  <1> QED
    BY <1>3

\* Among finite sets there is one without a proper subset among them.
LEMMA Smallest ==
  ASSUME NEW F, F # {}, \A s \in F : IsFiniteSet(s)
  PROVE  \E s \in F : \A t \in F : t \subseteq s => t = s
  <1> DEFINE sizes == {Cardinality(s) : s \in F}
  <1>1. sizes \in SUBSET Nat /\ sizes # {}
    BY FS_CardinalityType
  <1>2. PICK n \in sizes : \A m \in sizes : n <= m
    BY <1>1, Least
  <1>3. PICK s \in F : n = Cardinality(s)
    BY <1>2
  <1>4. ASSUME NEW t \in F, t \subseteq s, t # s PROVE FALSE
    <2>1. Cardinality(t) \in Nat /\ Cardinality(s) \in Nat
      BY FS_CardinalityType
    <2>2. Cardinality(t) <= Cardinality(s) /\ (Cardinality(t) = Cardinality(s) => t = s)
      BY <1>4, FS_Subset
    <2>3. n <= Cardinality(t)
      BY <1>2
    <2> QED
      BY <1>3, <1>4, <2>1, <2>2, <2>3
  <1> QED
    BY <1>4

LEMMA FirstIsIn == ASSUME NEW s, s # {} PROVE First(s) \in s
  BY DEF First

\* The fold exists and is the only one, if its smaller sums are as they should.
LEMMA SumOfWhole ==
  ASSUME NEW S, IsFiniteSet(S), \A s \in SUBSET S : s # S => TakesFirst(s)
  PROVE  TakesFirst(S)
  <1> DEFINE h == [s \in SUBSET S |->
                     IF s = {} THEN 0 ELSE First(s).amount + Sum(s \ {First(s)})]
             G == CHOOSE g : IsSum(g, S)
  <1>1. \A s \in SUBSET S : s # S => Sum(s) = h[s]
    BY DEF TakesFirst
  <1>2. \A s \in SUBSET S : h[s] = IF s = {} THEN 0 ELSE First(s).amount + h[s \ {First(s)}]
    <2>1. ASSUME NEW s \in SUBSET S, s # {}
          PROVE  h[s] = First(s).amount + h[s \ {First(s)}]
      <3>1. First(s) \in s
        BY <2>1, FirstIsIn
      <3>2. s \ {First(s)} \in SUBSET S /\ s \ {First(s)} # S
        BY <3>1
      <3>3. Sum(s \ {First(s)}) = h[s \ {First(s)}]
        BY <1>1, <3>2
      <3>4. h[s] = First(s).amount + Sum(s \ {First(s)})
        BY <2>1
      <3> QED
        BY <3>3, <3>4
    <2>2. {} \in SUBSET S /\ h[{}] = 0
      OBVIOUS
    <2> HIDE DEF h
    <2> QED
      BY <2>1, <2>2
  <1>3. h = [s \in SUBSET S |-> h[s]]
    OBVIOUS
  <1>4. h[S] = IF S = {} THEN 0 ELSE First(S).amount + Sum(S \ {First(S)})
    OBVIOUS
  <1> HIDE DEF h
  <1>5. IsSum(h, S)
    BY <1>2, <1>3 DEF IsSum, First
  <1>6. IsSum(G, S)
    BY <1>5
  <1> HIDE DEF G
  <1>7. \A s \in SUBSET S : G[s] = IF s = {} THEN 0 ELSE First(s).amount + G[s \ {First(s)}]
    BY <1>6 DEF IsSum, First
  <1>8. \A s \in SUBSET S : G[s] = h[s]
    <2> DEFINE wrong == {s \in SUBSET S : G[s] # h[s]}
    <2>1. ASSUME wrong # {} PROVE FALSE
      <3>1. \A s \in wrong : IsFiniteSet(s)
        BY FS_Subset
      <3>2. PICK s \in wrong : \A t \in wrong : t \subseteq s => t = s
        <4> HIDE DEF wrong
        <4> QED
          BY <2>1, <3>1, Smallest
      <3>3. s # {}
        BY <1>2, <1>7, <3>2
      <3>4. First(s) \in s
        BY <3>3, FirstIsIn
      <3>5. G[s \ {First(s)}] = h[s \ {First(s)}]
        BY <3>2, <3>4
      <3> QED
        BY <1>2, <1>7, <3>2, <3>3, <3>5
    <2> QED
      BY <2>1
  <1>9. Sum(S) = G[S]
    BY SumIsFold DEF G
  <1>10. Sum(S) = h[S]
    BY <1>8, <1>9
  <1> QED
    BY <1>4, <1>10 DEF TakesFirst

LEMMA SumRecurs ==
  ASSUME NEW S, IsFiniteSet(S)
  PROVE  TakesFirst(S)
  <1> DEFINE wrong == {s \in SUBSET S : ~TakesFirst(s)}
  <1>1. ASSUME wrong # {} PROVE FALSE
    <2>1. \A s \in wrong : IsFiniteSet(s)
      BY FS_Subset
    <2>2. PICK s \in wrong : \A t \in wrong : t \subseteq s => t = s
      <3> HIDE DEF wrong
      <3> QED
        BY <1>1, <2>1, Smallest
    <2>3. \A t \in SUBSET s : t # s => TakesFirst(t)
      BY <2>2
    <2> QED
      BY <2>1, <2>2, <2>3, SumOfWhole
  <1>2. S \in SUBSET S
    OBVIOUS
  <1> QED
    BY <1>1, <1>2

\* Any row can be taken first.
LEMMA SumOfRow ==
  ASSUME NEW S, IsFiniteSet(S), \A x \in S : x.amount \in Int
  PROVE  Sum(S) \in Int /\ \A x \in S : Sum(S) = x.amount + Sum(S \ {x})
  <1> DEFINE Right(s) == Sum(s) \in Int /\ \A x \in s : Sum(s) = x.amount + Sum(s \ {x})
             wrong == {s \in SUBSET S : ~Right(s)}
  <1>1. ASSUME wrong # {} PROVE FALSE
    <2>1. \A s \in wrong : IsFiniteSet(s)
      BY FS_Subset
    <2>2. PICK s \in wrong : \A t \in wrong : t \subseteq s => t = s
      <3> HIDE DEF wrong
      <3> QED
        BY <1>1, <2>1, Smallest
    <2>3. \A t \in SUBSET s : t # s => Right(t)
      BY <2>2
    <2>4. TakesFirst(s) /\ \A x \in s : x.amount \in Int
      BY <2>1, <2>2, SumRecurs
    <2>5. CASE s = {}
      BY <2>2, <2>4, <2>5 DEF TakesFirst
    <2>6. CASE s # {}
      <3>1. PICK c \in s : c = First(s)
        BY <2>6, FirstIsIn
      <3>2. Sum(s) = c.amount + Sum(s \ {c})
        BY <2>4, <2>6, <3>1 DEF TakesFirst
      <3>3. Right(s \ {c})
        BY <2>3, <3>1
      <3>4. Sum(s) \in Int
        BY <2>4, <3>2, <3>3
      <3>5. ASSUME NEW x \in s, x # c PROVE Sum(s) = x.amount + Sum(s \ {x})
        <4>1. Sum(s \ {c}) = x.amount + Sum((s \ {c}) \ {x})
          BY <3>3, <3>5
        <4>2. Right(s \ {x}) /\ c \in s \ {x}
          BY <2>3, <3>5
        <4>3. Sum(s \ {x}) = c.amount + Sum((s \ {x}) \ {c})
          BY <4>2
        <4>4. (s \ {c}) \ {x} = (s \ {x}) \ {c}
          OBVIOUS
        <4>5. PICK rest : rest = Sum((s \ {c}) \ {x})
          OBVIOUS
        <4>6. Right((s \ {c}) \ {x})
          BY <2>3, <3>1
        <4>7. rest \in Int /\ c.amount \in Int /\ x.amount \in Int
          BY <2>4, <4>5, <4>6
        <4>8. Sum(s) = c.amount + (x.amount + rest) /\ Sum(s \ {x}) = c.amount + rest
          BY <3>2, <4>1, <4>3, <4>4, <4>5
        <4> HIDE DEF Right
        <4> QED
          BY <4>7, <4>8
      <3> QED
        BY <2>2, <3>2, <3>4, <3>5
    <2> QED
      BY <2>5, <2>6
  <1>2. S \in SUBSET S
    OBVIOUS
  <1>3. Right(S)
    BY <1>1, <1>2
  <1> QED
    BY <1>3

LEMMA SumOfMore ==
  ASSUME NEW S, IsFiniteSet(S), NEW x, x \notin S, x.amount \in Int,
         \A y \in S : y.amount \in Int
  PROVE  Sum(S \cup {x}) = Sum(S) + x.amount
  <1>1. IsFiniteSet(S \cup {x}) /\ \A y \in S \cup {x} : y.amount \in Int
    BY FS_AddElement
  <1>2. Sum(S \cup {x}) = x.amount + Sum((S \cup {x}) \ {x})
    BY <1>1, SumOfRow
  <1>3. (S \cup {x}) \ {x} = S
    OBVIOUS
  <1>4. Sum(S \cup {x}) = x.amount + Sum(S)
    BY <1>2, <1>3
  <1>5. Sum(S) \in Int
    BY SumOfRow
  <1> QED
    BY <1>4, <1>5

LEMMA SumOfNone == Sum({}) = 0
  BY SumRecurs, FS_EmptySet DEF TakesFirst

-----------------------------------------------------------------------------
(***************************************************************************)
(* The money paid back.  Refunds are of payments that exist, a payment     *)
(* that does not exist has no events, and the conditional UPDATE keeps the *)
(* sum of the rows, the column and the last event the same.                *)
(***************************************************************************)
Mine(p) == {x \in refunds : x.payment = p}

Told(events, i) == IF i = 0 THEN 0 ELSE events[i].total

RunsTo(events, total) ==
  /\ \A i \in 1..Len(events) : Told(events, i) = Told(events, i - 1) + events[i].amount
  /\ total = Told(events, Len(events))

AddsUp(p) ==
  /\ Sum(Mine(p)) = pay[p].refunded
  /\ Mine(p) # {} => pay[p].refunded <= pay[p].amount
  /\ RunsTo(totals[p], pay[p].refunded)

MoneyInv ==
  /\ IsFiniteSet(refunds)
  /\ \A x \in refunds : pay[x.payment].status # "NONE"
  /\ \A p \in Payments : IF pay[p].status = "NONE" THEN totals[p] = << >> ELSE AddsUp(p)

LEMMA NothingTold == RunsTo(<< >>, 0)
  BY DEF RunsTo, Told

LEMMA TellsOneMore ==
  ASSUME NEW events \in Seq(RefundEvent), NEW total \in Int, RunsTo(events, total),
         NEW e \in RefundEvent, e.total = total + e.amount
  PROVE  RunsTo(Append(events, e), e.total)
  <1> DEFINE more == Append(events, e)
             n == Len(events)
  <1>1. /\ Len(more) = n + 1 /\ n \in Nat
        /\ \A i \in 1..n : more[i] = events[i]
        /\ more[n + 1] = e
    BY AppendProperties, LenProperties
  <1> HIDE DEF more
  <1>2. ASSUME NEW i \in 1..n PROVE Told(more, i) = Told(more, i - 1) + more[i].amount
    <2>1. Told(events, i) = Told(events, i - 1) + events[i].amount
      BY <1>2 DEF RunsTo
    <2>2. Told(more, i) = Told(events, i) /\ more[i] = events[i]
      BY <1>1, <1>2 DEF Told
    <2>3. Told(more, i - 1) = Told(events, i - 1)
      BY <1>1, <1>2 DEF Told
    <2> QED
      BY <2>1, <2>2, <2>3
  <1>3. Told(more, n + 1) = e.total
    BY <1>1 DEF Told
  <1>4. Told(more, n) = total
    BY <1>1 DEF Told, RunsTo
  <1> HIDE DEF n
  <1>5. Told(more, n + 1) = Told(more, n) + more[n + 1].amount
    BY <1>1, <1>3, <1>4
  <1>6. ASSUME NEW i \in 1..Len(more) PROVE Told(more, i) = Told(more, i - 1) + more[i].amount
    <2>1. CASE i = n + 1
      <3>1. i - 1 = n
        BY <1>1, <2>1
      <3> QED
        BY <1>5, <2>1, <3>1
    <2>2. CASE i # n + 1
      BY <1>1, <1>2, <2>2
    <2> QED
      BY <2>1, <2>2
  <1> QED
    BY <1>1, <1>3, <1>6 DEF RunsTo, more

\* Nothing is paid back, and no payment comes or goes.
LEMMA MoneyKept ==
  ASSUME MoneyInv, PayTypeOK, UNCHANGED <<refunds, totals>>,
         \A p \in Payments : (pay'[p].status = "NONE") <=> (pay[p].status = "NONE"),
         \A p \in Payments : pay[p].status # "NONE" =>
           pay'[p].refunded = pay[p].refunded /\ pay'[p].amount = pay[p].amount
  PROVE  MoneyInv'
  <1>1. \A x \in refunds : pay'[x.payment].status # "NONE"
    BY DEF MoneyInv, PayTypeOK, RefundRow
  <1>2. ASSUME NEW p \in Payments
        PROVE  IF pay'[p].status = "NONE" THEN totals[p] = << >>
               ELSE /\ Sum(Mine(p)) = pay'[p].refunded
                    /\ Mine(p) # {} => pay'[p].refunded <= pay'[p].amount
                    /\ RunsTo(totals[p], pay'[p].refunded)
    BY DEF MoneyInv, AddsUp
  <1> QED
    BY <1>1, <1>2 DEF MoneyInv, AddsUp, Mine

LEMMA MoneyCreated ==
  ASSUME MoneyInv, PayTypeOK, NEW p \in Payments, NEW o \in Orders, NEW c \in Channels,
         NEW a \in Amounts, CreatePayment(p, o, c, a)
  PROVE  MoneyInv'
  <1>1. /\ pay'[p].status = "PENDING" /\ pay'[p].refunded = 0
        /\ \A q \in Payments \ {p} : pay'[q] = pay[q]
        /\ UNCHANGED <<refunds, totals>>
    BY DEF CreatePayment, PayTypeOK
  <1>2. pay[p].status = "NONE"
    BY DEF CreatePayment
  <1>3. Mine(p) = {} /\ totals[p] = << >>
    BY <1>2 DEF MoneyInv, Mine
  <1>4. Sum(Mine(p)) = 0 /\ RunsTo(totals[p], 0)
    BY <1>3, SumOfNone, NothingTold
  <1>5. \A x \in refunds : pay'[x.payment].status # "NONE"
    BY <1>1, <1>2 DEF MoneyInv, PayTypeOK, RefundRow
  <1>6. ASSUME NEW q \in Payments
        PROVE  IF pay'[q].status = "NONE" THEN totals[q] = << >>
               ELSE /\ Sum(Mine(q)) = pay'[q].refunded
                    /\ Mine(q) # {} => pay'[q].refunded <= pay'[q].amount
                    /\ RunsTo(totals[q], pay'[q].refunded)
    <2>1. CASE q = p
      BY <1>1, <1>3, <1>4, <2>1
    <2>2. CASE q # p
      BY <1>1, <2>2 DEF MoneyInv, AddsUp
    <2> QED
      BY <2>1, <2>2
  <1> QED
    BY <1>1, <1>5, <1>6 DEF MoneyInv, AddsUp, Mine

LEMMA MoneySettled ==
  ASSUME MoneyInv, PayTypeOK, NEW h \in Hooks, HookSettle(h)
  PROVE  MoneyInv'
  <1> DEFINE x == hook[h].payment
             id == hook[h].tp
             row == [pay[x] EXCEPT !.status = "SUCCEEDED", !.tp = id]
  <1>1. x \in Payments /\ id \in ThirdPartyIds
    BY LoadedHook DEF HookSettle, Enter
  <1>2. UNCHANGED <<refunds, totals>>
    BY DEF HookSettle, Enter
  <1>3. CASE Settles(x, id)
    <2>1. pay[x] \in PaymentRow /\ pay[x].status # "NONE"
      BY <1>1, <1>3, ARow DEF Settles
    <2>2. /\ row.status = "SUCCEEDED" /\ row.refunded = pay[x].refunded
          /\ row.amount = pay[x].amount
      BY <2>1 DEF PaymentRow
    <2>3. pay' = [pay EXCEPT ![x] = row]
      BY <1>3 DEF HookSettle, Enter
    <2> HIDE DEF x, id, row
    <2>4. \A p \in Payments : pay'[p] = IF p = x THEN row ELSE pay[p]
      BY <1>1, <2>3 DEF PayTypeOK
    <2> QED
      BY <1>2, <2>1, <2>2, <2>4, MoneyKept
  <1>4. CASE ~Settles(x, id)
    BY <1>2, <1>4, MoneyKept DEF HookSettle, Enter
  <1> QED
    BY <1>3, <1>4

LEMMA MoneyRefunded ==
  ASSUME MoneyInv, PayTypeOK, Loaded, NEW r \in Requests, RefundApply(r)
  PROVE  MoneyInv'
  <1>1. PICK q \in [at : {"loaded"}, payment : Payments, amount : RefundAmounts,
                    key : Keys, seen : Int] : q = req[r]
    BY LoadedRequest DEF RefundApply
  <1>2. PICK p \in Payments, a \in Int : p = q.payment /\ a = q.amount /\ a \in RefundAmounts
    BY <1>1, PaymentAssumption
  <1>3. pay[p] \in PaymentRow /\ pay[p].status # "NONE"
    BY <1>1, <1>2, ARow DEF Loaded, RefundApply
  <1>4. pay[p].refunded \in Int /\ pay[p].amount \in Int
    BY <1>3, PaymentAssumption DEF PaymentRow
  <1>5. CASE WithinAmount(q) /\ KeyIsFree(q.key)
    <2>1. PICK row : row = [pay[p] EXCEPT !.refunded = pay[p].refunded + a]
      OBVIOUS
    <2>2. PICK x : x = [key |-> q.key, payment |-> p, amount |-> a]
      OBVIOUS
    <2>3. PICK e \in RefundEvent : e = [amount |-> a, total |-> pay[p].refunded + a]
      <3>1. PICK t \in Int : t = pay[p].refunded + a
        BY <1>2, <1>4
      <3>2. [amount |-> a, total |-> t] \in RefundEvent
        BY <1>2 DEF RefundEvent
      <3> QED
        BY <3>1, <3>2
    <2>4. TotalAfter(q) = pay[p].refunded + a
      BY <1>2 DEF TotalAfter
    <2>5. /\ pay' = [pay EXCEPT ![p] = row]
          /\ refunds' = refunds \cup {x}
          /\ totals' = [totals EXCEPT ![p] = Append(totals[p], e)]
      BY <1>1, <1>2, <1>5, <2>1, <2>2, <2>3, <2>4 DEF RefundApply
    <2>6. /\ row.status = pay[p].status /\ row.amount = pay[p].amount
          /\ row.refunded = pay[p].refunded + a
      BY <1>3, <2>1 DEF PaymentRow
    <2>7. x \notin refunds /\ x.payment = p /\ x.amount = a
      BY <1>5, <2>2 DEF KeyIsFree
    <2>8. \A z \in Payments : pay'[z] = IF z = p THEN row ELSE pay[z]
      BY <2>5 DEF PayTypeOK
    <2>9. \A z \in Payments : totals'[z] = IF z = p THEN Append(totals[p], e) ELSE totals[z]
      BY <2>5 DEF PayTypeOK
    <2>10. IsFiniteSet(refunds')
      BY <2>5, FS_AddElement DEF MoneyInv
    <2>11. \A y \in refunds' : pay'[y.payment].status # "NONE"
      <3>1. \A y \in refunds : y.payment \in Payments /\ pay[y.payment].status # "NONE"
        BY DEF MoneyInv, PayTypeOK, RefundRow
      <3> QED
        BY <1>3, <2>5, <2>6, <2>7, <2>8, <3>1
    <2>12. AddsUp(p)
      BY <1>3 DEF MoneyInv
    <2>13. PICK mine : mine = Mine(p)
      OBVIOUS
    <2>14. IsFiniteSet(mine) /\ x \notin mine /\ \A y \in mine : y.amount \in Int
      <3>1. mine \subseteq refunds
        BY <2>13 DEF Mine
      <3>2. IsFiniteSet(mine)
        BY <3>1, FS_Subset DEF MoneyInv
      <3>3. \A y \in refunds : y.amount \in Int
        BY PaymentAssumption DEF PayTypeOK, RefundRow
      <3> QED
        BY <2>7, <3>1, <3>2, <3>3
    <2>15. Sum(mine \cup {x}) = pay[p].refunded + a
      <3>1. Sum(mine \cup {x}) = Sum(mine) + x.amount
        BY <1>2, <2>7, <2>14, SumOfMore
      <3> QED
        BY <2>7, <2>12, <2>13, <3>1 DEF AddsUp
    <2>16. pay[p].refunded + a <= pay[p].amount
      BY <1>2, <1>5 DEF WithinAmount
    <2>17. RunsTo(Append(totals[p], e), e.total)
      <3>1. totals[p] \in Seq(RefundEvent)
        BY DEF PayTypeOK
      <3>2. e.total = pay[p].refunded + e.amount
        BY <2>3
      <3>3. RunsTo(totals[p], pay[p].refunded)
        BY <2>12 DEF AddsUp
      <3> QED
        BY <1>4, <3>1, <3>2, <3>3, TellsOneMore
    <2>18. Mine(p)' = mine \cup {x}
      BY <2>5, <2>7, <2>13 DEF Mine
    <2>19. AddsUp(p)'
      <3>1. pay'[p].refunded = pay[p].refunded + a /\ pay'[p].amount = pay[p].amount
        BY <2>6, <2>8
      <3>2. RunsTo(totals[p], pay[p].refunded)'
        BY <2>3, <2>9, <2>17, <3>1
      <3> QED
        BY <2>15, <2>16, <2>18, <3>1, <3>2 DEF AddsUp
    <2>20. ASSUME NEW z \in Payments, z # p
           PROVE  IF pay'[z].status = "NONE" THEN totals'[z] = << >> ELSE AddsUp(z)'
      <3>1. Mine(z)' = Mine(z)
        BY <2>5, <2>7, <2>20 DEF Mine
      <3>2. pay'[z] = pay[z] /\ totals'[z] = totals[z]
        BY <2>8, <2>9, <2>20
      <3> QED
        BY <3>1, <3>2 DEF MoneyInv, AddsUp
    <2>21. pay'[p].status # "NONE"
      BY <1>3, <2>6, <2>8
    <2> QED
      BY <2>10, <2>11, <2>19, <2>20, <2>21 DEF MoneyInv
  <1>6. CASE ~(WithinAmount(q) /\ KeyIsFree(q.key))
    <2>1. UNCHANGED <<pay, refunds, totals>>
      BY <1>1, <1>6 DEF RefundApply
    <2> QED
      BY <2>1, MoneyKept
  <1> QED
    BY <1>5, <1>6

LEMMA MoneyInvHolds == PaySpec => []MoneyInv
  <1>1. PayInit => MoneyInv /\ Loaded
    BY FS_EmptySet DEF PayInit, MoneyInv, NoRow, Loaded, Idle
  <1>2. ASSUME PayTypeOK, Loaded, MoneyInv, [PayNext]_payVars
        PROVE  MoneyInv'
    <2>1. CASE UNCHANGED <<pay, refunds, totals>>
      BY <1>2, <2>1, MoneyKept
    <2> QED
      BY <1>2, <2>1, MoneyCreated, MoneySettled, MoneyRefunded
         DEF PayNext, HookLoad, RefundLoad, payVars
  <1>3. PayTypeOK /\ Loaded /\ MoneyInv /\ [PayNext]_payVars
          => PayTypeOK' /\ Loaded' /\ MoneyInv'
    BY <1>2, StepTyped, LoadedKept
  <1> QED
    BY PayInitTyped, <1>1, <1>3, PTL DEF PaySpec

(***************************************************************************)
(* The refunds of a payment add up to its refunded_amount_cents, and once  *)
(* there is one to no more than was paid, for any amounts and any number   *)
(* of requests at the same time (the conditional UPDATE of create_refund   *)
(* under uk_refunds_idempotency_key).                                      *)
(***************************************************************************)
THEOREM PaidBackAddsUp == PaySpec => []RefundsAddUp
  <1>1. ASSUME MoneyInv, NEW p \in Payments, pay[p].status # "NONE"
        PROVE  LET mine == {x \in refunds : x.payment = p}
                   amountOf(x) == x.amount
                   paidBack == MapThenSumSet(amountOf, mine)
               IN  paidBack = pay[p].refunded /\ (mine # {} => paidBack <= pay[p].amount)
    <2>1. AddsUp(p)
      BY <1>1 DEF MoneyInv
    <2> QED
      BY <2>1 DEF AddsUp, Sum, Mine
  <1>2. MoneyInv => RefundsAddUp
    BY <1>1 DEF RefundsAddUp
  <1> QED
    BY <1>2, MoneyInvHolds, PTL

(***************************************************************************)
(* The payment.refunded events of a payment tell its running total, in the *)
(* order of the refunds, up to what the row states (session.refresh in     *)
(* create_refund).                                                         *)
(***************************************************************************)
THEOREM TotalsTold == PaySpec => []TotalsRun
  <1>1. ASSUME MoneyInv, NEW p \in Payments
        PROVE  LET told(i) == IF i = 0 THEN 0 ELSE totals[p][i].total
                   n == Len(totals[p])
               IN  /\ \A i \in 1..n : told(i) = told(i - 1) + totals[p][i].amount
                   /\ pay[p].status # "NONE" => pay[p].refunded = told(n)
    <2>1. CASE pay[p].status = "NONE"
      BY <1>1, <2>1 DEF MoneyInv
    <2>2. CASE pay[p].status # "NONE"
      BY <1>1, <2>2 DEF MoneyInv, AddsUp, RunsTo, Told
    <2> QED
      BY <2>1, <2>2
  <1>2. MoneyInv => TotalsRun
    BY <1>1 DEF TotalsRun
  <1> QED
    BY <1>2, MoneyInvHolds, PTL
=============================================================================
