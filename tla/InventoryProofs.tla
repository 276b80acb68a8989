--------------------------- MODULE InventoryProofs ---------------------------
(***************************************************************************)
(* What holds of the inventory for any orders, SKUs, quantities, opening   *)
(* stock and number of concurrent adjustments.                             *)
(***************************************************************************)
EXTENDS Inventory, FiniteSetTheorems, TLAPS

(***************************************************************************)
(* The units asked for by finitely many orders are finitely many, and one  *)
(* more order adds exactly its quantity.                                   *)
(***************************************************************************)
LEMMA UnitsFinite ==
  ASSUME NEW P \in SUBSET Orders, NEW s \in Skus
  PROVE  /\ IsFiniteSet(UnitsOf(P, s))
         /\ Cardinality(UnitsOf(P, s)) \in Nat
  <1>1. IsFiniteSet(P)
    BY InventoryAssumption, FS_Subset
  <1>2. IsFiniteSet(1..MaxQty)
    BY InventoryAssumption, FS_Interval
  <1>3. IsFiniteSet(P \X (1..MaxQty))
    BY <1>1, <1>2, FS_Product
  <1>4. UnitsOf(P, s) \in SUBSET (P \X (1..MaxQty))
    BY DEF UnitsOf
  <1> QED
    BY <1>3, <1>4, FS_Subset, FS_CardinalityType

LEMMA UnitsOfOne ==
  ASSUME NEW o \in Orders, NEW s \in Skus
  PROVE  Cardinality(UnitsOf({o}, s)) = Qty[o][s]
  <1>1. Qty[o][s] \in 0..MaxQty /\ MaxQty \in Nat
    BY InventoryAssumption
  <1>2. PICK q \in Nat : q = Qty[o][s] /\ q <= MaxQty
    BY <1>1
  <1>3. UnitsOf({o}, s) = {o} \X (1..q)
    BY <1>1, <1>2 DEF UnitsOf
  <1>4. IsFiniteSet({o}) /\ Cardinality({o}) = 1
    BY FS_Singleton
  <1>5. IsFiniteSet(1..q) /\ Cardinality(1..q) = q
    <2>1. 1 \in Int /\ q \in Int
      BY <1>2
    <2>2. IsFiniteSet(1..q) /\ Cardinality(1..q) = IF 1 > q THEN 0 ELSE q - 1 + 1
      BY <2>1, FS_Interval
    <2> QED
      BY <1>2, <2>2
  <1>6. Cardinality({o} \X (1..q)) = Cardinality({o}) * Cardinality(1..q)
    BY <1>4, <1>5, FS_Product
  <1>7. 1 * q = q
    BY <1>2
  <1> QED
    BY <1>2, <1>3, <1>4, <1>5, <1>6, <1>7, Zenon

LEMMA UnitsAddOrder ==
  ASSUME NEW P \in SUBSET Orders, NEW o \in Orders, o \notin P, NEW s \in Skus
  PROVE  Cardinality(UnitsOf(P \cup {o}, s))
           = Cardinality(UnitsOf(P, s)) + Qty[o][s]
  <1>1. UnitsOf(P \cup {o}, s) = UnitsOf(P, s) \cup UnitsOf({o}, s)
    BY DEF UnitsOf
  <1>2. UnitsOf(P, s) \cap UnitsOf({o}, s) = {}
    BY DEF UnitsOf
  <1>3. /\ IsFiniteSet(UnitsOf(P, s)) /\ Cardinality(UnitsOf(P, s)) \in Nat
        /\ IsFiniteSet(UnitsOf({o}, s)) /\ Cardinality(UnitsOf({o}, s)) \in Nat
    BY UnitsFinite
  <1>4. Cardinality(UnitsOf(P, s) \cup UnitsOf({o}, s))
          = Cardinality(UnitsOf(P, s)) + Cardinality(UnitsOf({o}, s)) - Cardinality({})
    BY <1>2, <1>3, FS_Union
  <1>5. PICK m \in Nat : m = Cardinality(UnitsOf(P, s))
    BY <1>3
  <1>6. PICK q \in Nat : q = Cardinality(UnitsOf({o}, s))
    BY <1>3
  <1>7. Cardinality({}) = 0 /\ m + q - 0 = m + q
    BY FS_EmptySet
  <1>8. Cardinality(UnitsOf({o}, s)) = Qty[o][s]
    BY UnitsOfOne
  <1> QED
    BY <1>1, <1>4, <1>5, <1>6, <1>7, <1>8, Zenon

-----------------------------------------------------------------------------
(***************************************************************************)
(* Post moves order o's lines among X from status from to status to: how   *)
(* that changes who holds units of s, and how many.                        *)
(***************************************************************************)
LEMMA PostUnits ==
  ASSUME TypeOK, NEW o \in Orders, NEW X \in SUBSET Skus,
         NEW from, NEW to, from # to, NEW t, NEW dR, NEW dS,
         Post(o, Lines(o, X, from), to, t, dR, dS), NEW s \in Skus, NEW st
  PROVE  LET before == Cardinality(UnitsOf(Holders(st, s), s))
             after == Cardinality(UnitsOf(Holders(st, s)', s))
             moved == s \in Lines(o, X, from)
         IN  /\ ~moved => after = before
             /\ moved /\ st = to => after = before + Qty[o][s]
             /\ moved /\ st = from => before = after + Qty[o][s]
             /\ moved /\ st \notin {from, to} => after = before
  <1> DEFINE S == Lines(o, X, from)
  <1>1. /\ \A x \in S : resv[o][x] = from
        /\ \A p \in Orders : p # o => resv'[p] = resv[p]
        /\ resv'[o][s] = IF s \in S THEN to ELSE resv[o][s]
    BY DEF Post, TypeOK, Lines
  <1> HIDE DEF S
  <1>2. Holders(st, s) \in SUBSET Orders /\ Holders(st, s)' \in SUBSET Orders
    BY DEF Holders
  <1>3. ASSUME s \notin S \/ st \notin {from, to}
        PROVE  Holders(st, s)' = Holders(st, s)
    BY <1>1, <1>3 DEF Holders
  <1>4. ASSUME s \in S, st = to
        PROVE  Cardinality(UnitsOf(Holders(st, s)', s))
                 = Cardinality(UnitsOf(Holders(st, s), s)) + Qty[o][s]
    <2>1. Holders(st, s)' = Holders(st, s) \cup {o} /\ o \notin Holders(st, s)
      BY <1>1, <1>4 DEF Holders
    <2> QED
      BY <1>2, <2>1, UnitsAddOrder
  <1>5. ASSUME s \in S, st = from
        PROVE  Cardinality(UnitsOf(Holders(st, s), s))
                 = Cardinality(UnitsOf(Holders(st, s)', s)) + Qty[o][s]
    <2>1. Holders(st, s) = Holders(st, s)' \cup {o} /\ o \notin Holders(st, s)'
      BY <1>1, <1>5 DEF Holders
    <2> QED
      BY <1>2, <2>1, UnitsAddOrder
  <1> QED
    BY <1>3, <1>4, <1>5 DEF S

-----------------------------------------------------------------------------
(***************************************************************************)
(* The steps of the inventory, with the four ways to give lines back       *)
(* folded into one.                                                        *)
(***************************************************************************)
LEMMA NextCases ==
  ASSUME [InvNext]_invVars
  PROVE  \/ \E o \in Orders : Reserve(o)
         \/ \E o \in Orders : Confirm(o)
         \/ \E o \in Orders, X \in SUBSET Skus, st \in {"RELEASED", "EXPIRED"} :
              ReleaseAs(o, X, st)
         \/ \E a \in Admins, s \in Skus : AdjustRead(a, s)
         \/ \E w \in adjust : AdjustWrite(w)
         \/ UNCHANGED invVars
  <1>1. ASSUME NEW o \in Orders
        PROVE  /\ ItemsOf(o) \in SUBSET Skus
               /\ Lines(o, ItemsOf(o), "RESERVED") \in SUBSET Skus
    BY DEF ItemsOf, Lines
  <1>2. ASSUME NEW s \in Skus
        PROVE  {s} \in SUBSET Skus
    OBVIOUS
  <1> QED
    BY <1>1, <1>2 DEF InvNext, ReleaseItems, ReleaseOpen, Expire

\* A SET or a DECREASE aims at no less than the reserved units it has read.
LEMMA AdjustTargetsSound ==
  ASSUME TypeOK, NEW s \in Skus, NEW op \in AdjustType, NEW n \in AdjustTargets(op, s)
  PROVE  /\ n \in Int
         /\ op # "INCREASE" => n >= reserved[s]
  <1>1. stock[s] \in Int /\ reserved[s] \in Int
    BY DEF TypeOK
  <1>2. \A q \in AdjustQty : q \in Int
    BY InventoryAssumption
  <1>3. CASE op = "SET"
    BY <1>1, <1>2, <1>3 DEF AdjustTargets
  <1>4. CASE op = "INCREASE"
    BY <1>1, <1>2, <1>4 DEF AdjustTargets
  <1>5. CASE op = "DECREASE"
    BY <1>1, <1>2, <1>5 DEF AdjustTargets
  <1> QED
    BY <1>3, <1>4, <1>5 DEF AdjustType

\* A call leaves every variable in its type.
LEMMA PostTyped ==
  ASSUME TypeOK, NEW o \in Orders, NEW X \in SUBSET Skus, NEW from,
         NEW to \in ReservationStatus, NEW t \in TxnType,
         NEW dR \in {-1, 0, 1}, NEW dS \in {0, 1},
         Post(o, Lines(o, X, from), to, t, dR, dS)
  PROVE  TypeOK'
  <1> USE DEF TypeOK
  <1> DEFINE S == Lines(o, X, from)
  <1>1. \A s \in Skus : Qty[o][s] \in Int
    BY InventoryAssumption
  <1>2. \A s \in Skus : dR * Qty[o][s] \in Int /\ dS * Qty[o][s] \in Int
    BY <1>1
  <1>3. \A s \in Skus : Moved(o, s, dR, dS) \in Row
    BY <1>2 DEF Moved, Row
  <1>4. \A s \in Skus : /\ Moved(o, s, dR, dS).reserved \in Int
                        /\ Moved(o, s, dR, dS).sold \in Int
    BY <1>3 DEF Row
  <1>5. reserved' \in [Skus -> Int] /\ sold' \in [Skus -> Int]
    BY <1>4 DEF Post
  <1>6. tail' \in [Skus -> Row]
    BY <1>3 DEF Post, LedgerRow
  <1>7. resv' \in [Orders -> [Skus -> ReservationStatus]]
    <2>1. [s \in Skus |-> IF s \in S THEN to ELSE resv[o][s]]
            \in [Skus -> ReservationStatus]
      OBVIOUS
    <2>2. resv' = [resv EXCEPT ![o] = [s \in Skus |-> IF s \in S THEN to ELSE resv[o][s]]]
      BY DEF Post
    <2> QED
      BY <2>1, <2>2
  <1>8. ledger' \in [Orders -> [Skus -> [TxnType -> Nat]]]
    <2> DEFINE Row1 == [s \in Skus |->
          IF s \in S THEN [ledger[o][s] EXCEPT ![t] = ledger[o][s][t] + 1] ELSE ledger[o][s]]
    <2>1. Row1 \in [Skus -> [TxnType -> Nat]]
      OBVIOUS
    <2>2. ledger' = [ledger EXCEPT ![o] = Row1]
      BY DEF Post
    <2> HIDE DEF Row1
    <2> QED
      BY <2>1, <2>2
  <1>9. stock' \in [Skus -> Int] /\ adjust' \subseteq Adjustment /\ overwritten' \in [Skus -> BOOLEAN]
    BY DEF Post
  <1> QED
    BY <1>5, <1>6, <1>7, <1>8, <1>9

LEMMA TypeKept ==
  ASSUME TypeOK, [InvNext]_invVars
  PROVE  TypeOK'
  <1>1. ASSUME NEW o \in Orders, Reserve(o)
        PROVE  TypeOK'
    BY <1>1, PostTyped DEF Reserve, ItemsOf, ReservationStatus, TxnType
  <1>2. ASSUME NEW o \in Orders, Confirm(o)
        PROVE  TypeOK'
    BY <1>2, PostTyped DEF Confirm, ItemsOf, ReservationStatus, TxnType
  <1>3. ASSUME NEW o \in Orders, NEW X \in SUBSET Skus,
               NEW st \in {"RELEASED", "EXPIRED"}, ReleaseAs(o, X, st)
        PROVE  TypeOK'
    BY <1>3, PostTyped DEF ReleaseAs, ReservationStatus, TxnType
  <1>4. ASSUME NEW a \in Admins, NEW s \in Skus, AdjustRead(a, s)
        PROVE  TypeOK'
    <2>1. \A op \in AdjustType : AdjustTargets(op, s) \subseteq Int
      BY AdjustTargetsSound
    <2>2. RowOf(s) \in Row
      BY DEF RowOf, Row, TypeOK
    <2>3. PICK op \in AdjustType : \E n \in AdjustTargets(op, s) :
            adjust' = adjust \cup
              {[admin |-> a, sku |-> s, op |-> op, target |-> n, seen |-> RowOf(s)]}
      BY <1>4 DEF AdjustRead
    <2>4. adjust' \subseteq Adjustment
      BY <2>1, <2>2, <2>3 DEF Adjustment, TypeOK
    <2> QED
      BY <1>4, <2>4 DEF AdjustRead, TypeOK
  <1>5. ASSUME NEW w \in adjust, AdjustWrite(w)
        PROVE  TypeOK'
    <2>1. w.sku \in Skus /\ w.target \in Int /\ w.seen \in Row
      BY DEF TypeOK, Adjustment
    <2>2. [w.seen EXCEPT !.stock = w.target] \in Row
      BY <2>1 DEF Row
    <2>3. (overwritten[w.sku] \/ w.seen # RowOf(w.sku)) \in BOOLEAN
      OBVIOUS
    <2>4. stock' \in [Skus -> Int] /\ tail' \in [Skus -> Row]
      BY <1>5, <2>1, <2>2 DEF AdjustWrite, TypeOK
    <2>5. overwritten' \in [Skus -> BOOLEAN]
      BY <1>5, <2>1, <2>3 DEF AdjustWrite, TypeOK
    <2> QED
      BY <1>5, <2>4, <2>5 DEF AdjustWrite, TypeOK
  <1>6. CASE UNCHANGED invVars
    BY <1>6 DEF invVars, TypeOK
  <1> QED
    BY <1>1, <1>2, <1>3, <1>4, <1>5, <1>6, NextCases

(***************************************************************************)
(* Every variable of the inventory keeps its type: in particular the       *)
(* counters stay integers and every reservation row has a known status.    *)
(***************************************************************************)
THEOREM InventoryTyped == InvSpec => []TypeOK
  <1>1. InvInit => TypeOK
    BY InventoryAssumption DEF InvInit, TypeOK, ReservationStatus, TxnType, Row
  <1> QED
    BY <1>1, TypeKept, PTL DEF InvSpec

-----------------------------------------------------------------------------
\* A call moves the counters of s by its quantity, or not at all.
LEMMA PostCounters ==
  ASSUME TypeOK, NEW o \in Orders, NEW X \in SUBSET Skus, NEW from, NEW to, NEW t,
         NEW dR \in {-1, 0, 1}, NEW dS \in {0, 1},
         Post(o, Lines(o, X, from), to, t, dR, dS), NEW s \in Skus
  PROVE  /\ reserved'[s] = IF s \in Lines(o, X, from)
                           THEN reserved[s] + dR * Qty[o][s] ELSE reserved[s]
         /\ sold'[s] = IF s \in Lines(o, X, from)
                       THEN sold[s] + dS * Qty[o][s] ELSE sold[s]
         /\ Qty[o][s] \in Nat
         /\ reserved[s] \in Int /\ sold[s] \in Int
         /\ stock' = stock /\ adjust' = adjust /\ overwritten' = overwritten
  <1>1. Qty[o][s] \in Nat
    BY InventoryAssumption
  <1> QED
    BY <1>1 DEF Post, Moved, TypeOK

(***************************************************************************)
(* reserved and sold are the sums of the lines that are RESERVED and       *)
(* CONFIRMED, for any number of orders and SKUs.  Inductive with TypeOK:   *)
(* a call moves a line's whole quantity exactly when it moves the line,    *)
(* and an adjustment touches neither.                                      *)
(***************************************************************************)
THEOREM CountersConserved == InvSpec => []Conservation
  <1>1. InvInit => Conservation
    <2> SUFFICES ASSUME InvInit, NEW s \in Skus, NEW st \in {"RESERVED", "CONFIRMED"}
                 PROVE  Cardinality(UnitsOf(Holders(st, s), s)) = 0
      BY DEF InvInit, Conservation
    <2>1. UnitsOf(Holders(st, s), s) = {}
      BY DEF InvInit, Holders, UnitsOf
    <2> QED
      BY <2>1, FS_EmptySet
  <1>2. TypeOK /\ Conservation /\ [InvNext]_invVars => Conservation'
    <2> SUFFICES ASSUME TypeOK, Conservation, [InvNext]_invVars
                 PROVE  Conservation'
      OBVIOUS
    <2> DEFINE N(st, s) == Cardinality(UnitsOf(Holders(st, s), s))
    <2>1. ASSUME NEW s \in Skus, NEW st
          PROVE  N(st, s) \in Nat /\ N(st, s)' \in Nat
      <3>1. Holders(st, s) \in SUBSET Orders /\ Holders(st, s)' \in SUBSET Orders
        BY DEF Holders
      <3> QED
        BY <3>1, UnitsFinite
    <2>2. ASSUME NEW s \in Skus
          PROVE  reserved[s] = N("RESERVED", s) /\ sold[s] = N("CONFIRMED", s)
      BY DEF Conservation
    <2>3. SUFFICES ASSUME NEW s \in Skus
                   PROVE  reserved'[s] = N("RESERVED", s)' /\ sold'[s] = N("CONFIRMED", s)'
      BY DEF Conservation
    <2>4. ASSUME NEW o \in Orders, Reserve(o)
          PROVE  reserved'[s] = N("RESERVED", s)' /\ sold'[s] = N("CONFIRMED", s)'
      <3> DEFINE S == Lines(o, ItemsOf(o), "NONE")
      <3>1. PICK d \in {-1, 0, 1} : d = 1
        OBVIOUS
      <3>2. Post(o, S, "RESERVED", "RESERVE", d, 0) /\ ItemsOf(o) \in SUBSET Skus
        BY <2>4, <3>1 DEF Reserve, ItemsOf
      <3>3. /\ s \in S => N("RESERVED", s)' = N("RESERVED", s) + Qty[o][s]
            /\ s \notin S => N("RESERVED", s)' = N("RESERVED", s)
            /\ N("CONFIRMED", s)' = N("CONFIRMED", s)
        BY <3>2, PostUnits
      <3>4. /\ reserved'[s] = IF s \in S THEN reserved[s] + d * Qty[o][s] ELSE reserved[s]
            /\ sold'[s] = IF s \in S THEN sold[s] + 0 * Qty[o][s] ELSE sold[s]
        BY <3>2 DEF Post, Moved
      <3>5. Qty[o][s] \in Nat /\ reserved[s] \in Int /\ sold[s] \in Int
        BY InventoryAssumption DEF TypeOK
      <3> HIDE DEF S, N
      <3> QED
        BY <2>2, <3>1, <3>3, <3>4, <3>5
    <2>5. ASSUME NEW o \in Orders, Confirm(o)
          PROVE  reserved'[s] = N("RESERVED", s)' /\ sold'[s] = N("CONFIRMED", s)'
      <3> DEFINE S == Lines(o, ItemsOf(o), "RESERVED")
      <3>1. Post(o, S, "CONFIRMED", "CONFIRM", -1, 1) /\ ItemsOf(o) \in SUBSET Skus
        BY <2>5 DEF Confirm, ItemsOf
      <3>2. /\ s \in S => N("RESERVED", s) = N("RESERVED", s)' + Qty[o][s]
            /\ s \in S => N("CONFIRMED", s)' = N("CONFIRMED", s) + Qty[o][s]
            /\ s \notin S => N("RESERVED", s)' = N("RESERVED", s)
            /\ s \notin S => N("CONFIRMED", s)' = N("CONFIRMED", s)
        BY <3>1, PostUnits
      <3>3. /\ reserved'[s] = IF s \in S THEN reserved[s] + (-1) * Qty[o][s] ELSE reserved[s]
            /\ sold'[s] = IF s \in S THEN sold[s] + 1 * Qty[o][s] ELSE sold[s]
            /\ Qty[o][s] \in Nat /\ reserved[s] \in Int /\ sold[s] \in Int
        BY <3>1, PostCounters
      <3>4. N("RESERVED", s) \in Nat /\ N("RESERVED", s)' \in Nat
        BY <2>1
      <3> HIDE DEF S, N
      <3> QED
        BY <2>2, <3>2, <3>3, <3>4
    <2>6. ASSUME NEW o \in Orders, NEW X \in SUBSET Skus,
                 NEW st \in {"RELEASED", "EXPIRED"}, ReleaseAs(o, X, st)
          PROVE  reserved'[s] = N("RESERVED", s)' /\ sold'[s] = N("CONFIRMED", s)'
      <3> DEFINE S == Lines(o, X, "RESERVED")
      <3>1. Post(o, S, st, "RELEASE", -1, 0)
        BY <2>6 DEF ReleaseAs
      <3>2. /\ s \in S => N("RESERVED", s) = N("RESERVED", s)' + Qty[o][s]
            /\ s \notin S => N("RESERVED", s)' = N("RESERVED", s)
            /\ N("CONFIRMED", s)' = N("CONFIRMED", s)
        BY <3>1, PostUnits
      <3>3. /\ reserved'[s] = IF s \in S THEN reserved[s] + (-1) * Qty[o][s] ELSE reserved[s]
            /\ sold'[s] = IF s \in S THEN sold[s] + 0 * Qty[o][s] ELSE sold[s]
            /\ Qty[o][s] \in Nat /\ reserved[s] \in Int /\ sold[s] \in Int
        BY <3>1, PostCounters
      <3>4. N("RESERVED", s) \in Nat /\ N("RESERVED", s)' \in Nat
        BY <2>1
      <3> HIDE DEF S, N
      <3> QED
        BY <2>2, <3>2, <3>3, <3>4
    <2>7. ASSUME UNCHANGED <<reserved, sold, resv>>
          PROVE  reserved'[s] = N("RESERVED", s)' /\ sold'[s] = N("CONFIRMED", s)'
      BY <2>2, <2>7 DEF Holders
    <2> HIDE DEF N
    <2>8. ASSUME NEW a \in Admins, NEW x \in Skus, AdjustRead(a, x)
          PROVE  reserved'[s] = N("RESERVED", s)' /\ sold'[s] = N("CONFIRMED", s)'
      BY <2>7, <2>8 DEF AdjustRead
    <2>9. ASSUME NEW w \in adjust, AdjustWrite(w)
          PROVE  reserved'[s] = N("RESERVED", s)' /\ sold'[s] = N("CONFIRMED", s)'
      BY <2>7, <2>9 DEF AdjustWrite
    <2>10. CASE UNCHANGED invVars
      BY <2>7, <2>10 DEF invVars
    <2> QED
      BY <2>4, <2>5, <2>6, <2>8, <2>9, <2>10, NextCases
  <1> QED
    BY <1>1, <1>2, InventoryTyped, PTL DEF InvSpec

-----------------------------------------------------------------------------
(***************************************************************************)
(* What NoOverReserve needs of a state: a SET or a DECREASE in flight aims *)
(* at no less than the reserved units it read.                             *)
(***************************************************************************)
AdjustSound == \A w \in adjust : w.op # "INCREASE" => w.target >= w.seen.reserved

LEMMA AdjustSoundKept ==
  ASSUME TypeOK, AdjustSound, [InvNext]_invVars
  PROVE  AdjustSound'
  <1>1. CASE adjust' \subseteq adjust
    BY <1>1 DEF AdjustSound
  <1>2. ASSUME NEW a \in Admins, NEW s \in Skus, AdjustRead(a, s)
        PROVE  AdjustSound'
    <2>1. PICK op \in AdjustType : \E n \in AdjustTargets(op, s) :
            adjust' = adjust \cup
              {[admin |-> a, sku |-> s, op |-> op, target |-> n, seen |-> RowOf(s)]}
      BY <1>2 DEF AdjustRead
    <2>2. PICK n \in AdjustTargets(op, s) :
            adjust' = adjust \cup
              {[admin |-> a, sku |-> s, op |-> op, target |-> n, seen |-> RowOf(s)]}
      BY <2>1
    <2>3. op # "INCREASE" => n >= reserved[s]
      BY AdjustTargetsSound
    <2> QED
      BY <2>2, <2>3 DEF AdjustSound, RowOf
  <1> QED
    BY <1>1, <1>2, NextCases
       DEF Reserve, Confirm, ReleaseAs, Post, AdjustWrite, invVars

\* A call takes no units away that are not available.
LEMMA PostKeepsAvailable ==
  ASSUME TypeOK, NEW o \in Orders, NEW X, NEW st, NEW t, NEW dR \in {-1, 0, 1}, NEW dS,
         Post(o, X, st, t, dR, dS), NEW s \in Skus,
         s \in X => stock[s] - reserved[s] >= Qty[o][s] \/ dR = -1
  PROVE  Available(s)' >= 0 \/ Available(s)' >= Available(s)
  <1>1. stock'[s] = stock[s]
    BY DEF Post
  <1>2. reserved'[s] = IF s \in X THEN reserved[s] + dR * Qty[o][s] ELSE reserved[s]
    BY DEF Post, Moved
  <1>3. stock[s] \in Int /\ reserved[s] \in Int /\ Qty[o][s] \in Nat
    BY InventoryAssumption DEF TypeOK
  <1>4. dR = 1 => dR * Qty[o][s] = Qty[o][s]
    BY <1>3
  <1>5. dR = 0 => dR * Qty[o][s] = 0
    BY <1>3
  <1>6. dR = -1 => dR * Qty[o][s] = -Qty[o][s]
    BY <1>3
  <1> QED
    BY <1>1, <1>2, <1>3, <1>4, <1>5, <1>6 DEF Available

\* An adjustment's write does so only where NoOverReserve says it may.
LEMMA AdjustWriteAvailable ==
  ASSUME TypeOK, AdjustSound, NEW w \in adjust, AdjustWrite(w), NEW s \in Skus,
         Available(s)' < 0, Available(s)' < Available(s)
  PROVE  /\ w \in adjust \ adjust'
         /\ w.sku = s
         /\ \/ w.seen.reserved < reserved[s]
            \/ w.op = "INCREASE" /\ w.target < w.seen.reserved
  <1>1. w \in adjust \ adjust'
    BY DEF AdjustWrite
  <1>2. /\ stock[s] \in Int /\ reserved[s] \in Int
        /\ w.target \in Int /\ w.seen.reserved \in Int
    BY DEF TypeOK, Adjustment, Row
  <1>3. reserved'[s] = reserved[s]
    BY DEF AdjustWrite
  <1>4. w.sku = s /\ stock'[s] = w.target
    <2>1. stock'[s] = IF s = w.sku /\ w.target # w.seen.stock THEN w.target ELSE stock[s]
      BY DEF AdjustWrite, TypeOK
    <2>2. stock'[s] # stock[s]
      BY <1>2, <1>3 DEF Available
    <2> QED
      BY <2>1, <2>2
  <1>5. w.target < reserved[s]
    BY <1>2, <1>3, <1>4 DEF Available
  <1>6. w.op # "INCREASE" => w.target >= w.seen.reserved
    BY DEF AdjustSound
  <1> QED
    BY <1>1, <1>2, <1>4, <1>5, <1>6

(***************************************************************************)
(* Only the write of an adjustment takes away units that are promised: one *)
(* whose read a reserve overtook, or an INCREASE to less than the reserved *)
(* units it read.  For any number of orders, administrators and            *)
(* quantities, negative ones included.                                     *)
(***************************************************************************)
THEOREM ReserveBounded == InvSpec => NoOverReserve
  <1> DEFINE Bounded ==
        \A s \in Skus :
          Available(s)' < 0 /\ Available(s)' < Available(s)
            => \E w \in adjust \ adjust' :
                 /\ w.sku = s
                 /\ \/ w.seen.reserved < reserved[s]
                    \/ w.op = "INCREASE" /\ w.target < w.seen.reserved
  <1>1. InvInit => AdjustSound
    BY DEF InvInit, AdjustSound
  <1>2. TypeOK /\ AdjustSound /\ [InvNext]_invVars => AdjustSound'
    BY AdjustSoundKept
  <1>3. TypeOK /\ AdjustSound /\ [InvNext]_invVars => Bounded
    <2> SUFFICES ASSUME TypeOK, AdjustSound, [InvNext]_invVars, NEW s \in Skus,
                        Available(s)' < 0, Available(s)' < Available(s)
                 PROVE  \E w \in adjust \ adjust' :
                          /\ w.sku = s
                          /\ \/ w.seen.reserved < reserved[s]
                             \/ w.op = "INCREASE" /\ w.target < w.seen.reserved
      OBVIOUS
    <2>1. Available(s) \in Int
      BY DEF Available, TypeOK
    <2>2. ASSUME Available(s)' >= 0 \/ Available(s)' >= Available(s),
                 Available(s)' \in Int
          PROVE  FALSE
      BY <2>1, <2>2
    <2>3. Available(s)' \in Int
      BY TypeKept DEF Available, TypeOK
    <2>4. ASSUME NEW o \in Orders, Reserve(o)
          PROVE  FALSE
      <3>1. PICK d \in {-1, 0, 1} : d = 1
        OBVIOUS
      <3>2. Post(o, Lines(o, ItemsOf(o), "NONE"), "RESERVED", "RESERVE", d, 0)
        BY <2>4, <3>1 DEF Reserve
      <3>3. \A i \in Lines(o, ItemsOf(o), "NONE") : stock[i] - reserved[i] >= Qty[o][i]
        BY <2>4 DEF Reserve, CanReserve
      <3> QED
        BY <2>2, <2>3, <3>2, <3>3, PostKeepsAvailable
    <2>5. ASSUME NEW o \in Orders, Confirm(o)
          PROVE  FALSE
      BY <2>2, <2>3, <2>5, PostKeepsAvailable DEF Confirm
    <2>6. ASSUME NEW o \in Orders, NEW X \in SUBSET Skus,
                 NEW st \in {"RELEASED", "EXPIRED"}, ReleaseAs(o, X, st)
          PROVE  FALSE
      BY <2>2, <2>3, <2>6, PostKeepsAvailable DEF ReleaseAs
    <2>7. ASSUME stock' = stock, reserved' = reserved
          PROVE  FALSE
      BY <2>1, <2>2, <2>7 DEF Available
    <2>8. CASE \E w \in adjust : AdjustWrite(w)
      BY <2>8, AdjustWriteAvailable
    <2> QED
      BY <2>4, <2>5, <2>6, <2>7, <2>8, NextCases DEF AdjustRead, invVars
  <1> QED
    BY <1>1, <1>2, <1>3, InventoryTyped, PTL DEF InvSpec, NoOverReserve

-----------------------------------------------------------------------------
(***************************************************************************)
(* The newest ledger row of a SKU states its columns as they are, unless   *)
(* an adjustment was written over a row it had not read.  Inductive with   *)
(* TypeOK: every call writes the row it has just moved.                    *)
(***************************************************************************)
THEOREM LedgerTailAccurate == InvSpec => []LedgerTail
  <1>1. InvInit => LedgerTail
    BY DEF InvInit, LedgerTail, RowOf
  <1>2. TypeOK /\ LedgerTail /\ [InvNext]_invVars => LedgerTail'
    <2> SUFFICES ASSUME TypeOK, LedgerTail, [InvNext]_invVars
                 PROVE  LedgerTail'
      OBVIOUS
    <2>1. ASSUME NEW o \in Orders, NEW S \in SUBSET Skus, NEW st, NEW t, NEW dR, NEW dS,
                 Post(o, S, st, t, dR, dS)
          PROVE  LedgerTail'
      <3> SUFFICES ASSUME NEW s \in Skus, ~overwritten'[s]
                   PROVE  tail'[s] = RowOf(s)'
        BY DEF LedgerTail
      <3>1. CASE s \in S
        BY <2>1, <3>1 DEF Post, LedgerRow, Moved, RowOf
      <3>2. CASE s \notin S
        BY <2>1, <3>2 DEF Post, LedgerTail, RowOf
      <3> QED
        BY <3>1, <3>2
    <2>2. ASSUME NEW o \in Orders, Reserve(o)
          PROVE  LedgerTail'
      BY <2>1, <2>2 DEF Reserve, Lines, ItemsOf
    <2>3. ASSUME NEW o \in Orders, Confirm(o)
          PROVE  LedgerTail'
      BY <2>1, <2>3 DEF Confirm, Lines, ItemsOf
    <2>4. ASSUME NEW o \in Orders, NEW X \in SUBSET Skus,
                 NEW st \in {"RELEASED", "EXPIRED"}, ReleaseAs(o, X, st)
          PROVE  LedgerTail'
      BY <2>1, <2>4 DEF ReleaseAs, Lines
    <2>5. ASSUME NEW a \in Admins, NEW s \in Skus, AdjustRead(a, s)
          PROVE  LedgerTail'
      BY <2>5 DEF AdjustRead, LedgerTail, RowOf
    <2>6. ASSUME NEW w \in adjust, AdjustWrite(w)
          PROVE  LedgerTail'
      <3> SUFFICES ASSUME NEW s \in Skus, ~overwritten'[s]
                   PROVE  tail'[s] = RowOf(s)'
        BY DEF LedgerTail
      <3>1. ~overwritten[s] /\ (s = w.sku => w.seen = RowOf(s))
        BY <2>6 DEF AdjustWrite, TypeOK
      <3>2. CASE s = w.sku
        <4>1. tail'[s] = [w.seen EXCEPT !.stock = w.target]
          BY <2>6, <3>2 DEF AdjustWrite, TypeOK
        <4>2. w.seen = [stock |-> stock[s], reserved |-> reserved[s], sold |-> sold[s]]
          BY <3>1, <3>2 DEF RowOf
        <4>3. stock'[s] = w.target
          BY <2>6, <3>2, <4>2 DEF AdjustWrite, TypeOK
        <4>4. RowOf(s)' = [stock |-> w.target, reserved |-> reserved[s], sold |-> sold[s]]
          BY <2>6, <4>3 DEF AdjustWrite, RowOf
        <4> QED
          BY <4>1, <4>2, <4>4
      <3>3. CASE s # w.sku
        BY <2>6, <3>1, <3>3 DEF AdjustWrite, TypeOK, LedgerTail, RowOf
      <3> QED
        BY <3>2, <3>3
    <2>7. CASE UNCHANGED invVars
      BY <2>7 DEF invVars, LedgerTail, RowOf
    <2> QED
      BY <2>2, <2>3, <2>4, <2>5, <2>6, <2>7, NextCases
  <1> QED
    BY <1>1, <1>2, InventoryTyped, PTL DEF InvSpec

-----------------------------------------------------------------------------
\* Post changes the status of exactly order o's lines in S.
LEMMA PostStatus ==
  ASSUME TypeOK, NEW o \in Orders, NEW S, NEW st, NEW t, NEW dR, NEW dS,
         Post(o, S, st, t, dR, dS)
  PROVE  \A p \in Orders, s \in Skus :
           resv'[p][s] = IF p = o /\ s \in S THEN st ELSE resv[p][s]
  BY DEF Post, TypeOK

(***************************************************************************)
(* No call moves a line that is CONFIRMED, RELEASED or EXPIRED: reserve    *)
(* changes absent lines only, and the others RESERVED ones only.           *)
(***************************************************************************)
THEOREM SettledForGood == InvSpec => SettledIsFinal
  <1> DEFINE Kept == \A o \in Orders, s \in Skus :
                       resv[o][s] \in {"CONFIRMED", "RELEASED", "EXPIRED"}
                         => resv'[o][s] = resv[o][s]
  <1>1. TypeOK /\ [InvNext]_invVars => Kept
    <2> SUFFICES ASSUME TypeOK, [InvNext]_invVars
                 PROVE  Kept
      OBVIOUS
    <2>1. ASSUME NEW o \in Orders, Reserve(o)
          PROVE  Kept
      BY <2>1, PostStatus DEF Reserve, Lines
    <2>2. ASSUME NEW o \in Orders, Confirm(o)
          PROVE  Kept
      BY <2>2, PostStatus DEF Confirm, Lines
    <2>3. ASSUME NEW o \in Orders, NEW X \in SUBSET Skus,
                 NEW st \in {"RELEASED", "EXPIRED"}, ReleaseAs(o, X, st)
          PROVE  Kept
      BY <2>3, PostStatus DEF ReleaseAs, Lines
    <2>4. CASE resv' = resv
      BY <2>4
    <2> QED
      BY <2>1, <2>2, <2>3, <2>4, NextCases DEF AdjustRead, AdjustWrite, invVars
  <1> QED
    BY <1>1, InventoryTyped, PTL DEF InvSpec, SettledIsFinal

(***************************************************************************)
(* An order is confirmed whole or not at all.  Inductive with TypeOK:      *)
(* confirm needs every line RESERVED or CONFIRMED and settles all of them, *)
(* and a CONFIRMED line never leaves that status.                          *)
(***************************************************************************)
THEOREM ConfirmedWhole == InvSpec => []ConfirmedTogether
  <1>1. InvInit => ConfirmedTogether
    BY DEF InvInit, ConfirmedTogether
  <1>2. TypeOK /\ ConfirmedTogether /\ [InvNext]_invVars => ConfirmedTogether'
    <2> SUFFICES ASSUME TypeOK, ConfirmedTogether, [InvNext]_invVars,
                        NEW p \in Orders, NEW x \in Skus, resv'[p][x] = "CONFIRMED",
                        NEW y \in ItemsOf(p)
                 PROVE  resv'[p][y] = "CONFIRMED"
      BY DEF ConfirmedTogether, ItemsOf
    <2>0. y \in Skus
      BY DEF ItemsOf
    <2>1. ASSUME NEW o \in Orders, Reserve(o)
          PROVE  resv'[p][y] = "CONFIRMED"
      BY <2>0, <2>1, PostStatus DEF Reserve, Lines, ConfirmedTogether
    <2>2. ASSUME NEW o \in Orders, Confirm(o)
          PROVE  resv'[p][y] = "CONFIRMED"
      BY <2>0, <2>2, PostStatus DEF Confirm, CanConfirm, Lines, ConfirmedTogether
    <2>3. ASSUME NEW o \in Orders, NEW X \in SUBSET Skus,
                 NEW st \in {"RELEASED", "EXPIRED"}, ReleaseAs(o, X, st)
          PROVE  resv'[p][y] = "CONFIRMED"
      BY <2>0, <2>3, PostStatus DEF ReleaseAs, Lines, ConfirmedTogether
    <2>4. CASE resv' = resv
      BY <2>0, <2>4 DEF ConfirmedTogether
    <2> QED
      BY <2>1, <2>2, <2>3, <2>4, NextCases DEF AdjustRead, AdjustWrite, invVars
  <1> QED
    BY <1>1, <1>2, InventoryTyped, PTL DEF InvSpec

(***************************************************************************)
(* The ledger has exactly the rows a line's status accounts for, however   *)
(* often calls are repeated.  Inductive with TypeOK: a call writes one     *)
(* ledger row for a line exactly when it moves that line.                  *)
(***************************************************************************)
THEOREM LedgerAgrees == InvSpec => []LedgerOnce
  <1>1. InvInit => LedgerOnce
    BY DEF InvInit, LedgerOnce, TxnType
  <1>2. TypeOK /\ LedgerOnce /\ [InvNext]_invVars => LedgerOnce'
    <2> SUFFICES ASSUME TypeOK, LedgerOnce, [InvNext]_invVars
                 PROVE  LedgerOnce'
      OBVIOUS
    <2> DEFINE Told(status, rows) ==
                 /\ rows["RESERVE"] = IF status = "NONE" THEN 0 ELSE 1
                 /\ rows["CONFIRM"] = IF status = "CONFIRMED" THEN 1 ELSE 0
                 /\ rows["RELEASE"] = IF status \in {"RELEASED", "EXPIRED"} THEN 1 ELSE 0
    <2>0. \A p \in Orders, s \in Skus : /\ Told(resv[p][s], ledger[p][s])
                                       /\ ledger[p][s] \in [TxnType -> Nat]
      BY DEF LedgerOnce, TypeOK
    <2>1. ASSUME NEW o \in Orders, NEW X \in SUBSET Skus, NEW from, NEW to,
                 NEW t \in TxnType, NEW dR, NEW dS,
                 Post(o, Lines(o, X, from), to, t, dR, dS),
                 \/ from = "NONE" /\ to = "RESERVED" /\ t = "RESERVE"
                 \/ from = "RESERVED" /\ to = "CONFIRMED" /\ t = "CONFIRM"
                 \/ from = "RESERVED" /\ to \in {"RELEASED", "EXPIRED"} /\ t = "RELEASE"
          PROVE  LedgerOnce'
      <3> SUFFICES ASSUME NEW p \in Orders, NEW s \in Skus
                   PROVE  Told(resv'[p][s], ledger'[p][s])
        BY DEF LedgerOnce
      <3>1. resv'[p][s] = IF p = o /\ s \in Lines(o, X, from) THEN to ELSE resv[p][s]
        BY <2>1, PostStatus
      <3>2. ledger'[p][s] = IF p = o /\ s \in Lines(o, X, from)
                            THEN [ledger[p][s] EXCEPT ![t] = ledger[p][s][t] + 1]
                            ELSE ledger[p][s]
        BY <2>1 DEF Post, TypeOK
      <3>3. CASE p = o /\ s \in Lines(o, X, from)
        <4>1. resv[p][s] = from /\ resv'[p][s] = to
          BY <3>1, <3>3 DEF Lines
        <4>2. ledger'[p][s] = [ledger[p][s] EXCEPT ![t] = ledger[p][s][t] + 1]
          BY <3>2, <3>3
        <4> QED
          BY <2>0, <2>1, <4>1, <4>2 DEF TxnType
      <3>4. CASE ~(p = o /\ s \in Lines(o, X, from))
        BY <2>0, <3>1, <3>2, <3>4
      <3> QED
        BY <3>3, <3>4
    <2>2. ASSUME NEW o \in Orders, Reserve(o)
          PROVE  LedgerOnce'
      BY <2>1, <2>2 DEF Reserve, ItemsOf, TxnType
    <2>3. ASSUME NEW o \in Orders, Confirm(o)
          PROVE  LedgerOnce'
      BY <2>1, <2>3 DEF Confirm, ItemsOf, TxnType
    <2>4. ASSUME NEW o \in Orders, NEW X \in SUBSET Skus,
                 NEW st \in {"RELEASED", "EXPIRED"}, ReleaseAs(o, X, st)
          PROVE  LedgerOnce'
      BY <2>1, <2>4 DEF ReleaseAs, TxnType
    <2>5. CASE UNCHANGED <<resv, ledger>>
      BY <2>5 DEF LedgerOnce
    <2> QED
      BY <2>2, <2>3, <2>4, <2>5, NextCases DEF AdjustRead, AdjustWrite, invVars
  <1> QED
    BY <1>1, <1>2, InventoryTyped, PTL DEF InvSpec

-----------------------------------------------------------------------------
(***************************************************************************)
(* What StockPromise sees of the reservation rows.                         *)
(***************************************************************************)
Seen == [o \in Orders |-> [s \in ItemsOf(o) |-> Outcome(resv[o][s])]]

LEMMA OutcomeOf ==
  ASSUME NEW st \in ReservationStatus
  PROVE  /\ Outcome(st) = "open" <=> st = "NONE"
         /\ Outcome(st) = "held" <=> st = "RESERVED"
         /\ Outcome(st) = "sold" <=> st = "CONFIRMED"
         /\ st \in {"RELEASED", "EXPIRED"} => Outcome(st) = "returned"
  BY DEF Outcome, ReservationStatus

\* A call that moves the lines in S moves what is seen of them, and no more.
LEMMA PostSeen ==
  ASSUME TypeOK, NEW o \in Orders, NEW S, NEW st, NEW t, NEW dR, NEW dS,
         Post(o, S, st, t, dR, dS)
  PROVE  Seen' = [Seen EXCEPT ![o] =
           [s \in ItemsOf(o) |-> IF s \in S THEN Outcome(st) ELSE Seen[o][s]]]
  <1>1. ASSUME NEW p \in Orders, NEW s \in ItemsOf(p)
        PROVE  Outcome(resv'[p][s])
                 = IF p = o /\ s \in S THEN Outcome(st) ELSE Outcome(resv[p][s])
    <2>1. s \in Skus
      BY DEF ItemsOf
    <2>2. resv'[p][s] = IF p = o /\ s \in S THEN st ELSE resv[p][s]
      BY <2>1, PostStatus
    <2> QED
      BY <2>2
  <1> DEFINE Now(p) == [s \in ItemsOf(p) |-> Outcome(resv[p][s])]
             Then(p) == [s \in ItemsOf(p) |-> Outcome(resv'[p][s])]
             Moves == [s \in ItemsOf(o) |-> IF s \in S THEN Outcome(st) ELSE Seen[o][s]]
  <1>2. Seen = [p \in Orders |-> Now(p)] /\ Seen' = [p \in Orders |-> Then(p)]
    BY DEF Seen, ItemsOf
  <1>3. Then(o) = Moves
    <2>1. \A s \in ItemsOf(o) : Seen[o][s] = Outcome(resv[o][s])
      BY DEF Seen
    <2> QED
      BY <1>1, <2>1
  <1>4. \A p \in Orders : p # o => Then(p) = Now(p)
    BY <1>1
  <1> HIDE DEF Now, Then, Moves
  <1>5. Seen' = [Seen EXCEPT ![o] = Moves]
    BY <1>2, <1>3, <1>4
  <1> QED
    BY <1>5 DEF Moves

(***************************************************************************)
(* The inventory implements StockPromise: reserve holds the lines that     *)
(* were open, confirm sells the order whole or not at all, a release or an *)
(* expiry returns held lines, and a manual adjustment shows nothing.       *)
(***************************************************************************)
THEOREM PromiseKept == InvSpec => KeepsPromise
  <1>1. InvInit => Promise!Init
    BY OutcomeOf DEF InvInit, Promise!Init, ItemsOf, Outcome
  <1>2. TypeOK /\ [InvNext]_invVars => [Promise!Next]_Seen
    <2> SUFFICES ASSUME TypeOK, [InvNext]_invVars
                 PROVE  Promise!Next \/ Seen' = Seen
      OBVIOUS
    <2>0. \A p \in Orders : \A s \in ItemsOf(p) :
            /\ s \in Skus
            /\ resv[p][s] \in ReservationStatus
            /\ Seen[p][s] = Outcome(resv[p][s])
      BY DEF Seen, TypeOK, ItemsOf
    <2>1. ASSUME NEW o \in Orders, NEW S, NEW st,
                 Seen' = [Seen EXCEPT ![o] =
                   [s \in ItemsOf(o) |-> IF s \in S THEN st ELSE Seen[o][s]]]
          PROVE  Promise!Become(o, S, st)
      BY <2>1 DEF Promise!Become, Seen
    <2>2. ASSUME NEW o \in Orders, Reserve(o)
          PROVE  Promise!Hold(o)
      <3> DEFINE S == Lines(o, ItemsOf(o), "NONE")
      <3>1. Seen' = [Seen EXCEPT ![o] =
              [s \in ItemsOf(o) |-> IF s \in S THEN "held" ELSE Seen[o][s]]]
        BY <2>2, PostSeen DEF Reserve, Outcome
      <3>2. S = {s \in ItemsOf(o) : Seen[o][s] = "open"}
        BY <2>0, OutcomeOf DEF Lines
      <3> HIDE DEF S
      <3> QED
        BY <2>1, <3>1, <3>2 DEF Promise!Hold, Seen
    <2>3. ASSUME NEW o \in Orders, Confirm(o)
          PROVE  Promise!Sell(o)
      <3> DEFINE S == Lines(o, ItemsOf(o), "RESERVED")
      <3>1. \A s \in ItemsOf(o) : /\ Seen[o][s] \in {"held", "sold"}
                                  /\ s \notin S => Seen[o][s] = "sold"
        BY <2>0, <2>3, OutcomeOf DEF Confirm, CanConfirm, Lines
      <3>2. Seen' = [Seen EXCEPT ![o] =
              [s \in ItemsOf(o) |-> IF s \in S THEN "sold" ELSE Seen[o][s]]]
        BY <2>3, PostSeen DEF Confirm, Outcome
      <3>3. [s \in ItemsOf(o) |-> IF s \in S THEN "sold" ELSE Seen[o][s]]
              = [s \in ItemsOf(o) |-> IF s \in ItemsOf(o) THEN "sold" ELSE Seen[o][s]]
        BY <3>1
      <3> HIDE DEF S
      <3>4. Promise!Become(o, ItemsOf(o), "sold")
        BY <2>1, <3>2, <3>3
      <3> QED
        BY <3>1, <3>4 DEF Promise!Sell, Seen
    <2>4. ASSUME NEW o \in Orders, NEW X \in SUBSET Skus,
                 NEW st \in {"RELEASED", "EXPIRED"}, ReleaseAs(o, X, st)
          PROVE  Promise!Next
      <3> DEFINE S == {s \in ItemsOf(o) : s \in Lines(o, X, "RESERVED")}
      <3>1. Outcome(st) = "returned"
        BY <2>4, OutcomeOf DEF ReservationStatus
      <3>2. Seen' = [Seen EXCEPT ![o] = [s \in ItemsOf(o) |->
              IF s \in Lines(o, X, "RESERVED") THEN "returned" ELSE Seen[o][s]]]
        BY <2>4, <3>1, PostSeen DEF ReleaseAs
      <3>3. Seen' = [Seen EXCEPT ![o] =
              [s \in ItemsOf(o) |-> IF s \in S THEN "returned" ELSE Seen[o][s]]]
        BY <3>2
      <3>4. S \in SUBSET ItemsOf(o) /\ \A s \in S : Seen[o][s] = "held"
        BY <2>0, OutcomeOf DEF Lines
      <3> HIDE DEF S
      <3>5. Promise!Return(o, S)
        BY <2>1, <3>3, <3>4 DEF Promise!Return, Seen
      <3> QED
        BY <3>4, <3>5 DEF Promise!Next
    <2>5. CASE resv' = resv
      BY <2>5 DEF Seen
    <2> QED
      BY <2>2, <2>3, <2>4, <2>5, NextCases
         DEF Promise!Next, AdjustRead, AdjustWrite, invVars
  <1> QED
    BY <1>1, <1>2, InventoryTyped, PTL DEF InvSpec, KeepsPromise, Promise!Spec, Seen
=============================================================================
