-------------------------- MODULE StorefrontProofs ---------------------------
(***************************************************************************)
(* What holds of the ids, the catalogue and the carts for any width of the *)
(* sequence, any course of the clock, and any products, shoppers and       *)
(* requests.                                                               *)
(***************************************************************************)
EXTENDS Storefront, TLAPS, FiniteSetTheorems, SequenceTheorems, WellFoundedInduction

-----------------------------------------------------------------------------
(***************************************************************************)
(* As long as the clock has not stepped back it is not behind the last id, *)
(* and every id is of an earlier millisecond than the last one or has a    *)
(* number of that millisecond that was counted.                            *)
(***************************************************************************)
IdInv ==
  /\ IdTypeOK
  /\ IdsGrow
  /\ ~stepped =>
       /\ last <= clock
       /\ \A i \in issued : i[1] < last \/ (i[1] = last /\ (spinning \/ i[2] <= sequence))

LEMMA ReturnKeeps ==
  ASSUME IdInv, NEW id \in Ids, Return(id), UNCHANGED <<clock, stepped>>,
         ~stepped => id[1] <= clock /\ \A i \in issued : Before(i, id),
         spinning' \in BOOLEAN
  PROVE  IdInv'
  <1>1. id[1] \in Times /\ id[2] \in 0..MaxSequence
    BY DEF Ids
  <1>2. \A i \in issued : i[1] \in Int /\ i[2] \in Int
    BY SnowflakeAssumption DEF IdInv, IdTypeOK, Ids, Times
  <1>3. IdTypeOK'
    BY <1>1 DEF IdInv, IdTypeOK, Return
  <1>4. IdsGrow'
    BY DEF IdInv, IdsGrow, Return
  <1>5. ASSUME ~stepped', NEW i \in issued'
        PROVE  i[1] < last' \/ (i[1] = last' /\ (spinning' \/ i[2] <= sequence'))
    <2>1. CASE i = id
      BY <1>1, <2>1, SnowflakeAssumption DEF Return, Times
    <2>2. CASE i \in issued
      BY <1>1, <1>2, <1>5, <2>2, SnowflakeAssumption DEF Return, Before, Times
    <2> QED
      BY <1>5, <2>1, <2>2 DEF Return
  <1>6. ~stepped' => last' <= clock'
    BY DEF Return
  <1> QED
    BY <1>3, <1>4, <1>5, <1>6 DEF IdInv

LEMMA IdStep == ASSUME IdInv, [IdNext]_idVars PROVE IdInv'
  <1>0. /\ clock \in Int /\ last \in Int /\ sequence \in Int /\ MaxSequence \in Int
        /\ \A i \in issued : i[1] \in Int /\ i[2] \in Int
    BY SnowflakeAssumption DEF IdInv, IdTypeOK, Ids, Times
  <1>1. ASSUME NEW id \in Ids, NextId(id) PROVE IdInv'
    <2>1. ~stepped => id[1] <= clock /\ \A i \in issued : Before(i, id)
      BY <1>0, <1>1 DEF NextId, IdInv, Before
    <2> QED
      BY <1>1, <2>1, ReturnKeeps DEF NextId, IdInv, IdTypeOK
  <1>2. ASSUME NEW id \in Ids, SpinEnds(id) PROVE IdInv'
    <2>1. ~stepped => id[1] <= clock /\ \A i \in issued : Before(i, id)
      BY <1>0, <1>2 DEF SpinEnds, IdInv, Before
    <2> QED
      BY <1>2, <2>1, ReturnKeeps DEF SpinEnds
  <1>3. CASE Exhaust
    <2>1. IdTypeOK' /\ IdsGrow'
      BY <1>0, <1>3 DEF Exhaust, IdInv, IdTypeOK, IdsGrow
    <2>2. ASSUME ~stepped', NEW i \in issued'
          PROVE  i[1] < last' \/ (i[1] = last' /\ spinning')
      BY <1>3, <2>2 DEF Exhaust, IdInv
    <2>3. ~stepped' => last' <= clock'
      BY <1>3 DEF Exhaust, IdInv
    <2> QED
      BY <2>1, <2>2, <2>3 DEF IdInv
  <1>4. CASE Tick
    BY <1>0, <1>4, SnowflakeAssumption DEF Tick, IdInv, IdTypeOK, IdsGrow, Times
  <1>5. CASE StepBack
    BY <1>0, <1>5, SnowflakeAssumption DEF StepBack, IdInv, IdTypeOK, IdsGrow, Times
  <1>6. CASE UNCHANGED idVars
    BY <1>6 DEF idVars, IdInv, IdTypeOK, IdsGrow
  <1> QED
    <2>1. ASSUME \E id \in Ids : NextId(id) \/ SpinEnds(id)
          PROVE  IdInv'
      BY <1>1, <1>2, <2>1
    <2> QED
      BY <1>3, <1>4, <1>5, <1>6, <2>1 DEF IdNext, ClockStep

LEMMA IdStarts == ASSUME IdInit PROVE IdInv
  <1>0. 0 \in Times /\ 0 \in 0..MaxSequence
    BY SnowflakeAssumption DEF Times
  <1>1. IdTypeOK /\ IdsGrow
    BY <1>0 DEF IdInit, IdTypeOK, IdsGrow
  <1>2. last <= clock /\ issued = {}
    BY DEF IdInit, Times
  <1> QED
    BY <1>1, <1>2 DEF IdInv

LEMMA IdInvHolds == IdSpec => []IdInv
  <1>1. IdInit => IdInv
    BY IdStarts
  <1>2. IdInv /\ [IdNext]_idVars => IdInv'
    BY IdStep
  <1> QED
    BY <1>1, <1>2, PTL DEF IdSpec

(***************************************************************************)
(* The state of the generator stays in its types: the sequence never       *)
(* leaves its bits.                                                        *)
(***************************************************************************)
THEOREM IdsTyped == IdSpec => []IdTypeOK
  <1>1. IdInv => IdTypeOK
    BY DEF IdInv
  <1> QED
    BY <1>1, IdInvHolds, PTL

(***************************************************************************)
(* Ids grow from call to call, so none is returned twice, unless the clock *)
(* stepped back.                                                           *)
(***************************************************************************)
THEOREM IdsAlwaysGrow == IdSpec => []IdsGrow
  <1>1. IdInv => IdsGrow
    BY DEF IdInv
  <1> QED
    BY <1>1, IdInvHolds, PTL

-----------------------------------------------------------------------------
(***************************************************************************)
(* The categories.  Drawing ids for them is all that happens to the        *)
(* generator, so its promises carry over; but the tree does not rely on    *)
(* them, only on the primary key.                                          *)
(***************************************************************************)
THEOREM CategoriesDrawIds == CategorySpec => IdSpec
  <1>1. CategoryInit => IdInit
    BY DEF CategoryInit
  <1>2. [CategoryNext]_<<idVars, catalogVars>> => [IdNext]_idVars
    <2>1. ASSUME NEW p, NEW id \in Ids, CreateCategory(p, id) PROVE IdNext
      BY <2>1 DEF CreateCategory, IdNext
    <2>2. ASSUME (Exhaust \/ ClockStep) PROVE IdNext
      BY <2>2 DEF IdNext
    <2> QED
      BY <2>1, <2>2 DEF CategoryNext
  <1> QED
    BY <1>1, <1>2, PTL DEF CategorySpec, IdSpec

(***************************************************************************)
(* While categories are created the ids grow unless the clock stepped      *)
(* back.                                                                   *)
(***************************************************************************)
THEOREM CategoryIdsGrow == CategorySpec => []IdsGrow
  BY CategoriesDrawIds, IdsAlwaysGrow, PTL

ExtendsPath(d, u) ==
  /\ d.parent = u.id
  /\ d.path = Append(u.path, d.id)
  /\ d.depth = u.depth + 1

TopRow(d) == d.parent = NoCategory /\ d.depth = 1 /\ d.path = <<d.id>>

(***************************************************************************)
(* A row is at the top, or extends the path of its parent's row by its id. *)
(***************************************************************************)
TreeInv ==
  /\ category \subseteq CategoryRow
  /\ \A c, d \in category : c.id = d.id => c = d
  /\ \A d \in category : Len(d.path) = d.depth /\ d.path[d.depth] = d.id
  /\ \A d \in category : TopRow(d) \/ \E u \in category : ExtendsPath(d, u)
  /\ \A d \in category : \E c \in category : TopRow(c) /\ IsPrefix(c.path, d.path)

LEMMA PrefixByItems ==
  ASSUME NEW S, NEW s \in Seq(S), NEW t \in Seq(S)
  PROVE  IsPrefix(s, t) <=> Len(s) <= Len(t) /\ \A i \in 1..Len(s) : s[i] = t[i]
  <1>1. Len(s) \in Nat /\ Len(t) \in Nat
    BY LenProperties
  <1>2. SubSeq(s, 1, Len(s)) = s
    BY SubSeqFull
  <1>3. ASSUME Len(s) <= Len(t)
        PROVE  /\ SubSeq(t, 1, Len(s)) \in Seq(S)
               /\ Len(SubSeq(t, 1, Len(s))) = Len(s)
               /\ \A i \in 1..Len(s) : SubSeq(t, 1, Len(s))[i] = t[i]
    <2>1. \A i \in 1..Len(s) : t[i] \in S
      BY <1>1, <1>3, ElementOfSeq
    <2>2. /\ SubSeq(t, 1, Len(s)) \in Seq(S)
          /\ Len(SubSeq(t, 1, Len(s))) = IF 1 <= Len(s) THEN Len(s) - 1 + 1 ELSE 0
          /\ \A i \in 1..Len(s) - 1 + 1 : SubSeq(t, 1, Len(s))[i] = t[1 + i - 1]
      BY <1>1, <2>1, SubSeqProperties
    <2> QED
      BY <1>1, <2>2
  <1>4. ASSUME Len(s) <= Len(t), \A i \in 1..Len(s) : s[i] = t[i]
        PROVE  s = SubSeq(t, 1, Len(s))
    <2>1. \A i \in 1..Len(s) : s[i] = SubSeq(t, 1, Len(s))[i]
      BY <1>3, <1>4
    <2> QED
      BY <1>3, <1>4, <2>1, SeqEqual
  <1>5. ASSUME IsPrefix(s, t)
        PROVE  Len(s) <= Len(t) /\ \A i \in 1..Len(s) : s[i] = t[i]
    <2>1. Len(s) <= Len(t) /\ s = SubSeq(t, 1, Len(s))
      BY <1>2, <1>5 DEF IsPrefix
    <2> QED
      BY <1>3, <2>1
  <1>6. ASSUME Len(s) <= Len(t), \A i \in 1..Len(s) : s[i] = t[i]
        PROVE  IsPrefix(s, t)
    BY <1>2, <1>4, <1>6 DEF IsPrefix
  <1> QED
    BY <1>5, <1>6

\* The prefixes of a path that was extended by one id.
LEMMA PrefixOfAppend ==
  ASSUME NEW s \in Seq(Ids), NEW t \in Seq(Ids), NEW id \in Ids
  PROVE  /\ Append(t, id) \in Seq(Ids) /\ Len(Append(t, id)) = Len(t) + 1
         /\ Append(t, id)[Len(t) + 1] = id
         /\ IsPrefix(s, t) => IsPrefix(s, Append(t, id))
         /\ IsPrefix(s, Append(t, id)) /\ Len(s) <= Len(t) => IsPrefix(s, t)
  <1>1. /\ Append(t, id) \in Seq(Ids) /\ Len(Append(t, id)) = Len(t) + 1
        /\ \A i \in 1..Len(t) : Append(t, id)[i] = t[i]
        /\ Append(t, id)[Len(t) + 1] = id
    BY AppendProperties
  <1>2. Len(s) \in Nat /\ Len(t) \in Nat
    BY LenProperties
  <1>3. IsPrefix(s, t) <=> Len(s) <= Len(t) /\ \A i \in 1..Len(s) : s[i] = t[i]
    BY PrefixByItems
  <1>4. IsPrefix(s, Append(t, id)) <=>
          Len(s) <= Len(Append(t, id)) /\ \A i \in 1..Len(s) : s[i] = Append(t, id)[i]
    BY <1>1, PrefixByItems
  <1> QED
    BY <1>1, <1>2, <1>3, <1>4

LEMMA TreeStep ==
  ASSUME TreeInv, [CategoryNext]_<<idVars, catalogVars>>
  PROVE  TreeInv'
  <1>1. CASE category' = category
    BY <1>1 DEF TreeInv, TopRow, ExtendsPath
  <1>2. ASSUME NEW p \in {c.id : c \in category} \cup {NoCategory}, NEW id \in Ids,
               CreateCategory(p, id), ~ \E c \in category : c.id = id
        PROVE  TreeInv'
    <2>1. category' = category \cup {Row(id, p)}
      BY <1>2 DEF CreateCategory
    <2>2. PICK new : new = Row(id, p)
      OBVIOUS
    <2>3. \A c \in category : c \in CategoryRow /\ c.path \in Seq(Ids) /\ c.depth \in 1..MaxDepth
      BY DEF TreeInv, CategoryRow
    <2>4. <<id>> \in Seq(Ids) /\ Len(<<id>>) = 1 /\ <<id>>[1] = id /\ MaxDepth \in Nat \ {0}
      BY CatalogAssumption
    <2>5. /\ new \in CategoryRow /\ new.id = id
          /\ Len(new.path) = new.depth /\ new.path[new.depth] = id
          /\ TopRow(new) \/ \E u \in category : ExtendsPath(new, u)
          /\ \E c \in category \cup {new} : TopRow(c) /\ IsPrefix(c.path, new.path)
      <3>1. CASE p = NoCategory
        <4>1. new = [id |-> id, parent |-> NoCategory, path |-> <<id>>, depth |-> 1]
          BY <2>2, <3>1 DEF Row
        <4>2. new \in CategoryRow
          BY <2>4, <4>1 DEF CategoryRow
        <4>3. TopRow(new)
          BY <4>1 DEF TopRow
        <4>4. IsPrefix(new.path, new.path)
          <5>1. PICK s \in Seq(Ids) : s = <<id>>
            BY <2>4
          <5>2. Len(s) <= Len(s)
            BY LenProperties
          <5>3. IsPrefix(s, s)
            BY <5>2 DEF IsPrefix
          <5> QED
            BY <4>1, <5>1, <5>3
        <4> QED
          BY <2>4, <4>1, <4>2, <4>3, <4>4
      <3>2. CASE p # NoCategory
        <4>1. PICK up \in category : up.id = p /\ up.depth < MaxDepth
          BY <1>2, <3>2 DEF CreateCategory
        <4>2. (CHOOSE c \in category : c.id = p) = up
          <5>1. \A c \in category : c.id = p => c = up
            BY <4>1 DEF TreeInv
          <5> QED
            BY <4>1, <5>1
        <4>3. new = [id |-> id, parent |-> p, path |-> Append(up.path, id), depth |-> up.depth + 1]
          BY <2>2, <3>2, <4>2 DEF Row
        <4>4. /\ Append(up.path, id) \in Seq(Ids) /\ Len(Append(up.path, id)) = Len(up.path) + 1
              /\ Append(up.path, id)[Len(up.path) + 1] = id
          BY <2>3, PrefixOfAppend
        <4>5. up.depth + 1 \in 1..MaxDepth /\ p \in Ids
          BY <2>3, <2>4, <4>1 DEF CategoryRow
        <4>6. new \in CategoryRow
          BY <4>3, <4>4, <4>5 DEF CategoryRow
        <4>7. ExtendsPath(new, up)
          BY <4>1, <4>3 DEF ExtendsPath
        <4>8. Len(new.path) = new.depth /\ new.path[new.depth] = id
          BY <4>3, <4>4 DEF TreeInv
        <4>9. PICK c \in category : TopRow(c) /\ IsPrefix(c.path, up.path)
          BY DEF TreeInv
        <4>10. IsPrefix(c.path, new.path)
          BY <2>3, <4>3, <4>9, PrefixOfAppend
        <4> QED
          BY <4>3, <4>6, <4>7, <4>8, <4>9, <4>10
      <3> QED
        BY <3>1, <3>2
    <2>6. category' = category \cup {new}
      BY <2>1, <2>2
    <2>7. category' \subseteq CategoryRow
      BY <2>5, <2>6 DEF TreeInv
    <2>8. \A c, d \in category' : c.id = d.id => c = d
      BY <1>2, <2>5, <2>6 DEF TreeInv
    <2>9. \A d \in category' : Len(d.path) = d.depth /\ d.path[d.depth] = d.id
      BY <2>5, <2>6 DEF TreeInv
    <2>10. \A d \in category' : TopRow(d) \/ \E u \in category' : ExtendsPath(d, u)
      BY <2>5, <2>6 DEF TreeInv
    <2>11. \A d \in category' : \E c \in category' : TopRow(c) /\ IsPrefix(c.path, d.path)
      BY <2>5, <2>6 DEF TreeInv
    <2> QED
      BY <2>7, <2>8, <2>9, <2>10, <2>11 DEF TreeInv, TopRow, ExtendsPath
  <1> QED
    BY <1>1, <1>2 DEF CategoryNext, CreateCategory, catalogVars

LEMMA TreeInvHolds == CategorySpec => []TreeInv
  <1>1. CategoryInit => TreeInv
    BY DEF CategoryInit, CatalogInit, TreeInv
  <1> QED
    BY <1>1, TreeStep, PTL DEF CategorySpec

(***************************************************************************)
(* The rows of the categories have their types, whatever the clock does:   *)
(* none is deeper than allowed, as its depth is its parent's plus one and  *)
(* neither changes later.                                                  *)
(***************************************************************************)
THEOREM CategoriesTyped == CategorySpec => []CatalogTypeOK
  <1> DEFINE Rest == /\ product \in [Products -> ProductRow]
                          /\ edit \in [Editors -> Edit \cup {NoEdit}]
  <1>1. CategoryInit => Rest
    BY DEF CategoryInit, CatalogInit, ProductRow, SpuStatus
  <1>2. Rest /\ [CategoryNext]_<<idVars, catalogVars>> => Rest'
    BY DEF CategoryNext, CreateCategory, catalogVars
  <1>3. TreeInv /\ Rest => CatalogTypeOK
    BY DEF TreeInv, CatalogTypeOK
  <1> QED
    BY <1>1, <1>2, <1>3, TreeInvHolds, PTL DEF CategorySpec

LEMMA Least ==
  ASSUME NEW T \in SUBSET Nat, T # {}
  PROVE  \E n \in T : \A m \in T : n <= m
  <1>1. PICK n \in T : \A m \in T : <<m, n>> \notin OpToRel(<, Nat)
    BY NatLessThanWellFounded, WFMin
  <1> QED
    <2>1. ASSUME NEW m \in T, m < n PROVE FALSE
      <3>1. <<m, n>> \in OpToRel(<, Nat)
        BY <2>1 DEF OpToRel
      <3> QED
        BY <1>1, <3>1
    <2>2. \A m \in T : n <= m
      BY <2>1
    <2> QED
      BY <2>2

\* The level n below c by parent_id, and by path.
LevelOf(c, n) == {d \in category : IsPrefix(c.path, d.path) /\ d.depth = c.depth + n}

IsLevels(level, c) ==
  level = [n \in 0..MaxDepth |->
             IF n = 0 THEN {c} ELSE {d \in category : \E u \in level[n - 1] : d.parent = u.id}]

LEMMA TopLevel ==
  ASSUME TreeInv, NEW c \in category
  PROVE  LevelOf(c, 0) = {c}
  <1>1. \A d \in category : d.path \in Seq(Ids) /\ d.depth \in 1..MaxDepth
                            /\ Len(d.path) = d.depth /\ d.path[d.depth] = d.id
    BY DEF TreeInv, CategoryRow
  <1>2. IsPrefix(c.path, c.path)
    BY <1>1, PrefixByItems, CatalogAssumption
  <1>3. ASSUME NEW d \in category, IsPrefix(c.path, d.path), d.depth = c.depth PROVE d = c
    <2>1. \A i \in 1..c.depth : c.path[i] = d.path[i]
      BY <1>1, <1>3, PrefixByItems
    <2>2. c.id = d.id
      BY <1>1, <1>3, <2>1, CatalogAssumption
    <2> QED
      BY <2>2 DEF TreeInv
  <1> QED
    BY <1>1, <1>2, <1>3, CatalogAssumption DEF LevelOf

LEMMA NextLevel ==
  ASSUME TreeInv, NEW c \in category, NEW n \in Nat \ {0}
  PROVE  LevelOf(c, n) = {d \in category : \E u \in LevelOf(c, n - 1) : d.parent = u.id}
  <1>1. \A d \in category : /\ d.path \in Seq(Ids) /\ d.depth \in 1..MaxDepth /\ d.id \in Ids
                            /\ Len(d.path) = d.depth
    BY DEF TreeInv, CategoryRow
  <1>2. ASSUME NEW d \in LevelOf(c, n) PROVE \E u \in LevelOf(c, n - 1) : d.parent = u.id
    <2>1. d.depth > 1 /\ d \in category /\ IsPrefix(c.path, d.path) /\ d.depth = c.depth + n
      BY <1>1, CatalogAssumption DEF LevelOf
    <2>2. PICK u \in category : ExtendsPath(d, u)
      BY <2>1 DEF TreeInv, TopRow
    <2>3. u.depth = c.depth + (n - 1) /\ Len(c.path) <= Len(u.path)
      <3>1. /\ u.depth \in Int /\ c.depth \in Int /\ Len(c.path) = c.depth
            /\ Len(u.path) = u.depth /\ d.depth = u.depth + 1
        BY <1>1, <2>2, CatalogAssumption DEF ExtendsPath
      <3> QED
        BY <2>1, <3>1
    <2>4. IsPrefix(c.path, u.path)
      BY <1>1, <2>1, <2>2, <2>3, PrefixOfAppend DEF ExtendsPath
    <2> QED
      BY <2>2, <2>3, <2>4 DEF LevelOf, ExtendsPath
  <1>3. ASSUME NEW d \in category, NEW u \in LevelOf(c, n - 1), d.parent = u.id
        PROVE  d \in LevelOf(c, n)
    <2>1. u \in category /\ IsPrefix(c.path, u.path) /\ u.depth = c.depth + (n - 1)
      BY DEF LevelOf
    <2>2. ~TopRow(d)
      BY <1>1, <1>3, <2>1, CatalogAssumption DEF TopRow
    <2>3. PICK v \in category : ExtendsPath(d, v)
      BY <2>2 DEF TreeInv
    <2>4. v = u
      BY <1>3, <2>1, <2>3 DEF TreeInv, ExtendsPath
    <2>5. d.path = Append(u.path, d.id) /\ d.depth = c.depth + n
      BY <1>1, <2>1, <2>3, <2>4, CatalogAssumption DEF ExtendsPath
    <2>6. IsPrefix(c.path, d.path)
      BY <1>1, <2>1, <2>5, PrefixOfAppend
    <2> QED
      BY <2>5, <2>6 DEF LevelOf
  <1>4. \A d \in LevelOf(c, n) : d \in category
    BY DEF LevelOf
  <1> QED
    BY <1>2, <1>3, <1>4

LEMMA LevelsByPath ==
  ASSUME TreeInv, NEW c \in category, NEW level, IsLevels(level, c)
  PROVE  \A n \in 0..MaxDepth : level[n] = LevelOf(c, n)
  <1> DEFINE wrong == {n \in 0..MaxDepth : level[n] # LevelOf(c, n)}
  <1>0. MaxDepth \in Nat \ {0}
    BY CatalogAssumption
  <1>1. ASSUME wrong # {} PROVE FALSE
    <2>1. wrong \in SUBSET Nat
      BY <1>0
    <2>2. PICK n \in wrong : \A m \in wrong : n <= m
      BY <1>1, <2>1, Least
    <2>3. n \in 0..MaxDepth /\ n \in Nat /\ level[n] # LevelOf(c, n)
      BY <1>0, <2>2
    <2>4. CASE n = 0
      BY <2>3, <2>4, TopLevel DEF IsLevels
    <2>5. CASE n # 0
      <3>1. n - 1 \in 0..MaxDepth /\ n \in Nat \ {0}
        BY <1>0, <2>3, <2>5
      <3>2. level[n - 1] = LevelOf(c, n - 1)
        BY <2>2, <2>3, <3>1
      <3>3. level[n] = {d \in category : \E u \in level[n - 1] : d.parent = u.id}
        BY <2>3, <2>5 DEF IsLevels
      <3> QED
        BY <2>3, <3>1, <3>2, <3>3, NextLevel
    <2> QED
      BY <2>4, <2>5
  <1> QED
    BY <1>1

LEMMA SubtreeIsBelow ==
  ASSUME TreeInv, NEW c \in category
  PROVE  Below(c) = Subtree(c)
  <1> DEFINE level == CHOOSE level : IsLevels(level, c)
  <1>0. MaxDepth \in Nat \ {0}
    BY CatalogAssumption
  <1>1. Below(c) = UNION {level[n] : n \in 0..MaxDepth}
    BY DEF Below, IsLevels
  <1>2. IsLevels([n \in 0..MaxDepth |-> LevelOf(c, n)], c)
    <2> DEFINE f == [n \in 0..MaxDepth |-> LevelOf(c, n)]
    <2>1. ASSUME NEW n \in 0..MaxDepth
          PROVE  f[n] = IF n = 0 THEN {c} ELSE {d \in category : \E u \in f[n - 1] : d.parent = u.id}
      <3>1. CASE n = 0
        BY <3>1, TopLevel
      <3>2. CASE n # 0
        <4>1. n - 1 \in 0..MaxDepth /\ n \in Nat \ {0}
          BY <1>0, <3>2
        <4>2. f[n] = LevelOf(c, n) /\ f[n - 1] = LevelOf(c, n - 1)
          BY <4>1
        <4> HIDE DEF f
        <4> QED
          BY <3>2, <4>1, <4>2, NextLevel
      <3> QED
        BY <3>1, <3>2
    <2>2. f = [n \in 0..MaxDepth |-> f[n]]
      OBVIOUS
    <2> HIDE DEF f
    <2>3. f = [n \in 0..MaxDepth |->
                 IF n = 0 THEN {c} ELSE {d \in category : \E u \in f[n - 1] : d.parent = u.id}]
      BY <2>1, <2>2
    <2>4. IsLevels(f, c)
      BY <2>3 DEF IsLevels
    <2> QED
      BY <2>4 DEF f
  <1>3. IsLevels(level, c)
    BY <1>2
  <1> HIDE DEF level
  <1>4. \A n \in 0..MaxDepth : level[n] = LevelOf(c, n)
    BY <1>3, LevelsByPath
  <1>5. \A d \in category : d.depth \in 1..MaxDepth /\ d.path \in Seq(Ids) /\ Len(d.path) = d.depth
    BY DEF TreeInv, CategoryRow
  <1>6. ASSUME NEW d \in Subtree(c) PROVE \E n \in 0..MaxDepth : d \in LevelOf(c, n)
    <2>1. d \in category /\ IsPrefix(c.path, d.path)
      BY DEF Subtree
    <2>2. c.depth <= d.depth
      BY <1>5, <2>1 DEF IsPrefix
    <2>3. d.depth - c.depth \in 0..MaxDepth /\ d.depth = c.depth + (d.depth - c.depth)
      BY <1>0, <1>5, <2>1, <2>2
    <2> QED
      BY <2>1, <2>3 DEF LevelOf
  <1>7. \A n \in 0..MaxDepth : LevelOf(c, n) \subseteq Subtree(c)
    BY DEF LevelOf, Subtree
  <1> QED
    BY <1>1, <1>4, <1>6, <1>7

(***************************************************************************)
(* The subtree of a category by path prefix is its subtree by parent_id,   *)
(* and every category is reached from the top, whatever the clock does.    *)
(***************************************************************************)
THEOREM PathsAreTheTree == CategorySpec => []SubtreeByPath
  <1>1. ASSUME TreeInv PROVE SubtreeByPath
    <2>1. \A c \in category : Below(c) = Subtree(c)
      BY <1>1, SubtreeIsBelow
    <2>2. \A d \in category : \E c \in {r \in category : r.parent = NoCategory} : d \in Below(c)
      BY <1>1, <2>1 DEF TreeInv, TopRow, Subtree
    <2>3. \A c \in category : Below(c) \subseteq category
      BY <2>1 DEF Subtree
    <2> QED
      BY <2>1, <2>2, <2>3 DEF SubtreeByPath
  <1> QED
    BY <1>1, TreeInvHolds, PTL

-----------------------------------------------------------------------------
(***************************************************************************)
(* The products: one that is on sale has been published.                   *)
(***************************************************************************)
SaleInv ==
  /\ product \in [Products -> ProductRow]
  /\ edit \in [Editors -> Edit \cup {NoEdit}]
  /\ \A p \in Products : product[p].status = "ON_SALE" => product[p].published

\* What was published stays so.
StaysPublished == \A p \in Products : product[p].published => product'[p].published

LEMMA ProductWritten ==
  ASSUME SaleInv, NEW p \in Products, NEW row \in ProductRow,
         product' = [product EXCEPT ![p] = row],
         product[p].published => row.published, row.status = "ON_SALE" => row.published,
         edit' \in [Editors -> Edit \cup {NoEdit}]
  PROVE  SaleInv' /\ StaysPublished
  <1>1. product' \in [Products -> ProductRow]
    BY DEF SaleInv
  <1>2. \A q \in Products : product'[q] = IF q = p THEN row ELSE product[q]
    BY DEF SaleInv
  <1> QED
    BY <1>1, <1>2 DEF SaleInv, StaysPublished

LEMMA SaleStep ==
  ASSUME SaleInv, [StoreNext]_storeVars
  PROVE  SaleInv' /\ StaysPublished
  <1>0. \A p \in Products : product[p] \in ProductRow
    BY DEF SaleInv
  <1>1. ASSUME NEW p \in Products, CreateProduct(p, NoCategory)
        PROVE  SaleInv' /\ StaysPublished
    <2> DEFINE row == [product[p] EXCEPT !.status = "DRAFT", !.category = NoCategory]
    <2>1. row \in ProductRow /\ row.status = "DRAFT" /\ row.published = product[p].published
      BY <1>0 DEF ProductRow, SpuStatus
    <2>2. product' = [product EXCEPT ![p] = row] /\ UNCHANGED edit
      BY <1>0, <1>1 DEF CreateProduct, ProductRow, SaleInv
    <2> HIDE DEF row
    <2> QED
      BY <2>1, <2>2, ProductWritten DEF SaleInv
  <1>2. ASSUME NEW h \in Editors, NEW p \in Products, NEW op \in {"publish", "unpublish"},
               EditRead(h, op, p)
        PROVE  SaleInv' /\ StaysPublished
    <2>1. [op |-> op, product |-> p, seen |-> product[p]] \in Edit
      BY <1>0 DEF Edit
    <2> QED
      BY <1>2, <2>1 DEF EditRead, SaleInv, StaysPublished
  <1>3. ASSUME NEW h \in Editors, PublishWrite(h)
        PROVE  SaleInv' /\ StaysPublished
    <2>1. edit[h] \in Edit
      BY <1>3 DEF PublishWrite, SaleInv
    <2>2. PICK p \in Products : p = edit[h].product
      BY <2>1 DEF Edit
    <2>3. PICK st \in SpuStatus :
            product' = [product EXCEPT ![p].published = TRUE, ![p].status = st]
      BY <1>0, <1>3, <2>2 DEF PublishWrite, ProductRow, SpuStatus
    <2> DEFINE row == [product[p] EXCEPT !.published = TRUE, !.status = st]
    <2>4. row \in ProductRow /\ row.published
      BY <1>0 DEF ProductRow
    <2>5. product' = [product EXCEPT ![p] = row]
      BY <1>0, <2>3 DEF ProductRow, SaleInv
    <2>6. edit' \in [Editors -> Edit \cup {NoEdit}]
      BY <1>3 DEF PublishWrite, SaleInv
    <2> HIDE DEF row
    <2> QED
      BY <2>4, <2>5, <2>6, ProductWritten
  <1>4. ASSUME NEW h \in Editors, UnpublishWrite(h)
        PROVE  SaleInv' /\ StaysPublished
    <2>1. edit[h] \in Edit
      BY <1>4 DEF UnpublishWrite, SaleInv
    <2>2. PICK p \in Products : p = edit[h].product
      BY <2>1 DEF Edit
    <2>3. PICK st \in {product[p].status, "OFF_SALE"} :
            product' = [product EXCEPT ![p].status = st]
      BY <1>4, <2>2 DEF UnpublishWrite
    <2> DEFINE row == [product[p] EXCEPT !.status = st]
    <2>4. row \in ProductRow /\ row.status = st /\ row.published = product[p].published
      BY <1>0 DEF ProductRow, SpuStatus
    <2>5. product' = [product EXCEPT ![p] = row]
      BY <2>3
    <2>6. edit' \in [Editors -> Edit \cup {NoEdit}]
      BY <1>4 DEF UnpublishWrite, SaleInv
    <2> HIDE DEF row
    <2> QED
      BY <2>4, <2>5, <2>6, ProductWritten DEF SaleInv
  <1>5. CASE UNCHANGED <<product, edit>>
    BY <1>5 DEF SaleInv, StaysPublished
  <1> QED
    BY <1>1, <1>2, <1>3, <1>4, <1>5
       DEF StoreNext, storeVars, catalogVars, Administer, Shop, Time

-----------------------------------------------------------------------------
(***************************************************************************)
(* The carts.  A request that works on a cart nobody else has worked on    *)
(* since it read it leaves the cart as it computed it: the lines it has no *)
(* more to write are those of the cart.  While no requests of an owner     *)
(* overlapped, the lines of the cart and those its request computed are no *)
(* more than allowed and of different SKUs, so every cart on the way from  *)
(* the one to the other is well formed.                                    *)
(***************************************************************************)
Writes(r, o) == call[r].op = "write" /\ call[r].owner = o

WellFormed(a, b) ==
  /\ Cardinality(LinesOf(a) \cup LinesOf(b)) <= MaxItems
  /\ \A i, j \in Times : \A x \in {a[i], b[i]}, y \in {a[j], b[j]} :
       IsLine(x) /\ IsLine(y) /\ x.sku = y.sku => i = j

AllPublished(items) ==
  \A i \in Times : IsLine(items[i]) => product[SpuOf[items[i].sku]].published

CallsTyped ==
  /\ cart \in [Owners -> Lines]
  /\ call \in [Requests -> {Ready} \cup Asked \cup Writing]
  /\ stale \subseteq Owners /\ mixed \subseteq Owners
  /\ DOMAIN summary = Owners
  /\ clock \in Times

PublishedInv ==
  /\ \A o \in Owners : AllPublished(cart[o])
  /\ \A r \in Requests :
       /\ call[r].op = "asked" => product[SpuOf[call[r].sku]].published
       /\ call[r].op = "write" => AllPublished(call[r].local)

SummaryInv ==
  /\ \A o \in Owners :
       o \notin stale /\ (\A r \in Requests : ~Unsummed(r, o)) => summary[o] = SummaryOf(cart[o])
  /\ \A r \in Requests :
       call[r].op = "write" /\ ~call[r].overlapped =>
         \A i \in Times \ call[r].todo : call[r].local[i] = cart[call[r].owner][i]

LinesInv ==
  \A o \in Owners \ mixed :
    /\ WellFormed(cart[o], cart[o])
    /\ \A r \in Requests : Writes(r, o) => WellFormed(cart[o], call[r].local)

CartInv == CallsTyped /\ PublishedInv /\ SummaryInv /\ LinesInv

LEMMA CallTyped ==
  ASSUME CallsTyped, NEW r \in Requests
  PROVE  /\ call[r].op \in {"ready", "asked", "write"}
         /\ call[r].op = "asked" => call[r].owner \in Owners /\ call[r].sku \in Skus
         /\ call[r].op = "write" => call[r] \in Writing
  BY DEF CallsTyped, Ready, Asked, Writing

\* The read of a request that computes local and will write the lines of todo.
LEMMA ReadKeeps ==
  ASSUME CartInv, UNCHANGED <<clock, product>>, NEW r \in Requests, NEW o \in Owners,
         NEW local \in Lines, NEW todo \in SUBSET Times, Read(r, o, local, todo),
         \A i \in Times \ todo : local[i] = cart[o][i],
         AllPublished(local),
         o \notin mixed => WellFormed(cart[o], local)
  PROVE  CartInv'
  <1> DEFINE new == [op |-> "write", owner |-> o, local |-> local, todo |-> todo,
                     wrote |-> FALSE, overlapped |-> FALSE]
  <1>1. new \in Writing /\ new.op = "write" /\ new.owner = o /\ new.local = local
        /\ new.todo = todo /\ ~new.wrote /\ new.overlapped = FALSE
    BY DEF Writing
  <1>2. call' = [call EXCEPT ![r] = new] /\ UNCHANGED <<cart, summary, stale, mixed>>
    BY DEF Read
  <1> HIDE DEF new
  <1>3. call'[r] = new /\ \A g \in Requests : g # r => call'[g] = call[g]
    BY <1>2 DEF CartInv, CallsTyped
  <1>4. \A v \in Owners : ~Unsummed(r, v)
    BY DEF Read, Ready, Unsummed
  <1>5. CallsTyped'
    BY <1>1, <1>2 DEF CartInv, CallsTyped
  <1>6. PublishedInv'
    BY <1>1, <1>2, <1>3 DEF CartInv, PublishedInv, AllPublished
  <1>7. SummaryInv'
    <2>1. ASSUME NEW v \in Owners, v \notin stale', \A g \in Requests : ~Unsummed(g, v)'
          PROVE  summary'[v] = SummaryOf(cart[v])
      <3>1. \A g \in Requests : ~Unsummed(g, v)
        BY <1>3, <1>4, <2>1 DEF Unsummed
      <3> QED
        BY <1>2, <2>1, <3>1 DEF CartInv, SummaryInv
    <2>2. ASSUME NEW g \in Requests, call'[g].op = "write", ~call'[g].overlapped,
                 NEW i \in Times \ call'[g].todo
          PROVE  call'[g].local[i] = cart[call'[g].owner][i]
      <3>1. CASE g = r
        BY <1>1, <1>3, <2>2, <3>1
      <3>2. CASE g # r
        BY <1>3, <2>2, <3>2 DEF CartInv, SummaryInv
      <3> QED
        BY <3>1, <3>2
    <2> QED
      BY <1>2, <2>1, <2>2 DEF SummaryInv, SummaryOf, LinesOf
  <1>8. LinesInv'
    <2>1. ASSUME NEW v \in Owners \ mixed, NEW g \in Requests, Writes(g, v)'
          PROVE  WellFormed(cart[v], call'[g].local)
      <3>1. CASE g = r
        BY <1>1, <1>3, <2>1, <3>1 DEF Writes
      <3>2. CASE g # r
        BY <1>3, <2>1, <3>2 DEF Writes, CartInv, LinesInv
      <3> QED
        BY <3>1, <3>2
    <2>2. ASSUME NEW v \in Owners \ mixed
          PROVE  WellFormed(cart[v], cart[v])
      BY DEF CartInv, LinesInv
    <2> QED
      BY <1>2, <2>1, <2>2 DEF LinesInv
  <1> QED
    BY <1>5, <1>6, <1>7, <1>8 DEF CartInv

\* A request goes, or asks the catalogue: the others and the cart stay.
LEMMA LeaveKeeps ==
  ASSUME CartInv, UNCHANGED <<clock, product, cart, mixed>>, NEW r \in Requests,
         NEW k \in {Ready} \cup Asked, call' = [call EXCEPT ![r] = k],
         k.op = "asked" => product[SpuOf[k.sku]].published,
         stale' \subseteq Owners, DOMAIN summary' = Owners,
         \A o \in Owners : o \notin stale' /\ (\A g \in Requests \ {r} : ~Unsummed(g, o))
                           => summary'[o] = SummaryOf(cart[o])
  PROVE  CartInv'
  <1>1. call'[r] = k /\ \A g \in Requests : g # r => call'[g] = call[g]
    BY DEF CartInv, CallsTyped
  <1>2. k.op \in {"ready", "asked"}
    BY DEF Ready, Asked
  <1>3. CallsTyped'
    BY DEF CartInv, CallsTyped
  <1>4. PublishedInv'
    BY <1>1, <1>2 DEF CartInv, PublishedInv, AllPublished
  <1>5. SummaryInv'
    <2>1. ASSUME NEW v \in Owners, v \notin stale', \A g \in Requests : ~Unsummed(g, v)'
          PROVE  summary'[v] = SummaryOf(cart[v])
      <3>1. \A g \in Requests \ {r} : ~Unsummed(g, v)
        BY <1>1, <2>1 DEF Unsummed
      <3> QED
        BY <2>1, <3>1
    <2>2. ASSUME NEW g \in Requests, call'[g].op = "write", ~call'[g].overlapped,
                 NEW i \in Times \ call'[g].todo
          PROVE  call'[g].local[i] = cart[call'[g].owner][i]
      BY <1>1, <1>2, <2>2 DEF CartInv, SummaryInv
    <2> QED
      BY <2>1, <2>2 DEF SummaryInv
  <1>6. LinesInv'
    <2>1. ASSUME NEW v \in Owners \ mixed, NEW g \in Requests, Writes(g, v)'
          PROVE  WellFormed(cart[v], call'[g].local)
      BY <1>1, <1>2, <2>1 DEF Writes, CartInv, LinesInv
    <2>2. ASSUME NEW v \in Owners \ mixed
          PROVE  WellFormed(cart[v], cart[v])
      BY DEF CartInv, LinesInv
    <2> QED
      BY <2>1, <2>2 DEF LinesInv
  <1> QED
    BY <1>3, <1>4, <1>5, <1>6 DEF CartInv

LEMMA RecalcKeeps ==
  ASSUME CartInv, UNCHANGED <<clock, product>>, NEW r \in Requests, Recalc(r)
  PROVE  CartInv'
  <1>1. call[r] \in Writing
    BY CallTyped DEF CartInv, Recalc
  <1>2. PICK o \in Owners : o = call[r].owner
    BY <1>1 DEF Writing
  <1>3. stale' = (IF call[r].overlapped THEN stale \cup {o} ELSE stale \ {o})
    BY <1>2 DEF Recalc
  <1>4. summary' = [summary EXCEPT ![o] = SummaryOf(call[r].local)]
    BY <1>2 DEF Recalc
  <1>5. ASSUME NEW v \in Owners, v \notin stale', \A g \in Requests \ {r} : ~Unsummed(g, v)
        PROVE  summary'[v] = SummaryOf(cart[v])
    <2>1. CASE v = o
      <3>1. ~call[r].overlapped
        BY <1>3, <1>5, <2>1
      <3>2. \A i \in Times : call[r].local[i] = cart[o][i]
        BY <1>2, <3>1 DEF Recalc, CartInv, SummaryInv
      <3>3. call[r].local \in [Times -> Line \cup {NoLine}] /\ cart[o] \in [Times -> Line \cup {NoLine}]
        BY <1>1 DEF Writing, Lines, CartInv, CallsTyped
      <3>4. call[r].local = cart[o]
        BY <3>2, <3>3
      <3>5. SummaryOf(call[r].local) = SummaryOf(cart[o])
        BY <3>4
      <3>6. summary'[o] = SummaryOf(call[r].local)
        BY <1>4 DEF CartInv, CallsTyped
      <3> QED
        BY <2>1, <3>5, <3>6
    <2>2. CASE v # o
      <3>1. ~Unsummed(r, v) /\ v \notin stale
        BY <1>2, <1>3, <1>5, <2>2 DEF Unsummed
      <3>2. summary[v] = SummaryOf(cart[v])
        BY <1>5, <3>1 DEF CartInv, SummaryInv
      <3> QED
        BY <1>4, <2>2, <3>2
    <2> QED
      BY <2>1, <2>2
  <1> QED
    <2>1. call' = [call EXCEPT ![r] = Ready] /\ UNCHANGED <<cart, mixed>>
      BY DEF Recalc
    <2>2. Ready \in {Ready} \cup Asked /\ Ready.op # "asked"
      BY DEF Ready
    <2>3. stale' \subseteq Owners /\ DOMAIN summary' = Owners
      BY <1>2, <1>3, <1>4 DEF CartInv, CallsTyped
    <2> QED
      BY <1>5, <2>1, <2>2, <2>3, LeaveKeeps
LEMMA LineIsLine ==
  ASSUME NEW l \in Line
  PROVE  IsLine(l) /\ l.sku \in Skus /\ l.quantity \in Int /\ l.quantity <= MaxQuantity
  <1>1. l.sku \in Skus /\ l.quantity \in Int /\ l.quantity <= MaxQuantity
    BY DEF Line
  <1>2. DOMAIN l = {"sku", "quantity", "selected"} /\ DOMAIN NoLine = {"quantity"}
    BY DEF Line, NoLine
  <1>3. "sku" \in DOMAIN l /\ "sku" \notin DOMAIN NoLine
    BY <1>2
  <1> QED
    BY <1>1, <1>3 DEF IsLine

LEMMA LinesTyped ==
  ASSUME NEW items \in Lines, NEW i \in Times
  PROVE  items[i] \in Line \cup {NoLine} /\ (IsLine(items[i]) => items[i] \in Line)
  BY DEF Lines, IsLine

LEMMA LinesAreFew ==
  ASSUME NEW S \in SUBSET Times
  PROVE  IsFiniteSet(S) /\ Cardinality(S) \in Nat
  <1>1. IsFiniteSet(Times)
    BY SnowflakeAssumption, FS_Interval DEF Times
  <1> QED
    BY <1>1, FS_Subset, FS_CardinalityType

\* A request that changes lines of a cart, or removes some, and adds none.
LEMMA EditKeeps ==
  ASSUME CartInv, UNCHANGED <<clock, product>>, NEW r \in Requests, NEW o \in Owners,
         NEW local \in Lines, NEW todo \in SUBSET Times, Read(r, o, local, todo),
         \A i \in Times \ todo : local[i] = cart[o][i],
         \A i \in Times : IsLine(local[i]) => IsLine(cart[o][i]) /\ local[i].sku = cart[o][i].sku
  PROVE  CartInv'
  <1>1. AllPublished(local)
    BY DEF CartInv, PublishedInv, AllPublished
  <1>2. ASSUME o \notin mixed PROVE WellFormed(cart[o], local)
    <2>1. WellFormed(cart[o], cart[o])
      BY <1>2 DEF CartInv, LinesInv
    <2>2. LinesOf(cart[o]) \cup LinesOf(local) = LinesOf(cart[o]) \cup LinesOf(cart[o])
      BY DEF LinesOf
    <2> QED
      BY <2>1, <2>2 DEF WellFormed
  <1> QED
    BY <1>1, <1>2, ReadKeeps

LEMMA AddItemKeeps ==
  ASSUME CartInv, UNCHANGED <<clock, product>>, NEW r \in Requests, NEW n \in Quantities,
         AddItem(r, n)
  PROVE  CartInv'
  <1>1. call[r].op = "asked"
    BY DEF AddItem
  <1>2. PICK o \in Owners, k \in Skus : o = call[r].owner /\ k = call[r].sku
    BY <1>1, CallTyped DEF CartInv
  <1>3. PICK items \in Lines : items = cart[o]
    BY DEF CartInv, CallsTyped
  <1>4. n \in Int /\ \A m \in Int : AtMost(m) \in {q \in Int : q <= MaxQuantity}
    BY CartAssumption DEF AtMost
  <1> DEFINE line == [sku |-> k, quantity |-> AtMost(n), selected |-> TRUE]
             same == {i \in LinesOf(items) : items[i].sku = k}
  <1>5. line \in Line /\ line.sku = k
    <2>1. AtMost(n) \in {q \in Int : q <= MaxQuantity}
      BY <1>4
    <2> QED
      BY <2>1 DEF Line
  <1>6. /\ Cardinality(LinesOf(items)) < MaxItems
        /\ \/ same = {} /\ Read(r, o, [items EXCEPT ![clock] = line], {clock})
           \/ \E i \in same :
                Read(r, o, [items EXCEPT ![i].quantity = AtMost(items[i].quantity + n)], {i})
    BY <1>2, <1>3 DEF AddItem
  <1>7. product[SpuOf[k]].published
    BY <1>1, <1>2 DEF CartInv, PublishedInv
  <1>8. clock \in Times
    BY DEF CartInv, CallsTyped
  <1>9. ASSUME same = {}, Read(r, o, [items EXCEPT ![clock] = line], {clock})
        PROVE  CartInv'
    <2> HIDE DEF line
    <2>1. PICK local : local = [items EXCEPT ![clock] = line]
      OBVIOUS
    <2>2. local \in Lines
      BY <1>5, <2>1 DEF Lines
    <2>3. \A i \in Times : local[i] = IF i = clock THEN line ELSE items[i]
      BY <2>1 DEF Lines
    <2>4. AllPublished(local)
      BY <1>3, <1>5, <1>7, <2>3 DEF CartInv, PublishedInv, AllPublished
    <2>5. \A i \in Times : IsLine(items[i]) => items[i].sku # k
      BY <1>9 DEF LinesOf
    <2>6. ASSUME o \notin mixed PROVE WellFormed(items, local)
      <3>1. WellFormed(items, items)
        BY <1>3, <2>6 DEF CartInv, LinesInv
      <3>2. Cardinality(LinesOf(items) \cup LinesOf(local)) <= MaxItems
        <4> DEFINE all == LinesOf(items) \cup {clock}
        <4>1. LinesOf(items) \cup LinesOf(local) \subseteq all
          BY <2>3 DEF LinesOf
        <4>2. LinesOf(items) \in SUBSET Times /\ all \in SUBSET Times
              /\ LinesOf(items) \cup LinesOf(local) \in SUBSET Times
          BY <1>8 DEF LinesOf
        <4>3. /\ IsFiniteSet(LinesOf(items)) /\ Cardinality(LinesOf(items)) \in Nat
              /\ IsFiniteSet(all) /\ Cardinality(all) \in Nat
              /\ Cardinality(LinesOf(items) \cup LinesOf(local)) \in Nat
          BY <4>2, LinesAreFew
        <4>4. Cardinality(all) <= Cardinality(LinesOf(items)) + 1
          <5>1. Cardinality(all) = IF clock \in LinesOf(items) THEN Cardinality(LinesOf(items))
                                   ELSE Cardinality(LinesOf(items)) + 1
            BY <4>3, FS_AddElement
          <5> QED
            BY <4>3, <5>1
        <4>5. Cardinality(LinesOf(items) \cup LinesOf(local)) <= Cardinality(all)
          BY <4>1, <4>3, FS_Subset
        <4> HIDE DEF all
        <4> QED
          BY <1>6, <4>3, <4>4, <4>5, CartAssumption
      <3>3. ASSUME NEW i \in Times, NEW j \in Times, NEW x \in {items[i], local[i]},
                   NEW y \in {items[j], local[j]}, IsLine(x), IsLine(y), x.sku = y.sku
            PROVE  i = j
        <4>1. \/ x = items[i] /\ IsLine(items[i])
              \/ x = line /\ i = clock
          BY <2>3, <3>3
        <4>2. \/ y = items[j] /\ IsLine(items[j])
              \/ y = line /\ j = clock
          BY <2>3, <3>3
        <4>3. CASE x = items[i] /\ IsLine(items[i]) /\ y = items[j] /\ IsLine(items[j])
          BY <3>1, <3>3, <4>3 DEF WellFormed
        <4> QED
          BY <1>5, <2>5, <3>3, <4>1, <4>2, <4>3
      <3> QED
        BY <3>2, <3>3 DEF WellFormed
    <2>7. PICK todo \in SUBSET Times : todo = {clock}
      BY <1>8
    <2>8. Read(r, o, local, todo)
      BY <1>9, <2>1, <2>7
    <2>9. \A i \in Times \ todo : local[i] = cart[o][i]
      BY <1>3, <2>3, <2>7
    <2>10. o \notin mixed => WellFormed(cart[o], local)
      BY <1>3, <2>6
    <2> QED
      BY <2>2, <2>4, <2>8, <2>9, <2>10, ReadKeeps
  <1>10. ASSUME NEW i \in same,
                Read(r, o, [items EXCEPT ![i].quantity = AtMost(items[i].quantity + n)], {i})
         PROVE  CartInv'
    <2>1. i \in Times /\ IsLine(items[i])
      BY DEF LinesOf
    <2>2. items[i] \in Line /\ items[i].quantity \in Int
      BY <2>1, LinesTyped, LineIsLine
    <2>3. PICK q \in {m \in Int : m <= MaxQuantity} : q = AtMost(items[i].quantity + n)
      BY <1>4, <2>2
    <2>4. PICK new : new = [items[i] EXCEPT !.quantity = q]
      OBVIOUS
    <2>5. new \in Line /\ new.sku = items[i].sku
      BY <2>2, <2>4 DEF Line
    <2>6. PICK local : local = [items EXCEPT ![i] = new]
      OBVIOUS
    <2>7. [items EXCEPT ![i].quantity = AtMost(items[i].quantity + n)] = local
      BY <2>1, <2>3, <2>4, <2>6 DEF Lines
    <2>8. local \in Lines
      BY <2>5, <2>6 DEF Lines
    <2>9. \A j \in Times : local[j] = IF j = i THEN new ELSE items[j]
      BY <2>6 DEF Lines
    <2>10. {i} \in SUBSET Times
      BY <2>1
    <2>11. Read(r, o, local, {i})
      BY <1>10, <2>7
    <2> QED
      BY <1>3, <2>1, <2>5, <2>8, <2>9, <2>10, <2>11, EditKeeps
  <1> QED
    BY <1>6, <1>9, <1>10

LEMMA UpdateKeeps ==
  ASSUME CartInv, UNCHANGED <<clock, product>>, NEW r \in Requests, NEW o \in Owners,
         NEW i \in Times, NEW n \in Quantities, UpdateQuantity(r, o, i, n)
  PROVE  CartInv'
  <1>1. PICK items \in Lines : items = cart[o]
    BY DEF CartInv, CallsTyped
  <1>2. IsLine(items[i])
    BY <1>1 DEF UpdateQuantity
  <1>3. items[i] \in Line
    BY <1>2, LinesTyped
  <1>4. PICK new : new = IF n = 0 THEN NoLine ELSE [items[i] EXCEPT !.quantity = n]
    OBVIOUS
  <1>5. new \in Line \cup {NoLine} /\ (IsLine(new) => new.sku = items[i].sku)
    <2>1. CASE n = 0
      BY <1>4, <2>1 DEF IsLine
    <2>2. CASE n # 0
      <3>1. n \in Int /\ n <= MaxQuantity
        BY CartAssumption DEF UpdateQuantity
      <3> QED
        BY <1>3, <1>4, <2>2, <3>1 DEF Line
    <2> QED
      BY <2>1, <2>2
  <1>6. PICK local : local = [items EXCEPT ![i] = new]
    OBVIOUS
  <1>7. Read(r, o, local, {i})
    BY <1>1, <1>4, <1>6 DEF UpdateQuantity
  <1>8. local \in Lines
    BY <1>5, <1>6 DEF Lines
  <1>9. \A j \in Times : local[j] = IF j = i THEN new ELSE items[j]
    BY <1>6 DEF Lines
  <1>10. {i} \in SUBSET Times
    OBVIOUS
  <1> QED
    BY <1>1, <1>2, <1>5, <1>7, <1>8, <1>9, <1>10, EditKeeps

LEMMA RemoveKeeps ==
  ASSUME CartInv, UNCHANGED <<clock, product>>, NEW r \in Requests, NEW o \in Owners,
         NEW I \in SUBSET Times, RemoveItems(r, o, I)
  PROVE  CartInv'
  <1>1. PICK items \in Lines : items = cart[o]
    BY DEF CartInv, CallsTyped
  <1>2. PICK local : local = [i \in Times |-> IF i \in I THEN NoLine ELSE items[i]]
    OBVIOUS
  <1>3. Read(r, o, local, I \cap LinesOf(items))
    BY <1>1, <1>2 DEF RemoveItems
  <1>4. local \in Lines
    BY <1>2 DEF Lines
  <1>5. \A i \in Times : local[i] = IF i \in I THEN NoLine ELSE items[i]
    BY <1>2
  <1>6. I \cap LinesOf(items) \in SUBSET Times
    OBVIOUS
  <1>7. \A i \in Times \ (I \cap LinesOf(items)) : local[i] = items[i]
    BY <1>5 DEF LinesOf, IsLine
  <1>8. \A i \in Times : IsLine(local[i]) => IsLine(items[i]) /\ local[i].sku = items[i].sku
    BY <1>5 DEF IsLine
  <1> QED
    BY <1>1, <1>3, <1>4, <1>6, <1>7, <1>8, EditKeeps

LEMMA SelectKeeps ==
  ASSUME CartInv, UNCHANGED <<clock, product>>, NEW r \in Requests, NEW o \in Owners,
         NEW I \in SUBSET Times, NEW chosen \in BOOLEAN, SetSelected(r, o, I, chosen)
  PROVE  CartInv'
  <1>1. PICK items \in Lines : items = cart[o]
    BY DEF CartInv, CallsTyped
  <1>2. PICK todo \in SUBSET Times : todo = I \cap LinesOf(items)
    OBVIOUS
  <1>3. PICK local : local = [i \in Times |-> IF i \in todo
                                THEN [items[i] EXCEPT !.selected = chosen] ELSE items[i]]
    OBVIOUS
  <1>4. Read(r, o, local, todo)
    BY <1>1, <1>2, <1>3 DEF SetSelected
  <1>5. ASSUME NEW i \in todo
        PROVE  /\ i \in Times /\ IsLine(items[i])
               /\ [items[i] EXCEPT !.selected = chosen] \in Line
               /\ [items[i] EXCEPT !.selected = chosen].sku = items[i].sku
    <2>1. i \in Times /\ IsLine(items[i])
      BY <1>2 DEF LinesOf
    <2>2. items[i] \in Line
      BY <2>1, LinesTyped
    <2> QED
      BY <2>1, <2>2 DEF Line
  <1>6. local \in Lines
    BY <1>3, <1>5 DEF Lines
  <1>7. \A i \in Times \ todo : local[i] = items[i]
    BY <1>3
  <1>8. \A i \in Times : IsLine(local[i]) => IsLine(items[i]) /\ local[i].sku = items[i].sku
    BY <1>3, <1>5
  <1> QED
    BY <1>1, <1>4, <1>6, <1>7, <1>8, EditKeeps
\* One line is written: who else is at work on the cart is now overlapped.
LEMMA WriteKeeps ==
  ASSUME CartInv, UNCHANGED <<clock, product>>, NEW r \in Requests, NEW i \in Times,
         WriteLine(r, i)
  PROVE  CartInv'
  <1>1. call[r] \in Writing /\ call[r].op = "write" /\ i \in call[r].todo
    BY CallTyped DEF CartInv, WriteLine
  <1>2. PICK o \in Owners, local \in Lines, todo \in SUBSET Times :
          o = call[r].owner /\ local = call[r].local /\ todo = call[r].todo
    BY <1>1 DEF Writing
  <1>3. PICK items \in Lines : items = cart[o]
    BY DEF CartInv, CallsTyped
  <1>4. PICK left \in Lines : left = [items EXCEPT ![i] = local[i]]
    BY DEF Lines
  <1>5. \A j \in Times : left[j] = IF j = i THEN local[i] ELSE items[j]
    BY <1>4 DEF Lines
  <1>6. cart' = [cart EXCEPT ![o] = left]
    BY <1>2, <1>3, <1>4 DEF WriteLine, CartInv, CallsTyped
  <1>7. \A v \in Owners : cart'[v] = IF v = o THEN left ELSE cart[v]
    BY <1>6 DEF CartInv, CallsTyped
  <1>8. PICK mine \in Writing : mine = [call[r] EXCEPT !.todo = todo \ {i}, !.wrote = TRUE]
    BY <1>1, <1>2 DEF Writing
  <1>9. /\ mine.op = "write" /\ mine.owner = o /\ mine.local = local
        /\ mine.todo = todo \ {i} /\ mine.wrote /\ mine.overlapped = call[r].overlapped
    BY <1>1, <1>2, <1>8 DEF Writing
  <1>10. call'[r] = mine
    BY <1>2, <1>8 DEF WriteLine
  <1>11. ASSUME NEW g \in Requests \ {r}, Writes(g, o)
         PROVE  /\ call'[g] \in Writing /\ call'[g].op = "write" /\ call'[g].owner = o
                /\ call'[g].local = call[g].local /\ call'[g].overlapped = TRUE
                /\ mixed' = mixed \cup {o}
    <2>1. g \in Others(r)
      BY <1>2, <1>11 DEF Others, Writes
    <2>2. call[g] \in Writing /\ call[g].op = "write" /\ call[g].owner = o
      BY <1>11, CallTyped DEF CartInv, Writes
    <2>3. call'[g] = [call[g] EXCEPT !.overlapped = TRUE]
      BY <1>11, <2>1 DEF WriteLine
    <2>4. mixed' = mixed \cup {o}
      BY <1>2, <2>1 DEF WriteLine
    <2> QED
      BY <2>2, <2>3, <2>4 DEF Writing
  <1>12. ASSUME NEW g \in Requests \ {r}, ~Writes(g, o) PROVE call'[g] = call[g]
    <2>1. g \notin Others(r)
      BY <1>2, <1>12 DEF Others, Writes
    <2> QED
      BY <1>12, <2>1 DEF WriteLine
  <1>13. (mixed' = mixed \/ mixed' = mixed \cup {o}) /\ UNCHANGED <<summary, stale>>
    BY <1>2 DEF WriteLine
  <1>14. /\ \A g \in Requests, v \in Owners : Writes(g, v)' <=> Writes(g, v)
         /\ \A g \in Requests : \A v \in Owners \ {o} : ~Unsummed(g, v)' => ~Unsummed(g, v)
         /\ Unsummed(r, o)'
    BY <1>1, <1>2, <1>9, <1>10, <1>11, <1>12 DEF Writes, Unsummed
  <1>15. Writes(r, o)
    BY <1>1, <1>2 DEF Writes
  <1>16. CallsTyped'
    <2>1. call' \in [Requests -> {Ready} \cup Asked \cup Writing]
      <3>1. ASSUME NEW g \in Requests PROVE call'[g] \in {Ready} \cup Asked \cup Writing
        BY <1>10, <1>11, <1>12 DEF CartInv, CallsTyped
      <3>2. DOMAIN call' = Requests /\ call' = [g \in Requests |-> call'[g]]
        BY DEF WriteLine
      <3> QED
        BY <3>1, <3>2
    <2>2. cart' \in [Owners -> Lines]
      BY <1>6 DEF CartInv, CallsTyped
    <2> QED
      BY <1>13, <2>1, <2>2 DEF CartInv, CallsTyped
  <1>17. AllPublished(left) /\ AllPublished(local) /\ UNCHANGED product
    <2>1. AllPublished(items) /\ AllPublished(local)
      BY <1>1, <1>2, <1>3 DEF CartInv, PublishedInv
    <2> QED
      BY <1>5, <2>1 DEF AllPublished
  <1>18. PublishedInv'
    <2>1. ASSUME NEW v \in Owners PROVE AllPublished(cart[v])'
      BY <1>7, <1>17 DEF AllPublished, CartInv, PublishedInv
    <2>2. ASSUME NEW g \in Requests, call'[g].op = "asked"
          PROVE  product'[SpuOf[call'[g].sku]].published
      BY <1>9, <1>10, <1>11, <1>12, <1>17, <2>2 DEF CartInv, PublishedInv
    <2>3. ASSUME NEW g \in Requests, call'[g].op = "write"
          PROVE  AllPublished(call[g].local)'
      <3>1. CASE g = r
        BY <1>9, <1>10, <1>17, <3>1 DEF AllPublished
      <3>2. CASE g # r /\ Writes(g, o)
        BY <1>11, <1>17, <3>2 DEF AllPublished, CartInv, PublishedInv, Writes
      <3>3. CASE g # r /\ ~Writes(g, o)
        BY <1>12, <1>17, <2>3, <3>3 DEF AllPublished, CartInv, PublishedInv
      <3> QED
        BY <3>1, <3>2, <3>3
    <2> QED
      BY <2>1, <2>2, <2>3 DEF PublishedInv
  <1>19. SummaryInv'
    <2>1. ASSUME NEW v \in Owners, v \notin stale', \A g \in Requests : ~Unsummed(g, v)'
          PROVE  summary'[v] = SummaryOf(cart'[v])
      <3>1. v # o
        BY <1>14, <2>1
      <3>2. summary[v] = SummaryOf(cart[v])
        BY <1>13, <1>14, <2>1, <3>1 DEF CartInv, SummaryInv
      <3>3. cart'[v] = cart[v]
        BY <1>7, <3>1
      <3> QED
        BY <1>13, <3>2, <3>3
    <2>2. ASSUME NEW g \in Requests, call'[g].op = "write", ~call'[g].overlapped,
                 NEW j \in Times \ call'[g].todo
          PROVE  call'[g].local[j] = cart'[call'[g].owner][j]
      <3>1. CASE g = r
        <4>1. \A x \in Times \ todo : local[x] = items[x]
          BY <1>1, <1>2, <1>3, <1>9, <1>10, <2>2, <3>1 DEF CartInv, SummaryInv
        <4>2. call'[g].local[j] = local[j] /\ call'[g].owner = o /\ j \notin todo \ {i}
          BY <1>9, <1>10, <2>2, <3>1
        <4>3. local[j] = left[j]
          BY <1>5, <4>1, <4>2
        <4> QED
          BY <1>7, <4>2, <4>3
      <3>2. CASE g # r
        <4>1. ~Writes(g, o)
          BY <1>11, <2>2, <3>2
        <4>2. call'[g] = call[g] /\ call[g] \in Writing /\ call[g].op = "write"
          BY <1>12, <2>2, <3>2, <4>1, CallTyped DEF CartInv
        <4>3. PICK v \in Owners : v = call[g].owner /\ v # o
          BY <4>1, <4>2 DEF Writing, Writes
        <4>4. call[g].local[j] = cart[v][j]
          BY <2>2, <4>2, <4>3 DEF CartInv, SummaryInv
        <4> QED
          BY <1>7, <4>2, <4>3, <4>4
      <3> QED
        BY <3>1, <3>2
    <2> QED
      BY <2>1, <2>2 DEF SummaryInv
  <1>20. LinesInv'
    <2>1. ASSUME NEW v \in Owners \ mixed', v # o
          PROVE  /\ WellFormed(cart'[v], cart'[v])
                 /\ \A g \in Requests : Writes(g, v)' => WellFormed(cart'[v], call'[g].local)
      <3>1. cart'[v] = cart[v] /\ v \notin mixed
        BY <1>7, <1>13, <2>1
      <3>2. ASSUME NEW g \in Requests, Writes(g, v)'
            PROVE  WellFormed(cart[v], call'[g].local)
        <4>1. Writes(g, v)
          BY <1>14, <3>2
        <4>2. call'[g] = call[g]
          BY <1>1, <1>2, <1>12, <2>1, <4>1 DEF Writes
        <4> QED
          BY <3>1, <4>1, <4>2 DEF CartInv, LinesInv
      <3> QED
        BY <3>1, <3>2 DEF CartInv, LinesInv
    <2>2. ASSUME o \notin mixed'
          PROVE  /\ WellFormed(cart'[o], cart'[o])
                 /\ \A g \in Requests : Writes(g, o)' => WellFormed(cart'[o], call'[g].local)
      <3>1. o \notin mixed /\ WellFormed(items, local)
        BY <1>2, <1>3, <1>13, <1>15, <2>2 DEF CartInv, LinesInv
      <3>2. \A j \in Times : left[j] \in {items[j], local[j]}
        BY <1>5
      <3>3. Cardinality(LinesOf(left) \cup LinesOf(local)) <= MaxItems
        <4>1. LinesOf(left) \cup LinesOf(local) \subseteq LinesOf(items) \cup LinesOf(local)
          BY <3>2 DEF LinesOf
        <4>2. LinesOf(left) \cup LinesOf(local) \in SUBSET Times
              /\ LinesOf(items) \cup LinesOf(local) \in SUBSET Times
          BY DEF LinesOf
        <4>3. Cardinality(LinesOf(left) \cup LinesOf(local))
                <= Cardinality(LinesOf(items) \cup LinesOf(local))
          BY <4>1, <4>2, LinesAreFew, FS_Subset
        <4>4. Cardinality(LinesOf(left) \cup LinesOf(local)) \in Nat
              /\ Cardinality(LinesOf(items) \cup LinesOf(local)) \in Nat
          BY <4>2, LinesAreFew
        <4>5. Cardinality(LinesOf(items) \cup LinesOf(local)) <= MaxItems
          BY <3>1 DEF WellFormed
        <4> QED
          BY <4>3, <4>4, <4>5, CartAssumption
      <3>4. WellFormed(left, local)
        BY <3>1, <3>2, <3>3 DEF WellFormed
      <3>5. WellFormed(left, left)
        <4>1. LinesOf(left) \cup LinesOf(left) \subseteq LinesOf(left) \cup LinesOf(local)
          OBVIOUS
        <4>2. LinesOf(left) \cup LinesOf(left) \in SUBSET Times
              /\ LinesOf(left) \cup LinesOf(local) \in SUBSET Times
          BY DEF LinesOf
        <4>3. Cardinality(LinesOf(left) \cup LinesOf(left))
                <= Cardinality(LinesOf(left) \cup LinesOf(local))
          BY <4>1, <4>2, LinesAreFew, FS_Subset
        <4>4. Cardinality(LinesOf(left) \cup LinesOf(left)) \in Nat
              /\ Cardinality(LinesOf(left) \cup LinesOf(local)) \in Nat
          BY <4>2, LinesAreFew
        <4>5. Cardinality(LinesOf(left) \cup LinesOf(left)) <= MaxItems
          BY <3>3, <4>3, <4>4, CartAssumption
        <4> QED
          BY <3>4, <4>5 DEF WellFormed
      <3>6. ASSUME NEW g \in Requests, Writes(g, o)' PROVE call'[g].local = local
        <4>1. g = r
          BY <1>11, <1>14, <2>2, <3>6
        <4> QED
          BY <1>9, <1>10, <4>1
      <3> QED
        BY <1>7, <3>4, <3>5, <3>6
    <2>3. ASSUME NEW v \in Owners \ mixed'
          PROVE  /\ WellFormed(cart'[v], cart'[v])
                 /\ \A g \in Requests : Writes(g, v)' => WellFormed(cart'[v], call'[g].local)
      <3>1. CASE v = o
        BY <2>2, <2>3, <3>1
      <3>2. CASE v # o
        BY <2>1, <3>2
      <3> QED
        BY <3>1, <3>2
    <2> QED
      BY <2>3 DEF LinesInv
  <1> QED
    BY <1>16, <1>18, <1>19, <1>20 DEF CartInv
\* The lines of a cart expire under the requests that have read them.
LEMMA ExpireKeeps ==
  ASSUME CartInv, UNCHANGED <<clock, product>>, NEW o \in Owners, Expire(o)
  PROVE  CartInv'
  <1>1. Empty \in Lines /\ \A i \in Times : Empty[i] = NoLine /\ ~IsLine(Empty[i])
    BY DEF Empty, Lines, IsLine
  <1>2. cart' = [cart EXCEPT ![o] = Empty]
    BY DEF Expire
  <1>3. \A v \in Owners : cart'[v] = IF v = o THEN Empty ELSE cart[v]
    BY <1>2 DEF CartInv, CallsTyped
  <1>4. ASSUME NEW g \in Requests, Writes(g, o)
        PROVE  /\ call'[g] \in Writing /\ call'[g].op = "write" /\ call'[g].owner = o
               /\ call'[g].local = call[g].local /\ call'[g].overlapped = TRUE
    <2>1. call[g] \in Writing /\ call[g].op = "write" /\ call[g].owner = o
      BY <1>4, CallTyped DEF CartInv, Writes
    <2>2. call'[g] = [call[g] EXCEPT !.overlapped = TRUE]
      BY <2>1 DEF Expire
    <2> QED
      BY <2>1, <2>2 DEF Writing
  <1>5. ASSUME NEW g \in Requests, ~Writes(g, o) PROVE call'[g] = call[g]
    BY <1>5 DEF Expire, Writes
  <1>6. stale' = stale \cup {o} /\ UNCHANGED <<summary, mixed>>
    BY DEF Expire
  <1>7. /\ \A g \in Requests, v \in Owners : Writes(g, v)' <=> Writes(g, v)
        /\ \A g \in Requests : \A v \in Owners \ {o} : ~Unsummed(g, v)' => ~Unsummed(g, v)
    BY <1>4, <1>5 DEF Writes, Unsummed
  <1>8. CallsTyped'
    <2>1. call' \in [Requests -> {Ready} \cup Asked \cup Writing]
      <3>1. ASSUME NEW g \in Requests PROVE call'[g] \in {Ready} \cup Asked \cup Writing
        BY <1>4, <1>5 DEF CartInv, CallsTyped
      <3>2. call' = [g \in Requests |-> call'[g]]
        BY DEF Expire
      <3> QED
        BY <3>1, <3>2
    <2>2. cart' \in [Owners -> Lines]
      BY <1>1, <1>2 DEF CartInv, CallsTyped
    <2> QED
      BY <1>6, <2>1, <2>2 DEF CartInv, CallsTyped
  <1>9. PublishedInv'
    <2>1. ASSUME NEW v \in Owners PROVE AllPublished(cart[v])'
      BY <1>1, <1>3 DEF AllPublished, CartInv, PublishedInv
    <2>2. ASSUME NEW g \in Requests, call'[g].op = "asked"
          PROVE  product'[SpuOf[call'[g].sku]].published
      BY <1>4, <1>5, <2>2 DEF CartInv, PublishedInv
    <2>3. ASSUME NEW g \in Requests, call'[g].op = "write"
          PROVE  AllPublished(call[g].local)'
      <3>1. CASE Writes(g, o)
        BY <1>4, <3>1 DEF AllPublished, CartInv, PublishedInv, Writes
      <3>2. CASE ~Writes(g, o)
        BY <1>5, <2>3, <3>2 DEF AllPublished, CartInv, PublishedInv
      <3> QED
        BY <3>1, <3>2
    <2> QED
      BY <2>1, <2>2, <2>3 DEF PublishedInv
  <1>10. SummaryInv'
    <2>1. ASSUME NEW v \in Owners, v \notin stale', \A g \in Requests : ~Unsummed(g, v)'
          PROVE  summary'[v] = SummaryOf(cart'[v])
      <3>1. v # o /\ v \notin stale /\ cart'[v] = cart[v]
        BY <1>3, <1>6, <2>1
      <3>2. summary[v] = SummaryOf(cart[v])
        BY <1>7, <2>1, <3>1 DEF CartInv, SummaryInv
      <3> QED
        BY <1>6, <3>1, <3>2
    <2>2. ASSUME NEW g \in Requests, call'[g].op = "write", ~call'[g].overlapped,
                 NEW j \in Times \ call'[g].todo
          PROVE  call'[g].local[j] = cart'[call'[g].owner][j]
      <3>1. ~Writes(g, o)
        BY <1>4, <2>2
      <3>2. call'[g] = call[g] /\ call[g] \in Writing /\ call[g].op = "write"
        BY <1>5, <2>2, <3>1, CallTyped DEF CartInv
      <3>3. PICK v \in Owners : v = call[g].owner /\ v # o
        BY <3>1, <3>2 DEF Writing, Writes
      <3>4. call[g].local[j] = cart[v][j]
        BY <2>2, <3>2, <3>3 DEF CartInv, SummaryInv
      <3> QED
        BY <1>3, <3>2, <3>3, <3>4
    <2> QED
      BY <2>1, <2>2 DEF SummaryInv
  <1>11. LinesInv'
    <2>1. ASSUME NEW v \in Owners \ mixed, NEW b \in Lines,
                 WellFormed(cart[v], b), cart'[v] \in {cart[v], Empty}
          PROVE  WellFormed(cart'[v], b)
      <3>1. PICK a \in Lines, c \in Lines : a = cart[v] /\ c = cart'[v]
        BY <1>1, <2>1 DEF CartInv, CallsTyped
      <3>2. \A j \in Times : c[j] = a[j] \/ ~IsLine(c[j])
        BY <1>1, <2>1, <3>1
      <3>3. LinesOf(c) \cup LinesOf(b) \subseteq LinesOf(a) \cup LinesOf(b)
        BY <3>2 DEF LinesOf
      <3>4. LinesOf(c) \cup LinesOf(b) \in SUBSET Times
            /\ LinesOf(a) \cup LinesOf(b) \in SUBSET Times
        BY DEF LinesOf
      <3>5. Cardinality(LinesOf(c) \cup LinesOf(b)) <= Cardinality(LinesOf(a) \cup LinesOf(b))
        BY <3>3, <3>4, LinesAreFew, FS_Subset
      <3>6. Cardinality(LinesOf(c) \cup LinesOf(b)) \in Nat
            /\ Cardinality(LinesOf(a) \cup LinesOf(b)) \in Nat
        BY <3>4, LinesAreFew
      <3>7. Cardinality(LinesOf(a) \cup LinesOf(b)) <= MaxItems
        BY <2>1, <3>1 DEF WellFormed
      <3>8. Cardinality(LinesOf(c) \cup LinesOf(b)) <= MaxItems
        BY <3>5, <3>6, <3>7, CartAssumption
      <3>9. \A i, j \in Times : \A x \in {c[i], b[i]}, y \in {c[j], b[j]} :
              IsLine(x) /\ IsLine(y) /\ x.sku = y.sku => i = j
        <4>1. \A i, j \in Times : \A x \in {a[i], b[i]}, y \in {a[j], b[j]} :
                IsLine(x) /\ IsLine(y) /\ x.sku = y.sku => i = j
          BY <2>1, <3>1 DEF WellFormed
        <4>2. \A i \in Times : \A x \in {c[i], b[i]} : IsLine(x) => x \in {a[i], b[i]}
          BY <3>2
        <4> QED
          BY <4>1, <4>2
      <3> QED
        BY <3>1, <3>8, <3>9 DEF WellFormed
    <2>2. ASSUME NEW v \in Owners \ mixed PROVE WellFormed(cart'[v], cart'[v])
      <3>1. WellFormed(cart[v], cart[v]) /\ cart[v] \in Lines
        BY DEF CartInv, LinesInv, CallsTyped
      <3>2. CASE cart'[v] = cart[v]
        BY <3>1, <3>2
      <3>3. CASE cart'[v] = Empty
        <4>1. WellFormed(Empty, Empty)
          <5>1. LinesOf(Empty) \cup LinesOf(Empty) = {}
            BY <1>1 DEF LinesOf
          <5>2. Cardinality({}) = 0 /\ MaxItems \in Nat
            BY FS_EmptySet, CartAssumption
          <5>3. Cardinality(LinesOf(Empty) \cup LinesOf(Empty)) <= MaxItems
            BY <5>1, <5>2
          <5> QED
            BY <1>1, <5>3 DEF WellFormed
        <4> QED
          BY <3>3, <4>1
      <3> QED
        BY <1>3, <3>2, <3>3
    <2>3. ASSUME NEW v \in Owners \ mixed, NEW g \in Requests, Writes(g, v)'
          PROVE  WellFormed(cart'[v], call'[g].local)
      <3>1. Writes(g, v)
        BY <1>7, <2>3
      <3>2. call'[g].local = call[g].local
        BY <1>4, <1>5, <3>1
      <3>3. call[g].local \in Lines
        BY <3>1, CallTyped DEF CartInv, Writes, Writing
      <3>4. WellFormed(cart[v], call[g].local)
        BY <3>1 DEF CartInv, LinesInv
      <3>5. cart'[v] \in {cart[v], Empty}
        BY <1>3
      <3> QED
        BY <2>1, <3>2, <3>3, <3>4, <3>5
    <2> QED
      BY <1>6, <2>2, <2>3 DEF LinesInv
  <1> QED
    BY <1>8, <1>9, <1>10, <1>11 DEF CartInv

LEMMA AskKeeps ==
  ASSUME CartInv, SaleInv, UNCHANGED <<clock, product>>, NEW r \in Requests,
         NEW o \in Owners, NEW k \in Skus, Ask(r, o, k)
  PROVE  CartInv'
  <1>1. PICK asked \in Asked : asked = [op |-> "asked", owner |-> o, sku |-> k]
    BY DEF Asked
  <1>2. product[SpuOf[k]].published
    BY CartAssumption DEF Ask, SaleInv
  <1>3. asked \in {Ready} \cup Asked /\ asked.sku = k
    BY <1>1
  <1>4. call' = [call EXCEPT ![r] = asked] /\ UNCHANGED <<cart, summary, stale, mixed>>
    BY <1>1 DEF Ask
  <1>5. ASSUME NEW v \in Owners, v \notin stale', \A g \in Requests \ {r} : ~Unsummed(g, v)
        PROVE  summary'[v] = SummaryOf(cart[v])
    <2>1. ~Unsummed(r, v)
      BY DEF Ask, Ready, Unsummed
    <2> QED
      BY <1>4, <1>5, <2>1 DEF CartInv, SummaryInv
  <1> QED
    BY <1>2, <1>3, <1>4, <1>5, LeaveKeeps DEF CartInv, CallsTyped

LEMMA RefuseKeeps ==
  ASSUME CartInv, UNCHANGED <<clock, product>>, NEW r \in Requests, Refuse(r)
  PROVE  CartInv'
  <1>1. call' = [call EXCEPT ![r] = Ready] /\ UNCHANGED <<cart, summary, stale, mixed>>
    BY DEF Refuse
  <1>2. Ready \in {Ready} \cup Asked /\ Ready.op # "asked"
    BY DEF Ready
  <1>3. ASSUME NEW v \in Owners, v \notin stale', \A g \in Requests \ {r} : ~Unsummed(g, v)
        PROVE  summary'[v] = SummaryOf(cart[v])
    <2>1. ~Unsummed(r, v)
      BY DEF Refuse, Unsummed
    <2> QED
      BY <1>1, <1>3, <2>1 DEF CartInv, SummaryInv
  <1> QED
    BY <1>1, <1>2, <1>3, LeaveKeeps DEF CartInv, CallsTyped

LEMMA BreakKeeps ==
  ASSUME CartInv, UNCHANGED <<clock, product>>, NEW r \in Requests, Break(r)
  PROVE  CartInv'
  <1>1. PICK o \in Owners : o = call[r].owner
    BY CallTyped DEF CartInv, Break, Writing
  <1>2. /\ call' = [call EXCEPT ![r] = Ready] /\ UNCHANGED <<cart, summary, mixed>>
        /\ stale' = IF call[r].wrote THEN stale \cup {o} ELSE stale
    BY <1>1 DEF Break
  <1>3. Ready \in {Ready} \cup Asked /\ Ready.op # "asked"
    BY DEF Ready
  <1>4. ASSUME NEW v \in Owners, v \notin stale', \A g \in Requests \ {r} : ~Unsummed(g, v)
        PROVE  summary'[v] = SummaryOf(cart[v])
    <2>1. ~Unsummed(r, v) /\ v \notin stale
      BY <1>1, <1>2, <1>4 DEF Unsummed
    <2> QED
      BY <1>2, <1>4, <2>1 DEF CartInv, SummaryInv
  <1>5. stale' \subseteq Owners /\ DOMAIN summary' = Owners
    BY <1>2 DEF CartInv, CallsTyped
  <1> QED
    BY <1>2, <1>3, <1>4, <1>5, LeaveKeeps

\* The catalogue and the clock move, the carts do not.
LEMMA CatalogKeeps ==
  ASSUME CartInv, SaleInv, StaysPublished, clock' \in Times,
         UNCHANGED <<cart, summary, call, stale, mixed>>
  PROVE  CartInv'
  <1>1. CallsTyped'
    BY DEF CartInv, CallsTyped
  <1>2. \A k \in Skus : product[SpuOf[k]].published => product'[SpuOf[k]].published
    BY CartAssumption DEF StaysPublished
  <1>3. ASSUME NEW items \in Lines, AllPublished(items)
        PROVE  \A i \in Times : IsLine(items[i]) => product'[SpuOf[items[i].sku]].published
    BY <1>2, <1>3, LinesTyped, LineIsLine DEF AllPublished
  <1>4. PublishedInv'
    <2>1. ASSUME NEW v \in Owners PROVE AllPublished(cart[v])'
      <3>1. cart[v] \in Lines /\ AllPublished(cart[v])
        BY DEF CartInv, PublishedInv, CallsTyped
      <3> QED
        BY <1>3, <3>1 DEF AllPublished
    <2>2. ASSUME NEW g \in Requests, call[g].op = "asked"
          PROVE  product'[SpuOf[call[g].sku]].published
      <3>1. call[g].sku \in Skus /\ product[SpuOf[call[g].sku]].published
        BY <2>2, CallTyped DEF CartInv, PublishedInv
      <3> QED
        BY <1>2, <3>1
    <2>3. ASSUME NEW g \in Requests, call[g].op = "write"
          PROVE  AllPublished(call[g].local)'
      <3>1. call[g].local \in Lines /\ AllPublished(call[g].local)
        BY <2>3, CallTyped DEF CartInv, PublishedInv, Writing
      <3> QED
        BY <1>3, <3>1 DEF AllPublished
    <2> QED
      BY <2>1, <2>2, <2>3 DEF PublishedInv
  <1>5. SummaryInv'
    BY DEF CartInv, SummaryInv, Unsummed
  <1>6. LinesInv'
    BY DEF CartInv, LinesInv, Writes
  <1> QED
    BY <1>1, <1>4, <1>5, <1>6 DEF CartInv

LEMMA ShopKeeps ==
  ASSUME CartInv, SaleInv, Shop
  PROVE  CartInv'
  <1>0. UNCHANGED <<clock, product>> /\ Owner \in Owners
    BY DEF Shop, idVars, catalogVars, Owners
  <1>1. ASSUME NEW r \in Requests, Begin(r) PROVE CartInv'
    <2>1. ASSUME NEW k \in Skus, Ask(r, Owner, k) PROVE CartInv'
      BY <1>0, <2>1, AskKeeps
    <2>2. ASSUME NEW i \in Times, NEW n \in Quantities, UpdateQuantity(r, Owner, i, n)
          PROVE  CartInv'
      BY <1>0, <2>2, UpdateKeeps
    <2>3. ASSUME NEW I \in SUBSET Times, NEW o \in Owners, RemoveItems(r, o, I)
          PROVE  CartInv'
      BY <1>0, <2>3, RemoveKeeps
    <2>4. ASSUME NEW I \in SUBSET Times, NEW chosen \in BOOLEAN, SetSelected(r, Owner, I, chosen)
          PROVE  CartInv'
      BY <1>0, <2>4, SelectKeeps
    <2> QED
      BY <1>1, <2>1, <2>2, <2>3, <2>4 DEF Begin
  <1>2. ASSUME NEW r \in Requests, Continue(r) PROVE CartInv'
    <2>1. ASSUME NEW n \in Quantities, AddItem(r, n) PROVE CartInv'
      BY <1>0, <2>1, AddItemKeeps
    <2>2. ASSUME NEW i \in Times, WriteLine(r, i) PROVE CartInv'
      BY <1>0, <2>2, WriteKeeps
    <2> QED
      BY <1>0, <1>2, <2>1, <2>2, RefuseKeeps, RecalcKeeps, BreakKeeps DEF Continue
  <1>3. ASSUME NEW o \in Owners, Expire(o) PROVE CartInv'
    BY <1>0, <1>3, ExpireKeeps
  <1> QED
    BY <1>1, <1>2, <1>3 DEF Shop

LEMMA StoreStep ==
  ASSUME CartInv, SaleInv, IdInv, [StoreNext]_storeVars
  PROVE  CartInv'
  <1>1. CASE Administer
    BY <1>1, SaleStep, CatalogKeeps DEF Administer, StoreNext, idVars, cartVars, CartInv, CallsTyped
  <1>2. CASE Shop
    BY <1>2, ShopKeeps
  <1>3. CASE Time
    <2>1. clock' \in Times
      BY <1>3, IdStep DEF Time, IdNext, IdInv, IdTypeOK
    <2> QED
      BY <1>3, <2>1, SaleStep, CatalogKeeps DEF Time, StoreNext, cartVars
  <1>4. CASE UNCHANGED storeVars
    BY <1>4, SaleStep, CatalogKeeps DEF storeVars, idVars, cartVars, CartInv, CallsTyped
  <1> QED
    BY <1>1, <1>2, <1>3, <1>4 DEF StoreNext

LEMMA StoreStarts == ASSUME StoreInit PROVE SaleInv /\ CartInv /\ IdInv
  <1>1. IdInv
    BY IdStarts DEF StoreInit
  <1>2. SaleInv
    BY DEF StoreInit, CatalogInit, SaleInv, ProductRow, SpuStatus
  <1>3. \A i \in Times : Empty[i] = NoLine /\ ~IsLine(Empty[i])
    BY DEF Empty, IsLine
  <1>4. Empty \in Lines
    BY DEF Empty, Lines
  <1>5. /\ cart = [o \in Owners |-> Empty] /\ summary = [o \in Owners |-> SummaryOf(Empty)]
        /\ call = [r \in Requests |-> Ready] /\ stale = {} /\ mixed = {}
    BY DEF StoreInit, CartInit
  <1>6. \A r \in Requests : call[r] = Ready /\ call[r].op = "ready"
    BY <1>5 DEF Ready
  <1>7. CallsTyped
    BY <1>1, <1>4, <1>5 DEF CallsTyped, IdInv, IdTypeOK
  <1>8. PublishedInv
    BY <1>3, <1>5, <1>6 DEF PublishedInv, AllPublished
  <1>9. SummaryInv
    BY <1>5, <1>6 DEF SummaryInv
  <1>10. LinesInv
    <2>1. LinesOf(Empty) \cup LinesOf(Empty) = {}
      BY <1>3 DEF LinesOf
    <2>2. Cardinality({}) = 0
      BY FS_EmptySet
    <2>3. Cardinality(LinesOf(Empty) \cup LinesOf(Empty)) <= MaxItems
      BY <2>1, <2>2, CartAssumption
    <2>4. WellFormed(Empty, Empty)
      BY <1>3, <2>3 DEF WellFormed
    <2> QED
      BY <1>5, <1>6, <2>4 DEF LinesInv, Writes
  <1> QED
    BY <1>1, <1>2, <1>7, <1>8, <1>9, <1>10 DEF CartInv

LEMMA StoreInvHolds == StoreSpec => [](SaleInv /\ CartInv /\ IdInv)
  <1>1. SaleInv /\ CartInv /\ IdInv /\ [StoreNext]_storeVars => (SaleInv /\ CartInv /\ IdInv)'
    <2>1. ASSUME IdInv, [StoreNext]_storeVars PROVE [IdNext]_idVars
      BY <2>1 DEF StoreNext, storeVars, Administer, Shop, Time, IdNext
    <2> QED
      BY <2>1, IdStep, SaleStep, StoreStep
  <1> QED
    BY <1>1, StoreStarts, PTL DEF StoreSpec

(***************************************************************************)
(* Products and the requests that publish them or take them off sale have  *)
(* their types, although each writes over what it read before.             *)
(***************************************************************************)
THEOREM ProductsTyped == StoreSpec => []CatalogTypeOK
  <1>1. StoreInit => category = {}
    BY DEF StoreInit, CatalogInit
  <1>2. category = {} /\ [StoreNext]_storeVars => (category = {})'
    BY DEF StoreNext, storeVars, catalogVars, Administer, Shop, Time, CreateProduct, EditRead,
           PublishWrite, UnpublishWrite
  <1>3. category = {} /\ SaleInv => CatalogTypeOK
    BY DEF SaleInv, CatalogTypeOK
  <1> QED
    BY <1>1, <1>2, <1>3, StoreInvHolds, PTL DEF StoreSpec

(***************************************************************************)
(* Whatever administrators and shoppers do at the same time, only products *)
(* that have been published get into carts.                                *)
(***************************************************************************)
THEOREM OnlyPublishedCarted == StoreSpec => []CartedWasPublished
  <1>1. CartInv => CartedWasPublished
    BY DEF CartInv, PublishedInv, AllPublished, CartedWasPublished, LinesOf
  <1> QED
    BY <1>1, StoreInvHolds, PTL

(***************************************************************************)
(* Unless a request has written a line of a cart and not yet its summary,  *)
(* the summary counts the lines, if the last request that changed either   *)
(* ran to its end without being overlapped and the lines have not expired. *)
(***************************************************************************)
THEOREM SummariesCount == StoreSpec => []SummaryCounts
  <1>1. CartInv => SummaryCounts
    BY DEF CartInv, SummaryInv, SummaryCounts
  <1> QED
    BY <1>1, StoreInvHolds, PTL

(***************************************************************************)
(* Requests that never overlapped leave one line for a SKU and no more     *)
(* lines than a cart may hold.                                             *)
(***************************************************************************)
THEOREM LinesAreDistinct == StoreSpec => []OneLinePerSku
  <1>1. ASSUME CartInv, NEW o \in Owners \ mixed
        PROVE  /\ Cardinality(LinesOf(cart[o])) <= MaxItems
               /\ \A i, j \in LinesOf(cart[o]) : cart[o][i].sku = cart[o][j].sku => i = j
    <2>1. WellFormed(cart[o], cart[o])
      BY <1>1 DEF CartInv, LinesInv
    <2>2. LinesOf(cart[o]) \cup LinesOf(cart[o]) = LinesOf(cart[o])
      OBVIOUS
    <2> QED
      BY <2>1, <2>2 DEF WellFormed, LinesOf
  <1>2. CartInv => OneLinePerSku
    BY <1>1 DEF OneLinePerSku
  <1> QED
    BY <1>2, StoreInvHolds, PTL
-----------------------------------------------------------------------------
(***************************************************************************)
(* The summary.  The quantity of a set of lines is a sum that MapThenSumSet*)
(* takes in an order of its own; as each line has an integer, so has the   *)
(* set.                                                                    *)
(***************************************************************************)
First(s) == CHOOSE x \in s : TRUE

IsQuantity(g, items, S) ==
  g = [s \in SUBSET S |-> IF s = {} THEN 0
                          ELSE LET x == CHOOSE y \in s : TRUE IN items[x].quantity + g[s \ {x}]]

\* What QuantityRecurs shows for every finite set.
TakesFirst(items, s) ==
  Quantity(items, s) =
    IF s = {} THEN 0 ELSE items[First(s)].quantity + Quantity(items, s \ {First(s)})

LEMMA QuantityIsFold ==
  ASSUME NEW items, NEW S
  PROVE  Quantity(items, S) = (CHOOSE g : IsQuantity(g, items, S))[S]
  BY DEF Quantity, MapThenSumSet, MapThenFoldSet, IsQuantity

LEMMA FirstIsIn == ASSUME NEW s, s # {} PROVE First(s) \in s
  BY DEF First

\* Among finite sets there is one without a proper subset among them.
LEMMA Smallest ==
  ASSUME NEW F, F # {}, \A s \in F : IsFiniteSet(s)
  PROVE  \E s \in F : \A t \in F : t \subseteq s => t = s
  <1> DEFINE sizes == {Cardinality(s) : s \in F}
  <1>1. sizes \in SUBSET Nat /\ sizes # {}
    BY FS_CardinalityType
  <1>2. PICK n \in sizes : \A m \in sizes : n <= m
    BY <1>1, Least
  <1>3. PICK s \in F : n = Cardinality(s)
    BY <1>2
  <1>4. ASSUME NEW t \in F, t \subseteq s, t # s PROVE FALSE
    <2>1. Cardinality(t) \in Nat /\ Cardinality(s) \in Nat
      BY FS_CardinalityType
    <2>2. Cardinality(t) <= Cardinality(s) /\ (Cardinality(t) = Cardinality(s) => t = s)
      BY <1>4, FS_Subset
    <2>3. n <= Cardinality(t)
      BY <1>2
    <2> QED
      BY <1>3, <1>4, <2>1, <2>2, <2>3
  <1> QED
    BY <1>4

\* The fold exists and is the only one, if the sums of smaller sets are right.
LEMMA QuantityOfWhole ==
  ASSUME NEW items, NEW S, IsFiniteSet(S), \A s \in SUBSET S : s # S => TakesFirst(items, s)
  PROVE  TakesFirst(items, S)
  <1> DEFINE next(s) == items[First(s)].quantity
             h == [s \in SUBSET S |->
                     IF s = {} THEN 0 ELSE next(s) + Quantity(items, s \ {First(s)})]
             G == CHOOSE g : IsQuantity(g, items, S)
  <1>1. \A s \in SUBSET S : s # S => Quantity(items, s) = h[s]
    BY DEF TakesFirst
  <1>2. \A s \in SUBSET S : h[s] = IF s = {} THEN 0 ELSE next(s) + h[s \ {First(s)}]
    <2>1. ASSUME NEW s \in SUBSET S, s # {}
          PROVE  h[s] = next(s) + h[s \ {First(s)}]
      <3>1. First(s) \in s
        BY <2>1, FirstIsIn
      <3>2. s \ {First(s)} \in SUBSET S /\ s \ {First(s)} # S
        BY <3>1
      <3>3. Quantity(items, s \ {First(s)}) = h[s \ {First(s)}]
        BY <1>1, <3>2
      <3>4. h[s] = next(s) + Quantity(items, s \ {First(s)})
        BY <2>1
      <3> QED
        BY <3>3, <3>4
    <2>2. {} \in SUBSET S /\ h[{}] = 0
      OBVIOUS
    <2> HIDE DEF h
    <2> QED
      BY <2>1, <2>2
  <1>3. h = [s \in SUBSET S |-> h[s]]
    OBVIOUS
  <1>4. h[S] = IF S = {} THEN 0 ELSE next(S) + Quantity(items, S \ {First(S)})
    OBVIOUS
  <1> HIDE DEF h
  <1>5. IsQuantity(h, items, S)
    BY <1>2, <1>3 DEF IsQuantity, First
  <1>6. IsQuantity(G, items, S)
    BY <1>5
  <1> HIDE DEF G
  <1>7. \A s \in SUBSET S : G[s] = IF s = {} THEN 0 ELSE next(s) + G[s \ {First(s)}]
    BY <1>6 DEF IsQuantity, First
  <1>8. \A s \in SUBSET S : G[s] = h[s]
    <2> DEFINE wrong == {s \in SUBSET S : G[s] # h[s]}
    <2>1. ASSUME wrong # {} PROVE FALSE
      <3>1. \A s \in wrong : IsFiniteSet(s)
        BY FS_Subset
      <3>2. PICK s \in wrong : \A t \in wrong : t \subseteq s => t = s
        <4> HIDE DEF wrong
        <4> QED
          BY <2>1, <3>1, Smallest
      <3>3. s # {}
        BY <1>2, <1>7, <3>2
      <3>4. First(s) \in s
        BY <3>3, FirstIsIn
      <3>5. G[s \ {First(s)}] = h[s \ {First(s)}]
        BY <3>2, <3>4
      <3> QED
        BY <1>2, <1>7, <3>2, <3>3, <3>5
    <2> QED
      BY <2>1
  <1>9. Quantity(items, S) = G[S]
    BY QuantityIsFold DEF G
  <1>10. Quantity(items, S) = h[S]
    BY <1>8, <1>9
  <1> QED
    BY <1>4, <1>10 DEF TakesFirst

LEMMA QuantityRecurs ==
  ASSUME NEW items, NEW S, IsFiniteSet(S)
  PROVE  TakesFirst(items, S)
  <1> DEFINE wrong == {s \in SUBSET S : ~TakesFirst(items, s)}
  <1>1. ASSUME wrong # {} PROVE FALSE
    <2>1. \A s \in wrong : IsFiniteSet(s)
      BY FS_Subset
    <2>2. PICK s \in wrong : \A t \in wrong : t \subseteq s => t = s
      <3> HIDE DEF wrong
      <3> QED
        BY <1>1, <2>1, Smallest
    <2>3. \A t \in SUBSET s : t # s => TakesFirst(items, t)
      BY <2>2
    <2> QED
      BY <2>1, <2>2, <2>3, QuantityOfWhole
  <1>2. S \in SUBSET S
    OBVIOUS
  <1> QED
    BY <1>1, <1>2

LEMMA QuantityIsInt ==
  ASSUME NEW items, NEW S, IsFiniteSet(S), \A x \in S : items[x].quantity \in Int
  PROVE  Quantity(items, S) \in Int
  <1> DEFINE wrong == {s \in SUBSET S : Quantity(items, s) \notin Int}
  <1>1. ASSUME wrong # {} PROVE FALSE
    <2>1. \A s \in wrong : IsFiniteSet(s)
      BY FS_Subset
    <2>2. PICK s \in wrong : \A t \in wrong : t \subseteq s => t = s
      <3> HIDE DEF wrong
      <3> QED
        BY <1>1, <2>1, Smallest
    <2>3. TakesFirst(items, s)
      BY <2>1, <2>2, QuantityRecurs
    <2>4. s # {}
      BY <2>2, <2>3 DEF TakesFirst
    <2>5. First(s) \in s
      BY <2>4, FirstIsIn
    <2>6. Quantity(items, s \ {First(s)}) \in Int
      BY <2>2, <2>5
    <2>7. items[First(s)].quantity \in Int
      BY <2>2, <2>5
    <2> QED
      BY <2>2, <2>3, <2>4, <2>6, <2>7 DEF TakesFirst
  <1>2. S \in SUBSET S
    OBVIOUS
  <1> QED
    BY <1>1, <1>2

LEMMA SummaryTyped == ASSUME NEW items \in Lines PROVE SummaryOf(items) \in Summary
  <1> DEFINE chosen == {i \in LinesOf(items) : items[i].selected}
  <1>1. ASSUME NEW S \in SUBSET LinesOf(items)
        PROVE  Cardinality(S) \in Nat /\ Quantity(items, S) \in Int
    <2>1. S \in SUBSET Times
      BY DEF LinesOf
    <2>2. \A i \in S : items[i].quantity \in Int
      BY LinesTyped, LineIsLine DEF LinesOf
    <2> QED
      BY <2>1, <2>2, LinesAreFew, QuantityIsInt
  <1>2. Cardinality(LinesOf(items)) \in Nat /\ Quantity(items, LinesOf(items)) \in Int
    BY <1>1
  <1>3. Cardinality(chosen) \in Nat /\ Quantity(items, chosen) \in Int
    BY <1>1
  <1> QED
    BY <1>2, <1>3 DEF SummaryOf, Summary

\* Only the last call of a request writes a summary, that of the lines it read.
LEMMA SummaryWritten ==
  ASSUME CallsTyped, summary \in [Owners -> Summary], [StoreNext]_storeVars
  PROVE  summary' \in [Owners -> Summary]
  <1>1. ASSUME NEW r \in Requests, Recalc(r) PROVE summary' \in [Owners -> Summary]
    <2>1. call[r] \in Writing
      BY <1>1, CallTyped DEF Recalc
    <2>2. PICK local \in Lines : local = call[r].local
      BY <2>1 DEF Writing
    <2>3. PICK o \in Owners : o = call[r].owner
      BY <2>1 DEF Writing
    <2>4. summary' = [summary EXCEPT ![o] = SummaryOf(local)]
      BY <1>1, <2>2, <2>3 DEF Recalc
    <2> QED
      BY <2>4, SummaryTyped
  <1>2. CASE \A r \in Requests : ~Recalc(r)
    <2>1. UNCHANGED summary
      BY <1>2 DEF StoreNext, storeVars, cartVars, Administer, Shop, Time, Begin, Continue, Ask,
                  Read, AddItem, Refuse, UpdateQuantity, RemoveItems, SetSelected, WriteLine,
                  Break, Expire
    <2> QED
      BY <2>1
  <1> QED
    BY <1>1, <1>2

(***************************************************************************)
(* The carts, their summaries and the requests at work on them always have *)
(* their types: what a request writes is made of lines and counts, however *)
(* stale what it has read, and no line is over the maximum, whatever       *)
(* integers, negative ones included, the requests name.                    *)
(***************************************************************************)
THEOREM CartTyped == StoreSpec => []CartTypeOK
  <1>1. StoreInit => summary \in [Owners -> Summary]
    <2>1. Empty \in Lines
      BY DEF Empty, Lines
    <2> QED
      BY <2>1, SummaryTyped DEF StoreInit, CartInit
  <1>2. CartInv /\ summary \in [Owners -> Summary] /\ [StoreNext]_storeVars
          => (summary \in [Owners -> Summary])'
    BY SummaryWritten DEF CartInv
  <1>3. CartInv /\ summary \in [Owners -> Summary] => CartTypeOK
    BY DEF CartInv, CallsTyped, CartTypeOK
  <1> QED
    BY <1>1, <1>2, <1>3, StoreInvHolds, PTL DEF StoreSpec
=============================================================================
