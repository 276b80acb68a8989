----------------------------- MODULE MCInventory -----------------------------
(***************************************************************************)
(* Small catalogues for TLC: up to three orders compete for two SKUs.  o1  *)
(* and o2 want both SKUs, so a call can be refused on one line and must    *)
(* roll back the other; o3 wants the last units of s1.                     *)
(***************************************************************************)
EXTENDS Inventory

CONSTANTS o1, o2, o3, s1, s2, a1, a2

MCQty ==
  [o \in Orders |-> [s \in Skus |->
     CASE o = o1 -> 1
       [] o = o2 -> IF s = s1 THEN 2 ELSE 1
       [] OTHER  -> IF s = s1 THEN 2 ELSE 0]]

\* An administrator may enter a negative quantity.
MCAdjustQty == {-1, 1}

MCTargets == -1..2

MCInitialStock == [s \in Skus |-> IF s = s1 THEN 3 ELSE 1]
=============================================================================
