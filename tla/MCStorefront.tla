---------------------------- MODULE MCStorefront ----------------------------
(***************************************************************************)
(* One product with two articles, a clock of two milliseconds, and two     *)
(* requests of shoppers and of administrators at a time.                   *)
(***************************************************************************)
EXTENDS Storefront

CONSTANTS p1, e1, e2, k1, k2, u1, r1, r2

MCQuantities == {-1, 0, 2}
MCSpuOf == [k \in Skus |-> p1]
RequestSymmetry == Permutations(Requests) \cup Permutations(Editors)
=============================================================================
