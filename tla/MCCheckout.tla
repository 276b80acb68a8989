----------------------------- MODULE MCCheckout -----------------------------
(***************************************************************************)
(* o1 wants one unit of each SKU, o2 the last units of s1: either order    *)
(* can be refused because of the other.  Each is paid by one message.      *)
(***************************************************************************)
EXTENDS Checkout

CONSTANTS o1, o2, s1, s2, m1, m2

MCQty ==
  [o \in Orders |-> [s \in Skus |->
     CASE o = o1 -> 1
       [] OTHER  -> IF s = s1 THEN 2 ELSE 0]]

MCInitialStock == [s \in Skus |-> IF s = s1 THEN 2 ELSE 1]

MCMsgOrder == [m \in Messages |-> IF m = m1 THEN o1 ELSE o2]
=============================================================================
