---------------------------- MODULE MCInventoryTx ----------------------------
(***************************************************************************)
(* Two orders over two SKUs, whose item lists name them in opposite order. *)
(* SKU 1 suffices for both orders, SKU 2 for one.                          *)
(***************************************************************************)
EXTENDS InventoryTx, TLC

CONSTANTS o1, o2, c1, c2, c3

MCQty == [o \in Orders |-> [s \in Skus |-> 1]]

MCInitialStock == [s \in Skus |-> IF s = 1 THEN 2 ELSE 1]

MCListed == [o \in Orders |-> [s \in Skus |-> IF o = o1 THEN s ELSE 3 - s]]

\* Nothing names a session.
CallSymmetry == Permutations(Calls)
=============================================================================
