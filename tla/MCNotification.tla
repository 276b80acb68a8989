--------------------------- MODULE MCNotification ---------------------------
(***************************************************************************)
(* Two events about one order, the second with a recipient, two processes  *)
(* that dispatch and two handlers.                                         *)
(***************************************************************************)
EXTENDS Notification

CONSTANTS o1, d1, d2, w1, w2

MCAggregate == [e \in Events |-> o1]
=============================================================================
