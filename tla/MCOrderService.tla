---------------------------- MODULE MCOrderService ----------------------------
(***************************************************************************)
(* One order paid by two messages (an event published twice, or payments   *)
(* through two channels), next to one that is paid by a single message.    *)
(***************************************************************************)
EXTENDS OrderService

CONSTANTS o1, o2, m1, m2, m3

MCMsgOrder == [m \in Messages |-> IF m = m3 THEN o2 ELSE o1]
=============================================================================
