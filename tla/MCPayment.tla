------------------------------ MODULE MCPayment ------------------------------
(***************************************************************************)
(* One order, paid through one or two channels, refunded by requests with  *)
(* different and with equal Idempotency-Keys.                              *)
(***************************************************************************)
EXTENDS Payment

CONSTANTS p1, p2, o1, c1, c2, t1, t2, h1, h2, r1, r2, k1, k2, k3
=============================================================================
