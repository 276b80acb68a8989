------------------------------ MODULE MCCatalog ------------------------------
(***************************************************************************)
(* Categories only: a clock of a few milliseconds with two ids each.       *)
(***************************************************************************)
EXTENDS Catalog

CONSTANT e1
=============================================================================
