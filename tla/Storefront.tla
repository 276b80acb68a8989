----------------------------- MODULE Storefront -----------------------------
(***************************************************************************)
(* catalog-service and cart-service together: administrators publish       *)
(* products and take them off sale while shoppers put them into carts, and *)
(* both read the same wall clock.  Categories are left to Catalog.         *)
(***************************************************************************)
EXTENDS Cart

CONSTANT MaxRequests  \* bound: requests that are begun

VARIABLE begun

storeVars == <<idVars, catalogVars, cartVars, begun>>

StoreInit == IdInit /\ CatalogInit /\ CartInit /\ begun = 0

Another == begun < MaxRequests /\ begun' = begun + 1

Administer ==
  /\ \/ \E p \in Products : CreateProduct(p, NoCategory) /\ UNCHANGED begun
     \/ \E h \in Editors, p \in Products, op \in {"publish", "unpublish"} : EditRead(h, op, p) /\ Another
     \/ \E h \in Editors : (PublishWrite(h) \/ UnpublishWrite(h)) /\ UNCHANGED begun
  /\ UNCHANGED <<idVars, cartVars>>

Shop ==
  /\ \/ \E r \in Requests : Begin(r) /\ Another
     \/ \E r \in Requests : Continue(r) /\ UNCHANGED begun
     \/ \E o \in Owners : Expire(o) /\ UNCHANGED begun
  /\ UNCHANGED <<idVars, catalogVars>>

Time == ClockStep /\ UNCHANGED <<catalogVars, cartVars, begun>>

StoreNext == Administer \/ Shop \/ Time

StoreSpec == StoreInit /\ [][StoreNext]_storeVars
=============================================================================
