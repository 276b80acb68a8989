--------------------------- MODULE MCUserService ----------------------------
(***************************************************************************)
(* Two rows that register with one address, a few codes and delivery       *)
(* addresses of the first of them, and a bounded number of requests.       *)
(***************************************************************************)
EXTENDS UserService, TLC

CONSTANTS u1, u2, h1, h2

MCEmail == [u \in Users |-> "a@example.com"]
HandlerSymmetry == Permutations(Handlers)
=============================================================================
