----------------------------- MODULE MCSessions -----------------------------
(***************************************************************************)
(* Two registrations with one address, of which one can succeed, two       *)
(* requests at a time and three refresh tokens.                            *)
(***************************************************************************)
EXTENDS Sessions, TLC

CONSTANTS u1, u2, h1, h2

MCEmail == [u \in Users |-> "a@example.com"]
SessionSymmetry == Permutations(Handlers) \cup Permutations(Users)
=============================================================================
