---------------------------- MODULE StockPromise ----------------------------
(***************************************************************************)
(* What the inventory promises an order about each line, without stock,    *)
(* counters or a ledger: the lines of an order are held together, sold     *)
(* together, and a line that was returned or sold is never held again.     *)
(***************************************************************************)
CONSTANTS Orders, LinesOf   \* LinesOf[o]: the lines of o

VARIABLE promise   \* promise[o][s]: "open", "held", "sold" or "returned"

Become(o, S, st) ==
  promise' = [promise EXCEPT ![o] = [s \in LinesOf[o] |-> IF s \in S THEN st ELSE @[s]]]

Init == promise = [o \in Orders |-> [s \in LinesOf[o] |-> "open"]]

Hold(o) == Become(o, {s \in LinesOf[o] : promise[o][s] = "open"}, "held")

Sell(o) ==
  /\ \A s \in LinesOf[o] : promise[o][s] \in {"held", "sold"}
  /\ Become(o, LinesOf[o], "sold")

Return(o, S) ==
  /\ \A s \in S : promise[o][s] = "held"
  /\ Become(o, S, "returned")

Next ==
  \E o \in Orders : Hold(o) \/ Sell(o) \/ \E S \in SUBSET LinesOf[o] : Return(o, S)

Spec == Init /\ [][Next]_promise
=============================================================================
