-------------------------------- MODULE Cart --------------------------------
(***************************************************************************)
(* cart-service: a cart is a Redis hash of lines and a hash with its       *)
(* summary.  A request reads all lines, changes the lines it is about one  *)
(* by one, and then writes the summary of the lines as it read and changed *)
(* them; other requests run between these calls.  Before an item is added, *)
(* catalog-service is asked whether it can be sold.                        *)
(***************************************************************************)
EXTENDS Catalog

CONSTANTS
  Skus,          \* articles
  SpuOf,         \* the product of each of them
  Users,         \* users the internal routes name
  HeaderDefault, \* what resolve_owner finds when nothing passes it a header
  Requests,      \* requests served at the same time
  MaxItems,      \* max_items_per_cart
  MaxQuantity,   \* max_item_quantity
  Quantities     \* quantities the requests name: any, the routes check nothing

ASSUME CartAssumption ==
  /\ MaxItems \in Nat /\ MaxQuantity \in Nat \ {0} /\ Quantities \subseteq Int
  /\ SpuOf \in [Skus -> Products]
  /\ HeaderDefault \notin Users

VARIABLES
  cart,     \* cart[o]: the lines under cart:items, by the millisecond of their id
  summary,  \* summary[o]: the counts under cart:meta
  call,     \* call[r]: the request in handler r
  stale,    \* history: owners whose summary was written by an overlapped request,
            \* or not at all by one that ended after it wrote a line, or whose
            \* lines expired, and was not written by another one since
  mixed     \* history: owners with requests that overlapped

cartVars == <<cart, summary, call, stale, mixed>>

\* The public routes call resolve_owner() themselves, so nothing passes it the
\* headers of the request and it returns the same for every shopper.
Owner == HeaderDefault
Owners == {Owner} \cup Users

\* Nothing keeps a quantity from falling to zero or below.
Line == [sku : Skus, quantity : {n \in Int : n <= MaxQuantity}, selected : BOOLEAN]
NoLine == [quantity |-> 0]
IsLine(l) == l # NoLine
Lines == [Times -> Line \cup {NoLine}]
LinesOf(items) == {i \in Times : IsLine(items[i])}

Summary == [items : Nat, quantity : Int, selectedItems : Nat, selectedQuantity : Int]

Quantity(items, S) == MapThenSumSet(LAMBDA i : items[i].quantity, S)

\* _recalc_meta; the amount is the selected quantity at the prices of the lines.
SummaryOf(items) ==
  LET chosen == {i \in LinesOf(items) : items[i].selected} IN
  [items |-> Cardinality(LinesOf(items)), quantity |-> Quantity(items, LinesOf(items)),
   selectedItems |-> Cardinality(chosen), selectedQuantity |-> Quantity(items, chosen)]

Empty == [i \in Times |-> NoLine]
Ready == [op |-> "ready"]
Asked == [op : {"asked"}, owner : Owners, sku : Skus]
Writing == [op : {"write"}, owner : Owners, local : Lines, todo : SUBSET Times,
            wrote : BOOLEAN, overlapped : BOOLEAN]

CartInit ==
  /\ cart = [o \in Owners |-> Empty]
  /\ summary = [o \in Owners |-> SummaryOf(Empty)]
  /\ call = [r \in Requests |-> Ready]
  /\ stale = {} /\ mixed = {}

-----------------------------------------------------------------------------
(***************************************************************************)
(* The reads of a request.  local is the cart as it will leave it, todo    *)
(* the lines it will write, in the order in which the caller named them.   *)
(***************************************************************************)
Read(r, o, local, todo) ==
  /\ call[r] = Ready \/ call[r].op = "asked"
  /\ call' = [call EXCEPT ![r] =
       [op |-> "write", owner |-> o, local |-> local, todo |-> todo,
        wrote |-> FALSE, overlapped |-> FALSE]]
  /\ UNCHANGED <<cart, summary, stale, mixed>>

\* Variant: any answer of the catalogue will do.
AskAndTrust(r, o, k) ==
  /\ call[r] = Ready
  /\ call' = [call EXCEPT ![r] = [op |-> "asked", owner |-> o, sku |-> k]]
  /\ UNCHANGED <<cart, summary, stale, mixed>>

\* The route asks batch_query, which finds the product on sale and stock left.
Ask(r, o, k) ==
  /\ call[r] = Ready
  /\ product[SpuOf[k]].status = "ON_SALE"
  /\ call' = [call EXCEPT ![r] = [op |-> "asked", owner |-> o, sku |-> k]]
  /\ UNCHANGED <<cart, summary, stale, mixed>>

AtMost(n) == IF n > MaxQuantity THEN MaxQuantity ELSE n

\* Variant: every add makes a line of its own.
AddNewLine(r, n) ==
  /\ call[r].op = "asked"
  /\ LET o == call[r].owner
         items == cart[o]
         line == [sku |-> call[r].sku, quantity |-> AtMost(n), selected |-> TRUE]
     IN  /\ Cardinality(LinesOf(items)) < MaxItems
         /\ Read(r, o, [items EXCEPT ![clock] = line], {clock})

\* add_item: another line of the SKU gets the quantity, or a new line an id made
\* of the time.  A full cart refuses both.
AddItem(r, n) ==
  /\ call[r].op = "asked"
  /\ LET o == call[r].owner
         items == cart[o]
         same == {i \in LinesOf(items) : items[i].sku = call[r].sku}
         line == [sku |-> call[r].sku, quantity |-> AtMost(n), selected |-> TRUE]
     IN  /\ Cardinality(LinesOf(items)) < MaxItems
         /\ \/ same = {} /\ Read(r, o, [items EXCEPT ![clock] = line], {clock})
            \/ \E i \in same :
                 Read(r, o, [items EXCEPT ![i].quantity = AtMost(items[i].quantity + n)], {i})

\* A full cart, or a catalogue that does not answer.
Refuse(r) ==
  /\ call[r].op = "asked"
  /\ call' = [call EXCEPT ![r] = Ready]
  /\ UNCHANGED <<cart, summary, stale, mixed>>

UpdateQuantity(r, o, i, n) ==
  LET items == cart[o] IN
  /\ call[r] = Ready
  /\ IsLine(items[i])
  /\ n <= MaxQuantity
  /\ Read(r, o, [items EXCEPT ![i] = IF n = 0 THEN NoLine ELSE [@ EXCEPT !.quantity = n]], {i})

\* remove_item, batch-delete and the internal purge.
RemoveItems(r, o, I) ==
  LET items == cart[o] IN
  /\ call[r] = Ready
  /\ Read(r, o, [i \in Times |-> IF i \in I THEN NoLine ELSE items[i]], I \cap LinesOf(items))

SetSelected(r, o, I, chosen) ==
  LET items == cart[o]
      todo == I \cap LinesOf(items)
  IN  /\ call[r] = Ready
      /\ Read(r, o, [i \in Times |-> IF i \in todo THEN [items[i] EXCEPT !.selected = chosen]
                                     ELSE items[i]], todo)

-----------------------------------------------------------------------------
(***************************************************************************)
(* One HSET or HDEL.  The requests on the cart that have read it overlap   *)
(* with this one.                                                          *)
(***************************************************************************)
Others(r) ==
  {g \in Requests \ {r} : call[g].op = "write" /\ call[g].owner = call[r].owner}

WriteLine(r, i) ==
  /\ call[r].op = "write" /\ i \in call[r].todo
  /\ LET o == call[r].owner IN
     /\ cart' = [cart EXCEPT ![o][i] = call[r].local[i]]
     /\ call' = [g \in Requests |->
                   IF g = r THEN [call[r] EXCEPT !.todo = @ \ {i}, !.wrote = TRUE]
                   ELSE IF g \in Others(r) THEN [call[g] EXCEPT !.overlapped = TRUE]
                   ELSE call[g]]
     /\ mixed' = IF Others(r) = {} THEN mixed ELSE mixed \cup {o}
  /\ UNCHANGED <<summary, stale>>

\* Variant: the summary is left for the next request.
RecalcLater(r) ==
  /\ call[r].op = "write" /\ call[r].todo = {}
  /\ call' = [call EXCEPT ![r] = Ready]
  /\ LET o == call[r].owner IN
     stale' = IF call[r].overlapped THEN stale \cup {o} ELSE stale \ {o}
  /\ UNCHANGED <<cart, summary, mixed>>

Recalc(r) ==
  /\ call[r].op = "write" /\ call[r].todo = {}
  /\ call' = [call EXCEPT ![r] = Ready]
  /\ LET o == call[r].owner IN
     /\ summary' = [summary EXCEPT ![o] = SummaryOf(call[r].local)]
     /\ stale' = IF call[r].overlapped THEN stale \cup {o} ELSE stale \ {o}
  /\ UNCHANGED <<cart, mixed>>

\* A call of Redis fails or the process dies: the lines that were written stay,
\* the summary is the one from before.
Break(r) ==
  /\ call[r].op = "write"
  /\ call' = [call EXCEPT ![r] = Ready]
  /\ stale' = IF call[r].wrote THEN stale \cup {call[r].owner} ELSE stale
  /\ UNCHANGED <<cart, summary, mixed>>

\* Only the lines have a time to live; for the requests that have read them
\* this is a change like another.
Expire(o) ==
  /\ LinesOf(cart[o]) # {}
  /\ cart' = [cart EXCEPT ![o] = Empty]
  /\ call' = [g \in Requests |->
                IF call[g].op = "write" /\ call[g].owner = o
                THEN [call[g] EXCEPT !.overlapped = TRUE] ELSE call[g]]
  /\ stale' = stale \cup {o}
  /\ UNCHANGED <<summary, mixed>>

Unsummed(r, o) == call[r].op = "write" /\ call[r].owner = o /\ call[r].wrote

Begin(r) ==
  \/ \E k \in Skus : Ask(r, Owner, k)
  \/ \E i \in Times, n \in Quantities : UpdateQuantity(r, Owner, i, n)
  \/ \E I \in SUBSET Times : I # {} /\
       \/ \E o \in Owners : RemoveItems(r, o, I)
       \/ \E chosen \in BOOLEAN : SetSelected(r, Owner, I, chosen)

Continue(r) ==
  \/ \E n \in Quantities : AddItem(r, n)
  \/ Refuse(r)
  \/ \E i \in Times : WriteLine(r, i)
  \/ Recalc(r)
  \/ Break(r)
-----------------------------------------------------------------------------
\* The carts and requests have their types, and no line is over the maximum.
CartTypeOK ==
  /\ cart \in [Owners -> Lines]
  /\ summary \in [Owners -> Summary]
  /\ call \in [Requests -> {Ready} \cup Asked \cup Writing]
  /\ stale \in SUBSET Owners /\ mixed \in SUBSET Owners

(***************************************************************************)
(* The summary counts the lines, except while a request has written a line *)
(* and not the summary yet.  Three things spoil it for longer: requests    *)
(* that overlap, one that ends between the two, and the expiry of the      *)
(* lines; the next request that runs to its end without being overlapped   *)
(* puts it right, whatever it does.                                        *)
(***************************************************************************)
SummaryCounts ==
  \A o \in Owners :
    o \notin stale /\ (\A r \in Requests : ~Unsummed(r, o))
    => summary[o] = SummaryOf(cart[o])

(***************************************************************************)
(* A cart whose requests never overlapped has one line per SKU and no more *)
(* lines than allowed.                                                     *)
(***************************************************************************)
OneLinePerSku ==
  \A o \in Owners \ mixed :
    /\ Cardinality(LinesOf(cart[o])) <= MaxItems
    /\ \A i, j \in LinesOf(cart[o]) : cart[o][i].sku = cart[o][j].sku => i = j

(***************************************************************************)
(* Whatever was taken off sale since, only what was published gets into a  *)
(* cart.                                                                   *)
(***************************************************************************)
CartedWasPublished ==
  \A o \in Owners : \A i \in LinesOf(cart[o]) : product[SpuOf[cart[o][i].sku]].published
=============================================================================
