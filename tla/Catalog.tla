------------------------------- MODULE Catalog -------------------------------
(***************************************************************************)
(* Categories and products of catalog-service: the category tree with its  *)
(* materialised paths, whose ids come from Snowflake, and products that    *)
(* are created, published and taken off sale.                              *)
(*                                                                         *)
(* publish and unpublish read the product without a lock and write the     *)
(* columns they changed; edit[h] is what the request in handler h read.    *)
(***************************************************************************)
EXTENDS Snowflake, SequencesExt

CONSTANTS
  MaxDepth,  \* levels of categories
  Products,  \* rows of spus
  Editors,   \* requests of administrators served at the same time
  NoCategory

ASSUME CatalogAssumption == MaxDepth \in Nat \ {0} /\ NoCategory \notin Ids

VARIABLES
  category,  \* the rows of categories
  product,   \* product[p]: the row of spus
  edit       \* edit[h]: the request in handler h

catalogVars == <<category, product, edit>>

CategoryRow == [id : Ids, parent : Ids \cup {NoCategory}, path : Seq(Ids), depth : 1..MaxDepth]
SpuStatus == {"NONE", "DRAFT", "ON_SALE", "OFF_SALE"}
\* published stands for published_at.
ProductRow == [status : SpuStatus, category : Ids \cup {NoCategory}, published : BOOLEAN]
NoEdit == [op |-> "none"]
Edit == [op : {"publish", "unpublish"}, product : Products, seen : ProductRow]

CatalogInit ==
  /\ category = {}
  /\ product = [p \in Products |->
       [status |-> "NONE", category |-> NoCategory, published |-> FALSE]]
  /\ edit = [h \in Editors |-> NoEdit]

-----------------------------------------------------------------------------
\* Variant: the path holds the parent and the category only.
RowShortPath(id, p) ==
  IF p = NoCategory
  THEN [id |-> id, parent |-> NoCategory, path |-> <<id>>, depth |-> 1]
  ELSE LET up == CHOOSE c \in category : c.id = p
       IN  [id |-> id, parent |-> p, path |-> <<p, id>>, depth |-> up.depth + 1]

\* The row of a new category under p, or at the top for NoCategory.
Row(id, p) ==
  IF p = NoCategory
  THEN [id |-> id, parent |-> NoCategory, path |-> <<id>>, depth |-> 1]
  ELSE LET up == CHOOSE c \in category : c.id = p
       IN  [id |-> id, parent |-> p, path |-> Append(up.path, id), depth |-> up.depth + 1]

\* create_category: parents are neither moved nor deleted, so the SELECT and the
\* INSERT are one step.  The primary key refuses an id that is taken.
CreateCategory(p, id) ==
  /\ p # NoCategory => \E c \in category : c.id = p /\ c.depth < MaxDepth
  /\ NextId(id) \/ SpinEnds(id)
  /\ category' = IF \E c \in category : c.id = id THEN category ELSE category \cup {Row(id, p)}
  /\ UNCHANGED <<product, edit>>

\* _subtree_ids: the rows whose path begins with the category's.
Subtree(c) == {d \in category : IsPrefix(c.path, d.path)}

-----------------------------------------------------------------------------
\* create_product takes any category id; its SKUs and their inventories are
\* inserted in the same commit.
CreateProduct(p, c) ==
  /\ product[p].status = "NONE"
  /\ product' = [product EXCEPT ![p].status = "DRAFT", ![p].category = c]
  /\ UNCHANGED <<category, edit>>

EditRead(h, op, p) ==
  /\ edit[h] = NoEdit
  /\ product[p].status # "NONE"
  /\ edit' = [edit EXCEPT ![h] = [op |-> op, product |-> p, seen |-> product[p]]]
  /\ UNCHANGED <<category, product>>

\* Only the columns that differ from what was read are written: a product read
\* as ON_SALE stays off sale if it was withdrawn meanwhile.
PublishWrite(h) ==
  /\ edit[h] # NoEdit /\ edit[h].op = "publish"
  /\ LET p == edit[h].product IN
     product' = [product EXCEPT ![p].published = TRUE,
       ![p].status = IF edit[h].seen.status = "ON_SALE" THEN product[p].status ELSE "ON_SALE"]
  /\ edit' = [edit EXCEPT ![h] = NoEdit]
  /\ UNCHANGED category

UnpublishWrite(h) ==
  /\ edit[h] # NoEdit /\ edit[h].op = "unpublish"
  /\ LET p == edit[h].product IN
     product' = [product EXCEPT ![p].status =
       IF edit[h].seen.status = "OFF_SALE" THEN product[p].status ELSE "OFF_SALE"]
  /\ edit' = [edit EXCEPT ![h] = NoEdit]
  /\ UNCHANGED category

CategoryNext ==
  \/ \E p \in {r.id : r \in category} \cup {NoCategory}, id \in Ids : CreateCategory(p, id)
  \/ (Exhaust \/ ClockStep) /\ UNCHANGED catalogVars

CategoryInit == IdInit /\ CatalogInit

CategorySpec == CategoryInit /\ [][CategoryNext]_<<idVars, catalogVars>>
-----------------------------------------------------------------------------
\* The rows and requests have their types.
CatalogTypeOK ==
  /\ category \in SUBSET CategoryRow
  /\ product \in [Products -> ProductRow]
  /\ edit \in [Editors -> Edit \cup {NoEdit}]

\* The categories at and below c, from parent to child.
Below(c) ==
  LET level[n \in 0..MaxDepth] ==
        IF n = 0 THEN {c}
        ELSE {d \in category : \E u \in level[n - 1] : d.parent = u.id}
  IN  UNION {level[n] : n \in 0..MaxDepth}

(***************************************************************************)
(* What list_products and the product filter take for the subtree of a     *)
(* category, by path prefix, is its subtree by parent_id, even when the    *)
(* clock stepped back and ids were drawn again; and every category is      *)
(* reached from the top within MaxDepth levels, as category_tree shows it. *)
(***************************************************************************)
SubtreeByPath ==
  /\ \A c \in category : Subtree(c) = Below(c)
  /\ category = UNION {Below(c) : c \in {r \in category : r.parent = NoCategory}}

=============================================================================
