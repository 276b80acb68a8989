----------------------------- MODULE Addresses ------------------------------
(***************************************************************************)
(* The delivery addresses of user-service.  A request reads an address, or *)
(* counts them, and then writes in one commit.  When another default is    *)
(* committed between clear_defaults and the commit, the unique index makes *)
(* the request fail, and nothing is written.                               *)
(***************************************************************************)
EXTENDS Integers, FiniteSets

CONSTANTS
  Owners,       \* users
  AddrIds,      \* rows of user_addresses
  Clerks,       \* requests served at the same time
  MaxAddresses  \* address_max_count

ASSUME AddressAssumption == MaxAddresses \in Nat

VARIABLES
  addr,     \* addr[a]: the row
  task      \* task[h]: the request in handler h, after its reads

addrVars == <<addr, task>>

Free == [op |-> "free"]
\* deleted stands for deleted_at.
AddrRow == [owner : Owners, default : BOOLEAN, deleted : BOOLEAN, version : Nat]
NoRow == [deleted |-> TRUE]

\* What a request goes by after its reads.
Task == {Free} \cup [op : {"add"}, owner : Owners, default : BOOLEAN]
               \cup [op : {"change"}, address : AddrIds, seen : Nat, default : BOOLEAN]
               \cup [op : {"delete"}, address : AddrIds]

AddrInit ==
  /\ addr = [a \in AddrIds |-> NoRow]
  /\ task = [h \in Clerks |-> Free]

Live(u) == {a \in AddrIds : ~addr[a].deleted /\ addr[a].owner = u}

-----------------------------------------------------------------------------
(***************************************************************************)
(* add_address_flow: the first address is the default even if the caller   *)
(* did not ask for it.                                                     *)
(***************************************************************************)
AddRead(h, u, asked) ==
  /\ task[h] = Free
  /\ Cardinality(Live(u)) < MaxAddresses
  /\ task' = [task EXCEPT ![h] =
       [op |-> "add", owner |-> u, default |-> asked \/ Live(u) = {}]]
  /\ UNCHANGED addr

\* clear_defaults: the live addresses of u.
Cleared(u) == [a \in AddrIds |-> IF a \in Live(u) THEN [addr[a] EXCEPT !.default = FALSE] ELSE addr[a]]

\* Variant: the other addresses keep their flag.
AddUncleared(h, a) ==
  /\ task[h].op = "add" /\ addr[a] = NoRow
  /\ addr' = [addr EXCEPT ![a] = [owner |-> task[h].owner, default |-> task[h].default,
                                  deleted |-> FALSE, version |-> 1]]
  /\ task' = [task EXCEPT ![h] = Free]

AddWrite(h, a) ==
  /\ task[h].op = "add" /\ addr[a] = NoRow
  /\ LET u == task[h].owner IN
     addr' = [(IF task[h].default THEN Cleared(u) ELSE addr) EXCEPT ![a] =
                [owner |-> u, default |-> task[h].default, deleted |-> FALSE, version |-> 1]]
  /\ task' = [task EXCEPT ![h] = Free]

(***************************************************************************)
(* update_address_flow and set_default_flow: version names the version the *)
(* caller saw, and 0 none.  An address that is the default already is      *)
(* written by an update and left alone by set_default.                     *)
(***************************************************************************)
OpenChange(h, a, default) ==
  /\ task[h] = Free
  /\ ~addr[a].deleted
  /\ task' = [task EXCEPT ![h] =
       [op |-> "change", address |-> a, seen |-> addr[a].version,
        default |-> default /\ ~addr[a].default]]
  /\ UNCHANGED addr

UpdateRead(h, a, default, version) ==
  /\ ~addr[a].deleted
  /\ version = 0 \/ version = addr[a].version
  /\ OpenChange(h, a, default)

SetDefaultRead(h, a) ==
  /\ ~addr[a].deleted /\ ~addr[a].default
  /\ OpenChange(h, a, TRUE)

\* Variant: an update takes the flag of the other addresses, and sets none.
ChangeClearing(h) ==
  /\ task[h].op = "change"
  /\ LET a == task[h].address IN
     addr' = [Cleared(addr[a].owner) EXCEPT ![a].version = task[h].seen + 1]
  /\ task' = [task EXCEPT ![h] = Free]

ChangeWrite(h) ==
  /\ task[h].op = "change"
  /\ LET a == task[h].address IN
     IF task[h].default
     THEN addr' = [Cleared(addr[a].owner) EXCEPT ![a].version = task[h].seen + 1, ![a].default = TRUE]
     ELSE addr' = [addr EXCEPT ![a].version = task[h].seen + 1]
  /\ task' = [task EXCEPT ![h] = Free]

\* delete_address_flow keeps the flag of a default; no other address gets it.
DeleteRead(h, a) ==
  /\ task[h] = Free
  /\ ~addr[a].deleted
  /\ task' = [task EXCEPT ![h] = [op |-> "delete", address |-> a]]
  /\ UNCHANGED addr

DeleteWrite(h) ==
  /\ task[h].op = "delete"
  /\ addr' = [addr EXCEPT ![task[h].address].deleted = TRUE]
  /\ task' = [task EXCEPT ![h] = Free]

\* What close_account does to the addresses of u.
DeleteAll(u) ==
  addr' = [a \in AddrIds |-> IF a \in Live(u) THEN [addr[a] EXCEPT !.deleted = TRUE] ELSE addr[a]]

\* A request of user u, who sees the live addresses of u only.
AddrRead(h, u) ==
  \/ \E asked \in BOOLEAN : AddRead(h, u, asked)
  \/ \E a \in Live(u) : SetDefaultRead(h, a) \/ DeleteRead(h, a)
  \/ \E a \in Live(u), default \in BOOLEAN, version \in {0, 1} : UpdateRead(h, a, default, version)

AddrWrite(h) ==
  \/ \E a \in AddrIds : AddWrite(h, a)
  \/ ChangeWrite(h)
  \/ DeleteWrite(h)
-----------------------------------------------------------------------------
\* The addresses and requests have their types.
AddrTypeOK ==
  /\ addr \in [AddrIds -> AddrRow \cup {NoRow}]
  /\ task \in [Clerks -> Task]

(***************************************************************************)
(* However adds, updates and deletions interleave, a user has at most one  *)
(* default address.                                                        *)
(***************************************************************************)
OneDefault ==
  \A u \in Owners : Cardinality({a \in Live(u) : addr[a].default}) <= 1

(***************************************************************************)
(* The default is moved, not dropped: a step that takes it from a live     *)
(* address gives it to another one of the user, unless the other one was   *)
(* deleted since the request read it.                                      *)
(***************************************************************************)
DefaultMoves ==
  [][\A a \in AddrIds :
       ~addr[a].deleted /\ addr[a].default /\ ~addr'[a].deleted /\ ~addr'[a].default
       => \E b \in AddrIds : b # a /\ addr'[b] # NoRow /\ addr'[b].owner = addr[a].owner
                             /\ addr'[b].default /\ (addr'[b].deleted => addr[b].deleted)]_addrVars
=============================================================================
