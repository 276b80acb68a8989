------------------------- MODULE NotificationProofs --------------------------
(***************************************************************************)
(* What holds of the outbox and of notification-service for any events,    *)
(* processes, handlers, batch sizes and faults: the outbox publishes, and  *)
(* the service consumes as Outbox allows and records what it handles.      *)
(***************************************************************************)
EXTENDS Notification, TLAPS


LEMMA BrokerTyped ==
  ASSUME OutboxTypeOK, NEW e \in Events, Broker(e)
  PROVE  /\ copies' \in [Events -> Nat]
         /\ queued' \in [Events -> Nat]
         /\ \A f \in Events : copies'[f] = IF f = e THEN copies[f] + 1 ELSE copies[f]
  <1>1. copies[e] \in Nat /\ queued[e] \in Nat
    BY DEF OutboxTypeOK
  <1>2. copies' = [copies EXCEPT ![e] = copies[e] + 1]
    BY DEF Broker
  <1>3. queued' = [queued EXCEPT ![e] = IF bound THEN queued[e] + 1 ELSE queued[e]]
    BY DEF Broker
  <1> QED
    BY <1>1, <1>2, <1>3 DEF OutboxTypeOK

LEMMA FaultTyped ==
  ASSUME OutboxTypeOK, Fault
  PROVE  faults' \in 0..MaxFaults /\ faults' = faults + 1
  BY OutboxAssumption DEF OutboxTypeOK, Fault

LEMMA NoteTyped ==
  ASSUME OutboxTypeOK, NEW d \in Dispatchers, NEW e \in Events,
         NEW S \in SUBSET Events, NEW F \in SUBSET Events, Note(d, e, S, F)
  PROVE  /\ run' \in [Dispatchers -> Run]
         /\ run'[d] = [todo |-> run[d].todo \ {e}, sent |-> run[d].sent \cup S,
                       failed |-> run[d].failed \cup F]
         /\ \A c \in Dispatchers : c # d => run'[c] = run[c]
  <1>1. run[d] \in Run
    BY DEF OutboxTypeOK
  <1>2. [todo |-> run[d].todo \ {e}, sent |-> run[d].sent \cup S,
         failed |-> run[d].failed \cup F] \in Run
    BY <1>1 DEF Run
  <1> QED
    BY <1>2 DEF OutboxTypeOK, Note

\* What a commit makes of one row.
LEMMA NotedTyped ==
  ASSUME OutboxTypeOK, NEW d \in Dispatchers, NEW e \in Events
  PROVE  /\ Noted(d, e) \in OutboxRow
         /\ e \in run[d].sent => Noted(d, e).status = "SENT"
         /\ e \notin run[d].sent /\ e \in run[d].failed
              => Noted(d, e).status \in {"PENDING", "FAILED"}
         /\ e \notin run[d].sent /\ e \notin run[d].failed => Noted(d, e) = row[e]
  <1>1. row[e] \in OutboxRow /\ row[e].retry \in Nat
    BY DEF OutboxTypeOK, OutboxRow
  <1>2. Retried(row[e]) \in OutboxRow /\ Retried(row[e]).status \in {"PENDING", "FAILED"}
    BY <1>1 DEF Retried, OutboxRow, RowStatus
  <1>3. [row[e] EXCEPT !.status = "SENT"] \in OutboxRow
    BY <1>1 DEF OutboxRow, RowStatus
  <1> QED
    BY <1>1, <1>2, <1>3 DEF Noted, OutboxRow

-----------------------------------------------------------------------------
(***************************************************************************)
(* The types.                                                              *)
(***************************************************************************)
THEOREM OutboxTyped == OutboxSpec => []OutboxTypeOK
  <1>1. OutboxInit => OutboxTypeOK
    <2> SUFFICES ASSUME OutboxInit PROVE OutboxTypeOK
      OBVIOUS
    <2>1. row \in [Events -> OutboxRow] /\ run \in [Dispatchers -> Run]
      BY DEF OutboxInit, OutboxRow, RowStatus, Run, NoRun
    <2>2. up \in [Dispatchers -> BOOLEAN] /\ bound \in BOOLEAN
      BY OutboxAssumption DEF OutboxInit
    <2>3. /\ copies \in [Events -> Nat] /\ queued \in [Events -> Nat]
          /\ handled \in SUBSET Events /\ rejected \in SUBSET Events
          /\ faults \in 0..MaxFaults
      BY OutboxAssumption DEF OutboxInit
    <2> QED
      BY <2>1, <2>2, <2>3 DEF OutboxTypeOK
  <1>2. OutboxTypeOK /\ [OutboxNext]_outboxVars => OutboxTypeOK'
    <2> SUFFICES ASSUME OutboxTypeOK, [OutboxNext]_outboxVars PROVE OutboxTypeOK'
      OBVIOUS
    <2>1. ASSUME NEW e \in Events, Write(e) PROVE OutboxTypeOK'
      <3>1. [status |-> "PENDING", retry |-> 0, due |-> TRUE] \in OutboxRow
        BY DEF OutboxRow, RowStatus
      <3>2. row' \in [Events -> OutboxRow]
        BY <2>1, <3>1 DEF Write, OutboxTypeOK
      <3> QED
        BY <2>1, <3>2 DEF Write, OutboxTypeOK
    <2>2. ASSUME NEW e \in Events, BecomeDue(e) PROVE OutboxTypeOK'
      <3>1. [row[e] EXCEPT !.due = TRUE] \in OutboxRow
        BY DEF OutboxTypeOK, OutboxRow
      <3>2. row' = [row EXCEPT ![e] = [row[e] EXCEPT !.due = TRUE]]
        BY <2>2 DEF BecomeDue
      <3>3. row' \in [Events -> OutboxRow]
        BY <3>1, <3>2 DEF OutboxTypeOK
      <3> QED
        BY <2>2, <3>3 DEF BecomeDue, OutboxTypeOK
    <2>3. ASSUME NEW d \in Dispatchers, Select(d) PROVE OutboxTypeOK'
      <3>1. PICK B \in SUBSET Selectable :
               run' = [run EXCEPT ![d] = [todo |-> B, sent |-> {}, failed |-> {}]]
        BY <2>3 DEF Select
      <3>2. [todo |-> B, sent |-> {}, failed |-> {}] \in Run
        BY DEF Selectable, Run
      <3>3. run' \in [Dispatchers -> Run]
        BY <3>1, <3>2 DEF OutboxTypeOK
      <3> QED
        BY <2>3, <3>3 DEF Select, OutboxTypeOK
    <2>4. ASSUME NEW d \in Dispatchers, NEW e \in Events, PublishOk(d, e)
          PROVE  OutboxTypeOK'
      <3>1. run' \in [Dispatchers -> Run]
        <4>1. {e} \in SUBSET Events /\ {} \in SUBSET Events /\ Note(d, e, {e}, {})
          BY <2>4 DEF PublishOk
        <4> QED
          BY <4>1, NoteTyped
      <3>2. copies' \in [Events -> Nat] /\ queued' \in [Events -> Nat]
        BY <2>4, BrokerTyped DEF PublishOk
      <3> QED
        BY <2>4, <3>1, <3>2 DEF PublishOk, OutboxTypeOK
    <2>5. ASSUME NEW d \in Dispatchers, NEW e \in Events, PublishFails(d, e)
          PROVE  OutboxTypeOK'
      <3>1. run' \in [Dispatchers -> Run]
        <4>1. {e} \in SUBSET Events /\ {} \in SUBSET Events /\ Note(d, e, {}, {e})
          BY <2>5 DEF PublishFails
        <4> QED
          BY <4>1, NoteTyped
      <3>2. copies' \in [Events -> Nat] /\ queued' \in [Events -> Nat]
        BY <2>5, BrokerTyped DEF PublishFails, OutboxTypeOK
      <3>3. faults' \in 0..MaxFaults
        BY <2>5, FaultTyped DEF PublishFails
      <3> QED
        BY <2>5, <3>1, <3>2, <3>3 DEF PublishFails, OutboxTypeOK
    <2>6. ASSUME NEW d \in Dispatchers, Commit(d) PROVE OutboxTypeOK'
      <3>1. row' \in [Events -> OutboxRow]
        BY <2>6, NotedTyped DEF Commit
      <3>2. run' \in [Dispatchers -> Run]
        BY <2>6 DEF Commit, OutboxTypeOK, NoRun, Run
      <3> QED
        BY <2>6, <3>1, <3>2 DEF Commit, OutboxTypeOK
    <2>7. ASSUME NEW d \in Dispatchers, RunFails(d) \/ Restart(d) PROVE OutboxTypeOK'
      <3>1. run' \in [Dispatchers -> Run]
        BY <2>7 DEF RunFails, Restart, OutboxTypeOK, NoRun, Run
      <3>2. up' \in [Dispatchers -> BOOLEAN]
        BY <2>7, OutboxAssumption DEF RunFails, Restart, OutboxTypeOK
      <3>3. faults' \in 0..MaxFaults
        BY <2>7, FaultTyped DEF RunFails, Restart
      <3> QED
        BY <2>7, <3>1, <3>2, <3>3 DEF RunFails, Restart, OutboxTypeOK
    <2>8. ASSUME Bind PROVE OutboxTypeOK'
      BY <2>8 DEF Bind, OutboxTypeOK
    <2>9. ASSUME NEW e \in Events, Handle(e) \/ Reject(e) PROVE OutboxTypeOK'
      <3>1. queued[e] \in Nat /\ queued[e] > 0
        BY <2>9 DEF Handle, Reject, OutboxTypeOK
      <3>2. queued' = [queued EXCEPT ![e] = queued[e] - 1]
        BY <2>9 DEF Handle, Reject
      <3>3. queued' \in [Events -> Nat]
        BY <3>1, <3>2 DEF OutboxTypeOK
      <3>4. handled' \in SUBSET Events /\ rejected' \in SUBSET Events
        BY <2>9 DEF Handle, Reject, OutboxTypeOK
      <3> QED
        BY <2>9, <3>3, <3>4 DEF Handle, Reject, OutboxTypeOK
    <2>10. ASSUME DieUncommitted \/ \E e \in Events : DieUnacknowledged(e) PROVE OutboxTypeOK'
      <3>1. faults' \in 0..MaxFaults
        BY <2>10, FaultTyped DEF DieUncommitted, DieUnacknowledged
      <3> QED
        BY <2>10, <3>1 DEF DieUncommitted, DieUnacknowledged, OutboxTypeOK
    <2>11. CASE UNCHANGED outboxVars
      BY <2>11 DEF outboxVars, OutboxTypeOK
    <2> QED
      BY <2>1, <2>2, <2>3, <2>4, <2>5, <2>6, <2>7, <2>8, <2>9, <2>10, <2>11
      DEF OutboxNext, DispatchNext, ConsumeNext
  <1> QED
    BY <1>1, <1>2, PTL DEF OutboxSpec

-----------------------------------------------------------------------------
(***************************************************************************)
(* The row locks: no row is in two runs, a run has each of its rows in one *)
(* place, and a locked row is one that the SELECT may take.                *)
(***************************************************************************)
Locks ==
  /\ \A c, d \in Dispatchers : c # d => Locked(c) \cap Locked(d) = {}
  /\ \A d \in Dispatchers : /\ run[d].todo \cap run[d].sent = {}
                             /\ run[d].todo \cap run[d].failed = {}
                             /\ run[d].sent \cap run[d].failed = {}
  /\ \A d \in Dispatchers : \A e \in Locked(d) : row[e].status \in {"PENDING", "FAILED"}

\* A step that only moves e from todo to one of the other places.
LEMMA NoteKeepsLocks ==
  ASSUME OutboxTypeOK, Locks, NEW d \in Dispatchers, NEW e \in Events,
         NEW S \in SUBSET Events, NEW F \in SUBSET Events, Note(d, e, S, F),
         NextOf(d, e), S \cup F = {e}, S \cap F = {}, row' = row
  PROVE  Locks'
  <1>1. /\ run'[d] = [todo |-> run[d].todo \ {e}, sent |-> run[d].sent \cup S,
                      failed |-> run[d].failed \cup F]
        /\ \A c \in Dispatchers : c # d => run'[c] = run[c]
    BY NoteTyped
  <1>2. e \in run[d].todo
    BY DEF NextOf
  <1>3. Locked(d)' = Locked(d) /\ \A c \in Dispatchers : c # d => Locked(c)' = Locked(c)
    BY <1>1, <1>2 DEF Locked
  <1>4. /\ run'[d].todo \cap run'[d].sent = {}
        /\ run'[d].todo \cap run'[d].failed = {}
        /\ run'[d].sent \cap run'[d].failed = {}
    BY <1>1, <1>2 DEF Locks
  <1> QED
    BY <1>1, <1>3, <1>4 DEF Locks

\* A step that takes a run back.
LEMMA ClearKeepsLocks ==
  ASSUME OutboxTypeOK, Locks, NEW d \in Dispatchers,
         run' = [run EXCEPT ![d] = NoRun],
         \A e \in Events : e \notin Locked(d) => row'[e] = row[e]
  PROVE  Locks'
  <1>1. run'[d] = NoRun /\ \A c \in Dispatchers : c # d => run'[c] = run[c]
    BY DEF OutboxTypeOK
  <1>2. Locked(d)' = {} /\ \A c \in Dispatchers : c # d => Locked(c)' = Locked(c)
    BY <1>1 DEF Locked, NoRun
  <1>3. \A c \in Dispatchers : Locked(c) \subseteq Events
    BY DEF OutboxTypeOK, Run, Locked
  <1>4. \A c \in Dispatchers : c # d =>
          \A e \in Locked(c) : row'[e].status \in {"PENDING", "FAILED"}
    BY <1>3 DEF Locks
  <1> QED
    BY <1>1, <1>2, <1>4 DEF Locks, NoRun

LEMMA LocksHold == OutboxTypeOK /\ Locks /\ [OutboxNext]_outboxVars => Locks'
  <1> SUFFICES ASSUME OutboxTypeOK, Locks, [OutboxNext]_outboxVars PROVE Locks'
    OBVIOUS
  <1>0. \A c \in Dispatchers : Locked(c) \subseteq Events
    BY DEF OutboxTypeOK, Run, Locked
  <1>1. ASSUME NEW e \in Events, Write(e) \/ BecomeDue(e) PROVE Locks'
    <2>1. \A f \in Events : row[f].status \in {"PENDING", "FAILED"}
                             => row'[f].status \in {"PENDING", "FAILED"}
      BY <1>1 DEF Write, BecomeDue, OutboxTypeOK, OutboxRow
    <2>2. run' = run
      BY <1>1 DEF Write, BecomeDue
    <2> QED
      BY <1>0, <2>1, <2>2 DEF Locks, Locked
  <1>2. ASSUME NEW d \in Dispatchers, Select(d) PROVE Locks'
    <2>1. PICK B \in SUBSET Selectable :
             run' = [run EXCEPT ![d] = [todo |-> B, sent |-> {}, failed |-> {}]]
      BY <1>2 DEF Select
    <2>2. /\ run'[d] = [todo |-> B, sent |-> {}, failed |-> {}]
          /\ \A c \in Dispatchers : c # d => run'[c] = run[c]
      BY <2>1 DEF OutboxTypeOK
    <2>3. Locked(d)' = B /\ \A c \in Dispatchers : c # d => Locked(c)' = Locked(c)
      BY <2>2 DEF Locked
    <2>4. /\ \A c \in Dispatchers : B \cap Locked(c) = {}
          /\ \A e \in B : row[e].status \in {"PENDING", "FAILED"}
      BY DEF Selectable, Free
    <2>5. row' = row
      BY <1>2 DEF Select
    <2> QED
      BY <2>2, <2>3, <2>4, <2>5 DEF Locks
  <1>3. ASSUME NEW d \in Dispatchers, NEW e \in Events,
               PublishOk(d, e) \/ PublishFails(d, e)
        PROVE  Locks'
    <2>1. PICK S \in SUBSET Events, F \in SUBSET Events :
             Note(d, e, S, F) /\ S \cup F = {e} /\ S \cap F = {}
      BY <1>3 DEF PublishOk, PublishFails
    <2>2. NextOf(d, e) /\ row' = row
      BY <1>3 DEF PublishOk, PublishFails
    <2> QED
      BY <2>1, <2>2, NoteKeepsLocks
  <1>4. ASSUME NEW d \in Dispatchers, Commit(d) PROVE Locks'
    <2>1. \A e \in Events : e \notin Locked(d) => row'[e] = row[e]
      BY <1>4, NotedTyped DEF Commit, Locked
    <2> QED
      BY <1>4, <2>1, ClearKeepsLocks DEF Commit
  <1>5. ASSUME NEW d \in Dispatchers, RunFails(d) \/ Restart(d) PROVE Locks'
    BY <1>5, ClearKeepsLocks DEF RunFails, Restart
  <1>6. CASE UNCHANGED <<row, run>>
    BY <1>6 DEF Locks, Locked
  <1>7. ASSUME NEW e \in Events, Handle(e) \/ Reject(e) \/ DieUnacknowledged(e)
        PROVE  UNCHANGED <<row, run>>
    BY <1>7 DEF Handle, Reject, DieUnacknowledged
  <1>8. CASE DieUncommitted
    BY <1>6, <1>8 DEF DieUncommitted
  <1> QED
    BY <1>1, <1>2, <1>3, <1>4, <1>5, <1>6, <1>7, <1>8
    DEF OutboxNext, DispatchNext, ConsumeNext, Bind, outboxVars

-----------------------------------------------------------------------------
(***************************************************************************)
(* The copies: one that is noted, or was committed as SENT, may be free of *)
(* charge; every other one was paid for by a fault.                        *)
(***************************************************************************)
Taken(e) == row[e].status = "SENT" \/ \E d \in Dispatchers : e \in run[d].sent

CopiesPaid ==
  \A e \in Events : IF Taken(e) THEN copies[e] \in 1..(1 + faults)
                    ELSE copies[e] <= faults

\* A step that publishes nothing and after which nothing more is Taken, or for
\* which a fault pays.
LEMMA QuietStep ==
  ASSUME OutboxTypeOK, CopiesPaid, copies' = copies, faults' \in Nat,
         \/ faults' = faults /\ \A e \in Events : Taken(e)' = Taken(e)
         \/ faults' = faults + 1 /\ \A e \in Events : Taken(e)' => Taken(e)
  PROVE  CopiesPaid'
  <1> SUFFICES ASSUME NEW e \in Events
               PROVE  IF Taken(e)' THEN copies'[e] \in 1..(1 + faults')
                      ELSE copies'[e] <= faults'
    BY DEF CopiesPaid
  <1>1. copies[e] \in Nat /\ faults \in Nat
    BY OutboxAssumption DEF OutboxTypeOK
  <1>2. IF Taken(e) THEN copies[e] \in 1..(1 + faults) ELSE copies[e] <= faults
    BY DEF CopiesPaid
  <1> HIDE DEF Taken
  <1> QED
    BY <1>1, <1>2

LEMMA CopiesCounted ==
  OutboxTypeOK /\ Locks /\ CopiesPaid /\ [OutboxNext]_outboxVars => CopiesPaid'
  <1> SUFFICES ASSUME OutboxTypeOK, Locks, CopiesPaid, [OutboxNext]_outboxVars
               PROVE  CopiesPaid'
    OBVIOUS
  <1>0. faults \in Nat
    BY OutboxAssumption DEF OutboxTypeOK
  <1>1. ASSUME NEW e \in Events, Write(e) \/ BecomeDue(e) PROVE CopiesPaid'
    <2>1. \A f \in Events : row'[f].status = "SENT" <=> row[f].status = "SENT"
      BY <1>1 DEF Write, BecomeDue, OutboxTypeOK, OutboxRow
    <2>2. run' = run /\ copies' = copies /\ faults' = faults
      BY <1>1 DEF Write, BecomeDue
    <2>3. \A f \in Events : Taken(f)' = Taken(f)
      BY <2>1, <2>2 DEF Taken
    <2> QED
      BY <1>0, <2>2, <2>3, QuietStep
  <1>2. ASSUME NEW d \in Dispatchers, Select(d) PROVE CopiesPaid'
    <2>1. PICK B \in SUBSET Selectable :
             run' = [run EXCEPT ![d] = [todo |-> B, sent |-> {}, failed |-> {}]]
      BY <1>2 DEF Select
    <2>2. \A c \in Dispatchers : run'[c].sent = run[c].sent
      BY <1>2, <2>1 DEF Select, OutboxTypeOK, NoRun
    <2>3. row' = row /\ copies' = copies /\ faults' = faults
      BY <1>2 DEF Select
    <2>4. \A f \in Events : Taken(f)' = Taken(f)
      BY <2>2, <2>3 DEF Taken
    <2> QED
      BY <1>0, <2>3, <2>4, QuietStep
  <1>3. ASSUME NEW d \in Dispatchers, NEW e \in Events,
               PublishOk(d, e) \/ PublishFails(d, e)
        PROVE  CopiesPaid'
    <2>1. PICK S \in SUBSET Events, F \in SUBSET Events :
             /\ Note(d, e, S, F)
             /\ \/ PublishOk(d, e) /\ S = {e}
                \/ PublishFails(d, e) /\ S = {}
      <3>1. CASE PublishOk(d, e)
        <4>1. Note(d, e, {e}, {})
          BY <3>1 DEF PublishOk
        <4> QED
          BY <3>1, <4>1
      <3>2. CASE PublishFails(d, e)
        <4>1. Note(d, e, {}, {e})
          BY <3>2 DEF PublishFails
        <4> QED
          BY <3>2, <4>1
      <3> QED
        BY <1>3, <3>1, <3>2
    <2>2. /\ run'[d].sent = run[d].sent \cup S
          /\ \A c \in Dispatchers : c # d => run'[c].sent = run[c].sent
      <3>1. Note(d, e, S, F)
        BY <2>1
      <3>2. /\ run'[d] = [todo |-> run[d].todo \ {e}, sent |-> run[d].sent \cup S,
                          failed |-> run[d].failed \cup F]
            /\ \A c \in Dispatchers : c # d => run'[c] = run[c]
        BY <3>1, NoteTyped
      <3> QED
        BY <3>2
    <2>3. row' = row
      BY <1>3 DEF PublishOk, PublishFails
    <2>4. \A f \in Events : Taken(f)' <=> Taken(f) \/ f \in S
      BY <2>2, <2>3 DEF Taken
    <2>5. ~Taken(e)
      <3>1. e \in run[d].todo /\ e \in Locked(d)
        BY <1>3 DEF PublishOk, PublishFails, NextOf, Locked
      <3>2. row[e].status # "SENT"
        BY <3>1 DEF Locks
      <3>3. \A c \in Dispatchers : e \notin run[c].sent
        BY <3>1 DEF Locks, Locked
      <3> QED
        BY <3>2, <3>3 DEF Taken
    <2>6. \A f \in Events : copies[f] \in Nat /\ copies'[f] \in Nat
      BY <1>3, BrokerTyped DEF OutboxTypeOK, PublishOk, PublishFails
    <2>7. \A f \in Events : f # e => copies'[f] = copies[f]
      BY <1>3, BrokerTyped DEF PublishOk, PublishFails
    <2>8. copies[e] <= faults
      BY <2>5 DEF CopiesPaid
    <2>9. CASE PublishOk(d, e) /\ S = {e}
      <3>1. copies'[e] = copies[e] + 1 /\ faults' = faults
        BY <2>9, BrokerTyped DEF PublishOk
      <3> SUFFICES ASSUME NEW f \in Events
                   PROVE  IF Taken(f)' THEN copies'[f] \in 1..(1 + faults')
                          ELSE copies'[f] <= faults'
        BY DEF CopiesPaid
      <3>2. IF Taken(f) THEN copies[f] \in 1..(1 + faults) ELSE copies[f] <= faults
        BY DEF CopiesPaid
      <3>3. CASE f = e
        BY <3>1, <3>3, <2>4, <2>6, <2>8, <2>9, <1>0
      <3>4. CASE f # e
        <4>1. Taken(f)' <=> Taken(f)
          BY <3>4, <2>4, <2>9
        <4> HIDE DEF Taken
        <4> QED
          BY <4>1, <3>1, <3>2, <3>4, <2>7
      <3> QED
        BY <3>3, <3>4
    <2>10. CASE PublishFails(d, e) /\ S = {}
      <3>1. faults' = faults + 1
        BY <2>10, FaultTyped DEF PublishFails
      <3>2. copies'[e] <= copies[e] + 1
        BY <2>10, <2>6, BrokerTyped DEF PublishFails
      <3> SUFFICES ASSUME NEW f \in Events
                   PROVE  IF Taken(f)' THEN copies'[f] \in 1..(1 + faults')
                          ELSE copies'[f] <= faults'
        BY DEF CopiesPaid
      <3>3. IF Taken(f) THEN copies[f] \in 1..(1 + faults) ELSE copies[f] <= faults
        BY DEF CopiesPaid
      <3>4. Taken(f)' <=> Taken(f)
        BY <2>4, <2>10
      <3>5. CASE f = e
        BY <3>1, <3>2, <3>4, <3>5, <2>5, <2>6, <2>8, <1>0
      <3>6. CASE f # e
        <4> HIDE DEF Taken
        <4> QED
          BY <3>1, <3>3, <3>4, <3>6, <2>6, <2>7, <1>0
      <3> QED
        BY <3>5, <3>6
    <2> QED
      BY <2>1, <2>9, <2>10
  <1>4. ASSUME NEW d \in Dispatchers, Commit(d) PROVE CopiesPaid'
    <2>1. run'[d].sent = {} /\ \A c \in Dispatchers : c # d => run'[c] = run[c]
      BY <1>4 DEF Commit, OutboxTypeOK, NoRun
    <2>2. copies' = copies /\ faults' = faults
      BY <1>4 DEF Commit
    <2>3. ASSUME NEW f \in Events PROVE Taken(f)' = Taken(f)
      <3>1. row'[f] = Noted(d, f)
        BY <1>4 DEF Commit
      <3>2. f \in run[d].failed => row[f].status # "SENT"
        BY DEF Locks, Locked
      <3>3. f \in run[d].failed => f \notin run[d].sent
        BY DEF Locks
      <3>4. row'[f].status = "SENT" <=> row[f].status = "SENT" \/ f \in run[d].sent
        BY <3>1, <3>2, <3>3, NotedTyped
      <3> QED
        BY <2>1, <3>4 DEF Taken
    <2> QED
      BY <1>0, <2>2, <2>3, QuietStep
  <1>5. ASSUME NEW d \in Dispatchers, RunFails(d) \/ Restart(d) PROVE CopiesPaid'
    <2>1. run' = [run EXCEPT ![d] = NoRun] /\ row' = row /\ copies' = copies /\ Fault
      BY <1>5 DEF RunFails, Restart
    <2>2. run'[d].sent = {} /\ \A c \in Dispatchers : c # d => run'[c] = run[c]
      BY <2>1 DEF OutboxTypeOK, NoRun
    <2>3. \A f \in Events : Taken(f)' => Taken(f)
      BY <2>1, <2>2 DEF Taken
    <2>4. faults' = faults + 1 /\ faults' \in Nat
      BY <1>0, <2>1, FaultTyped
    <2> QED
      BY <2>1, <2>3, <2>4, QuietStep
  <1>6. ASSUME DieUncommitted \/ \E e \in Events : DieUnacknowledged(e) PROVE CopiesPaid'
    <2>1. row' = row /\ run' = run /\ copies' = copies /\ Fault
      BY <1>6 DEF DieUncommitted, DieUnacknowledged
    <2>2. \A f \in Events : Taken(f)' => Taken(f)
      BY <2>1 DEF Taken
    <2>3. faults' = faults + 1 /\ faults' \in Nat
      BY <1>0, <2>1, FaultTyped
    <2> QED
      BY <2>1, <2>2, <2>3, QuietStep
  <1>7. CASE UNCHANGED <<row, run, copies, faults>>
    <2>1. \A f \in Events : Taken(f)' = Taken(f)
      BY <1>7 DEF Taken
    <2> QED
      BY <1>0, <1>7, <2>1, QuietStep
  <1>8. ASSUME NEW e \in Events, Handle(e) \/ Reject(e)
        PROVE  UNCHANGED <<row, run, copies, faults>>
    BY <1>8 DEF Handle, Reject
  <1> QED
    BY <1>1, <1>2, <1>3, <1>4, <1>5, <1>6, <1>7, <1>8
    DEF OutboxNext, DispatchNext, ConsumeNext, Bind, outboxVars

LEMMA LocksAndCopies == OutboxSpec => [](Locks /\ CopiesPaid)
  <1>1. OutboxInit => Locks /\ CopiesPaid
    <2> SUFFICES ASSUME OutboxInit PROVE Locks /\ CopiesPaid
      OBVIOUS
    <2>1. \A d \in Dispatchers : run[d] = NoRun
      BY DEF OutboxInit
    <2>2. Locks
      BY <2>1 DEF Locks, Locked, NoRun
    <2>3. \A e \in Events : ~Taken(e) /\ copies[e] = 0
      BY <2>1 DEF OutboxInit, Taken, NoRun
    <2>4. faults = 0
      BY DEF OutboxInit
    <2> QED
      BY <2>2, <2>3, <2>4 DEF CopiesPaid
  <1> QED
    BY <1>1, OutboxTyped, LocksHold, CopiesCounted, PTL DEF OutboxSpec

(***************************************************************************)
(* However many processes dispatch, an event reaches the broker at most    *)
(* once more than there were faults (the row locks of dispatch_pending).   *)
(***************************************************************************)
THEOREM DuplicatesBounded == OutboxSpec => []DuplicatesNeedFaults
  <1>1. OutboxTypeOK /\ CopiesPaid => DuplicatesNeedFaults
    <2> SUFFICES ASSUME OutboxTypeOK, CopiesPaid, NEW e \in Events
                 PROVE  copies[e] <= 1 + faults
      BY DEF DuplicatesNeedFaults
    <2>1. copies[e] \in Nat /\ faults \in Nat
      BY OutboxAssumption DEF OutboxTypeOK
    <2>2. copies[e] \in 1..(1 + faults) \/ copies[e] <= faults
      BY DEF CopiesPaid
    <2> QED
      BY <2>1, <2>2
  <1> QED
    BY <1>1, OutboxTyped, LocksAndCopies, PTL

(***************************************************************************)
(* A row is marked SENT only when the broker took its event.               *)
(***************************************************************************)
THEOREM SentPublished == OutboxSpec => []SentWasPublished
  <1>1. OutboxTypeOK /\ CopiesPaid => SentWasPublished
    <2> SUFFICES ASSUME OutboxTypeOK, CopiesPaid, NEW e \in Events, row[e].status = "SENT"
                 PROVE  copies[e] > 0
      BY DEF SentWasPublished
    <2>1. copies[e] \in 1..(1 + faults) /\ faults \in Nat
      BY OutboxAssumption DEF CopiesPaid, Taken, OutboxTypeOK
    <2> QED
      BY <2>1
  <1> QED
    BY <1>1, OutboxTyped, LocksAndCopies, PTL

-----------------------------------------------------------------------------
\* A handler holds an event of the outbox.
JobTyped == job \in [Workers -> Job \cup {NoJob}]

LEMMA JobKeepsType ==
  ASSUME JobTyped, [NotifNext]_notifVars
  PROVE  JobTyped'
  <1>0. NoJob \in Job \cup {NoJob}
    OBVIOUS
  <1>1. ASSUME NEW w \in Workers, NEW e \in Events, Take(w, e) PROVE JobTyped'
    <2>1. [event |-> e, found |-> records[e] > 0] \in Job
      BY DEF Job
    <2> QED
      BY <1>1, <2>1 DEF Take, JobTyped
  <1>2. ASSUME NEW w \in Workers, Put(w) PROVE JobTyped'
    BY <1>0, <1>2 DEF Put, JobTyped
  <1>3. CASE UNCHANGED job
    BY <1>3 DEF JobTyped
  <1>4. CASE Die
    BY <1>0, <1>4 DEF Die, JobTyped
  <1> QED
    BY <1>1, <1>2, <1>3, <1>4
    DEF NotifNext, notifVars, OutboxAlone, Start, Done, Insert, InsertRefused, InsertFails,
        ServiceDies

LEMMA JobEvent ==
  ASSUME JobTyped, NEW w \in Workers, job[w] # NoJob
  PROVE  job[w].event \in Events /\ job[w].found \in BOOLEAN
  BY DEF JobTyped, Job

(***************************************************************************)
(* Each step of the service is a step of Outbox or leaves it alone: the    *)
(* handler acknowledges, raises or dies.                                   *)
(***************************************************************************)
LEMMA StepRefines ==
  ASSUME JobTyped, [NotifNext]_notifVars
  PROVE  [OutboxNext]_outboxVars
  <1>1. CASE DispatchNext
    BY <1>1 DEF OutboxNext
  <1>2. ASSUME NEW w \in Workers, NEW e \in Events, Take(w, e)
        PROVE  UNCHANGED outboxVars
    BY <1>2 DEF Take
  <1>3. ASSUME NEW w \in Workers,
               Done(w) \/ Insert(w) \/ InsertRefused(w) \/ InsertFails(w)
        PROVE  ConsumeNext
    <2>1. job[w] # NoJob
      BY <1>3 DEF Done, Insert, InsertRefused, InsertFails, Inserts
    <2>2. PICK e \in Events : e = job[w].event
      BY <2>1, JobEvent
    <2>3. Handle(e) \/ Reject(e) \/ DieUnacknowledged(e)
      BY <1>3, <2>2 DEF Done, Insert, InsertRefused, InsertFails
    <2> QED
      BY <2>3 DEF ConsumeNext
  <1>4. CASE Start \/ ServiceDies
    BY <1>4 DEF Start, ServiceDies, OutboxNext, ConsumeNext
  <1>5. CASE UNCHANGED notifVars
    BY <1>5 DEF notifVars, outboxVars
  <1> QED
    BY <1>1, <1>2, <1>3, <1>4, <1>5 DEF NotifNext, OutboxNext

LEMMA JobsTyped == NotifSpec => []JobTyped
  <1>1. NotifInit => JobTyped
    BY DEF NotifInit, JobTyped
  <1>2. JobTyped /\ [NotifNext]_notifVars => JobTyped'
    BY JobKeepsType
  <1> QED
    BY <1>1, <1>2, PTL DEF NotifSpec

(***************************************************************************)
(* The service implements the consumer of Outbox, so what is proved of the *)
(* outbox and its queue holds of it too.                                   *)
(***************************************************************************)
THEOREM ServiceRefines == NotifSpec => DeliversAsOutbox
  <1>1. NotifInit => OutboxInit
    BY DEF NotifInit
  <1>2. JobTyped /\ [NotifNext]_notifVars => [OutboxNext]_outboxVars
    BY StepRefines
  <1> QED
    BY <1>1, <1>2, JobsTyped, PTL DEF NotifSpec, DeliversAsOutbox, OutboxSpec

-----------------------------------------------------------------------------
(***************************************************************************)
(* Records belong to events with a recipient, a handler that found one saw *)
(* a committed row, and what was handled is recorded.                      *)
(***************************************************************************)
NotifInv ==
  /\ NotifTypeOK
  /\ \A e \in Events : records[e] > 0 => e \in Addressed
  /\ \A w \in Workers : job[w] # NoJob /\ job[w].found => records[job[w].event] > 0
  /\ HandledIsRecorded

\* A step after which no record is gone and the new events among the handled
\* are recorded if they have a recipient.
LEMMA KeepsInv ==
  ASSUME NotifInv, JobTyped', life' \in {"down", "on", "deaf"}, records' \in [Events -> 0..1],
         \A e \in Events : records'[e] # records[e] => records'[e] = 1 /\ e \in Addressed,
         \A w \in Workers : job'[w] # NoJob /\ job'[w].found => records'[job'[w].event] > 0,
         \A e \in handled' \ handled : e \in Events /\ (e \in Addressed => records'[e] > 0),
         handled \subseteq Events
  PROVE  NotifInv'
  <1>1. NotifTypeOK'
    BY DEF NotifTypeOK, JobTyped
  <1>2. \A e \in Events : records[e] \in 0..1 /\ records'[e] \in 0..1
    BY DEF NotifInv, NotifTypeOK
  <1>3. \A e \in Events : records[e] > 0 => records'[e] > 0
    BY <1>2
  <1>4. \A e \in Events : records'[e] > 0 => e \in Addressed
    BY <1>2 DEF NotifInv
  <1>5. HandledIsRecorded'
    <2> SUFFICES ASSUME NEW e \in handled' PROVE records'[e] > 0 <=> e \in Addressed
      BY DEF HandledIsRecorded
    <2>1. CASE e \in handled
      BY <1>3, <1>4, <2>1 DEF NotifInv, HandledIsRecorded
    <2>2. CASE e \notin handled
      BY <1>4, <2>2
    <2> QED
      BY <2>1, <2>2
  <1> QED
    BY <1>1, <1>4, <1>5 DEF NotifInv

LEMMA InvHolds ==
  ASSUME NotifInv, OutboxTypeOK, [NotifNext]_notifVars
  PROVE  NotifInv'
  <1>0. /\ handled \subseteq Events
        /\ JobTyped /\ JobTyped'
        /\ \A e \in Events : records[e] \in 0..1
        /\ records \in [Events -> 0..1]
        /\ life' \in {"down", "on", "deaf"}
        /\ \A w \in Workers : job[w] # NoJob => job[w].event \in Events
    <2>1. JobTyped
      BY DEF NotifInv, NotifTypeOK, JobTyped
    <2>2. life' \in {"down", "on", "deaf"}
      BY DEF NotifInv, NotifTypeOK, NotifNext, notifVars, OutboxAlone, Start, Take, Done, Insert,
             InsertRefused, InsertFails, ServiceDies, Put, Die
    <2> QED
      BY <2>1, <2>2, JobKeepsType, JobEvent DEF OutboxTypeOK, NotifInv, NotifTypeOK
  <1>1. CASE DispatchNext /\ OutboxAlone
    <2>1. handled' = handled
      BY <1>1 DEF DispatchNext, Write, BecomeDue, Select, PublishOk, PublishFails,
                  Commit, RunFails, Restart
    <2> QED
      BY <1>0, <1>1, <2>1, KeepsInv DEF NotifInv, OutboxAlone
  <1>2. ASSUME NEW w \in Workers, NEW e \in Events, Take(w, e) PROVE NotifInv'
    <2>1. records' = records /\ handled' = handled
      BY <1>2 DEF Take, outboxVars
    <2>2. ASSUME NEW v \in Workers, job'[v] # NoJob, job'[v].found
          PROVE  records'[job'[v].event] > 0
      <3>1. CASE v = w
        BY <1>0, <1>2, <2>1, <2>2, <3>1 DEF Take, JobTyped
      <3>2. CASE v # w
        BY <1>0, <1>2, <2>1, <2>2, <3>2 DEF Take, JobTyped, NotifInv
      <3> QED
        BY <3>1, <3>2
    <2> QED
      BY <1>0, <2>1, <2>2, KeepsInv
  <1>3. ASSUME NEW w \in Workers, Put(w) \/ Die, records' \in [Events -> 0..1],
               \A e \in Events : records'[e] # records[e] => records'[e] = 1
        PROVE  \A v \in Workers : job'[v] # NoJob /\ job'[v].found => records'[job'[v].event] > 0
    <2> SUFFICES ASSUME NEW v \in Workers, job'[v] # NoJob, job'[v].found
                 PROVE  records'[job'[v].event] > 0
      OBVIOUS
    <2>1. v # w /\ job'[v] = job[v]
      BY <1>0, <1>3 DEF Put, Die, JobTyped
    <2>2. job[v].event \in Events /\ records[job[v].event] > 0
      BY <1>0, <2>1 DEF NotifInv
    <2> QED
      BY <1>3, <2>1, <2>2
  <1>4. ASSUME NEW w \in Workers, Done(w) PROVE NotifInv'
    <2>1. Put(w) /\ records' = records
      BY <1>4 DEF Done
    <2>2. PICK e \in Events : e = job[w].event /\ handled' = handled \cup {e}
                              /\ (e \in Addressed => records[e] > 0)
      BY <1>0, <1>4 DEF Done, Handle, NotifInv
    <2> QED
      BY <1>0, <1>3, <2>1, <2>2, KeepsInv
  <1>5. ASSUME NEW w \in Workers, Insert(w) PROVE NotifInv'
    <2>1. (Put(w) \/ Die) /\ job[w].event \in Events
      BY <1>0, <1>5 DEF Insert, Inserts
    <2>2. PICK e \in Events : e = job[w].event
      BY <2>1
    <2>3. /\ e \in Addressed
          /\ records' = [records EXCEPT ![e] = 1]
          /\ handled' = handled \cup {e}
      BY <1>5, <2>2 DEF Insert, Inserts, Handle, DieUnacknowledged
    <2>4. /\ records' \in [Events -> 0..1] /\ records'[e] = 1
          /\ \A f \in Events : f # e => records'[f] = records[f]
      BY <1>0, <2>3
    <2> QED
      BY <1>0, <1>3, <2>1, <2>3, <2>4, KeepsInv
  <1>6. ASSUME NEW w \in Workers, InsertRefused(w) \/ InsertFails(w)
        PROVE  NotifInv'
    <2>1. Put(w) /\ records' = records /\ handled' = handled
      BY <1>6 DEF InsertRefused, InsertFails, Reject
    <2> QED
      BY <1>0, <1>3, <2>1, KeepsInv
  <1>8. CASE Start \/ ServiceDies
    <2>1. records' = records /\ handled' = handled /\ (job' = job \/ Die)
      BY <1>8 DEF Start, ServiceDies, Bind, DieUncommitted, outboxVars
    <2>2. \A v \in Workers : job'[v] # NoJob /\ job'[v].found => records'[job'[v].event] > 0
      BY <2>1 DEF Die, NotifInv
    <2> QED
      BY <1>0, <2>1, <2>2, KeepsInv
  <1>7. CASE UNCHANGED notifVars
    <2>1. records' = records /\ job' = job /\ handled' = handled
      BY <1>7 DEF notifVars, outboxVars
    <2> QED
      BY <1>0, <2>1, KeepsInv DEF NotifInv
  <1> QED
    BY <1>1, <1>2, <1>4, <1>5, <1>6, <1>7, <1>8 DEF NotifNext

LEMMA NotifInvHolds == NotifSpec => []NotifInv
  <1>1. NotifInit => NotifInv
    BY DEF NotifInit, OutboxInit, NotifInv, NotifTypeOK, HandledIsRecorded
  <1>2. NotifInv /\ OutboxTypeOK /\ [NotifNext]_notifVars => NotifInv'
    BY InvHolds
  <1> QED
    BY <1>1, <1>2, ServiceRefines, OutboxTyped, PTL DEF NotifSpec, DeliversAsOutbox

(***************************************************************************)
(* An event has at most one record, however often it is delivered.         *)
(***************************************************************************)
THEOREM NotificationTyped == NotifSpec => []NotifTypeOK
  <1>1. NotifInv => NotifTypeOK
    BY DEF NotifInv
  <1> QED
    BY <1>1, NotifInvHolds, PTL

(***************************************************************************)
(* What a handler has succeeded with is recorded once if it has a          *)
(* recipient.                                                              *)
(***************************************************************************)
THEOREM HandledRecorded == NotifSpec => []HandledIsRecorded
  <1>1. NotifInv => HandledIsRecorded
    BY DEF NotifInv
  <1> QED
    BY <1>1, NotifInvHolds, PTL
=============================================================================
