-------------------------------- MODULE Outbox --------------------------------
(***************************************************************************)
(* The transactional outbox of libs/common: the outbox_events rows of one  *)
(* service, the dispatch job of its processes, and one queue bound to the  *)
(* exchange with the consumer behind it.                                   *)
(*                                                                         *)
(* One run of dispatch_pending is one database transaction that locks a    *)
(* batch, publishes its rows one by one and commits what it noted at the   *)
(* end; other processes, the broker and a crash come in between.           *)
(***************************************************************************)
EXTENDS Integers, FiniteSets

CONSTANTS
  Events,         \* ids of the rows; snowflake ids grow with time
  Aggregate,      \* the order or payment each event is about
  Dispatchers,    \* processes of the service that run the job
  BatchSize,      \* rows one run locks
  MaxRetry,       \* failures after which a row is FAILED
  MaxFaults,      \* bound: failed calls, lost answers and crashes
  StartOutcomes,  \* whether connecting to the broker at startup may succeed
  QueueAtStart    \* whether the consumer's queue may be bound at the start

ASSUME OutboxAssumption ==
  /\ Events \subseteq Nat
  /\ IsFiniteSet(Events)
  /\ BatchSize \in Nat \ {0}
  /\ MaxRetry \in Nat
  /\ MaxFaults \in Nat
  /\ StartOutcomes \subseteq BOOLEAN
  /\ QueueAtStart \subseteq BOOLEAN

VARIABLES
  row,       \* the outbox_events rows
  run,       \* run[d]: rows the job of d has locked, by what became of them
  up,        \* up[d]: d has a publisher; FALSE when RabbitMQ was not there at startup
  bound,     \* the queue exists and is bound to the exchange
  copies,    \* copies[e]: times the broker took e
  queued,    \* queued[e]: copies of e in the queue
  handled,   \* events a handler has committed
  rejected,  \* events a handler has raised on: dropped, nothing is bound to the DLX
  faults     \* faults so far

outboxVars == <<row, run, up, bound, copies, queued, handled, rejected, faults>>

RowStatus == {"NONE", "PENDING", "SENT", "FAILED"}
\* due stands for next_retry_at <= now.
OutboxRow == [status : RowStatus, retry : Nat, due : BOOLEAN]
Run == [todo : SUBSET Events, sent : SUBSET Events, failed : SUBSET Events]
NoRun == [todo |-> {}, sent |-> {}, failed |-> {}]

Locked(d) == run[d].todo \cup run[d].sent \cup run[d].failed

OutboxInit ==
  /\ row = [e \in Events |-> [status |-> "NONE", retry |-> 0, due |-> FALSE]]
  /\ run = [d \in Dispatchers |-> NoRun]
  /\ up \in [Dispatchers -> StartOutcomes]
  /\ bound \in QueueAtStart
  /\ copies = [e \in Events |-> 0]
  /\ queued = [e \in Events |-> 0]
  /\ handled = {}
  /\ rejected = {}
  /\ faults = 0

Fault == faults < MaxFaults /\ faults' = faults + 1

-----------------------------------------------------------------------------
(***************************************************************************)
(* make_outbox_event, added to a business transaction that now commits.    *)
(* Transactions about one aggregate follow each other; others commit in    *)
(* any order.                                                              *)
(***************************************************************************)
Write(e) ==
  /\ row[e].status = "NONE"
  /\ \A f \in Events : f < e /\ Aggregate[f] = Aggregate[e] => row[f].status # "NONE"
  /\ row' = [row EXCEPT ![e] = [status |-> "PENDING", retry |-> 0, due |-> TRUE]]
  /\ UNCHANGED <<run, up, bound, copies, queued, handled, rejected, faults>>

\* Time passes next_retry_at.
BecomeDue(e) ==
  /\ row[e].status # "NONE" /\ ~row[e].due
  /\ row' = [row EXCEPT ![e].due = TRUE]
  /\ UNCHANGED <<run, up, bound, copies, queued, handled, rejected, faults>>

(***************************************************************************)
(* The SELECT ... FOR UPDATE SKIP LOCKED of a run, in the order of id.  A  *)
(* row that was given up (FAILED) is selected too, and stays due.          *)
(***************************************************************************)
Free(e) == \A d \in Dispatchers : e \notin Locked(d)

\* Variant: the SELECT takes no row locks.
SelectableUnlocked == {e \in Events : row[e].status \in {"PENDING", "FAILED"} /\ row[e].due}

\* Variant: a FAILED row is not retried any more.
SelectableNotFailed == {e \in Events : row[e].status = "PENDING" /\ row[e].due /\ Free(e)}

Selectable ==
  {e \in Events : row[e].status \in {"PENDING", "FAILED"} /\ row[e].due /\ Free(e)}

FirstOf(B, S) ==
  /\ B \subseteq S
  /\ \A e \in B, f \in S \ B : e < f
  /\ Cardinality(B) <= BatchSize
  /\ B # S => Cardinality(B) = BatchSize

Select(d) ==
  /\ up[d] /\ run[d] = NoRun /\ Selectable # {}
  /\ \E B \in SUBSET Selectable :
       FirstOf(B, Selectable) /\ run' = [run EXCEPT ![d] = [todo |-> B, sent |-> {}, failed |-> {}]]
  /\ UNCHANGED <<row, up, bound, copies, queued, handled, rejected, faults>>

(***************************************************************************)
(* EventPublisher.publish of the batch's next row.  An event the exchange  *)
(* cannot route counts as published.  The call may fail before or after    *)
(* the broker took the event.                                              *)
(***************************************************************************)
NextOf(d, e) == e \in run[d].todo /\ \A f \in run[d].todo : e <= f

Broker(e) ==
  /\ copies' = [copies EXCEPT ![e] = @ + 1]
  /\ queued' = [queued EXCEPT ![e] = IF bound THEN @ + 1 ELSE @]

\* The run notes e among the rows it has sent (S) and those that failed (F).
Note(d, e, S, F) ==
  run' = [run EXCEPT ![d] = [todo   |-> run[d].todo \ {e},
                             sent   |-> run[d].sent \cup S,
                             failed |-> run[d].failed \cup F]]

PublishOk(d, e) ==
  /\ NextOf(d, e)
  /\ Broker(e)
  /\ Note(d, e, {e}, {})
  /\ UNCHANGED <<row, up, bound, handled, rejected, faults>>

PublishFails(d, e) ==
  /\ NextOf(d, e)
  /\ Broker(e) \/ UNCHANGED <<copies, queued>>
  /\ Note(d, e, {}, {e})
  /\ Fault
  /\ UNCHANGED <<row, up, bound, handled, rejected>>

\* A row that failed too often keeps its next_retry_at, any other waits for
\* its backoff.
Retried(r) ==
  IF r.retry + 1 > MaxRetry
  THEN [status |-> "FAILED", retry |-> r.retry + 1, due |-> r.due]
  ELSE [status |-> "PENDING", retry |-> r.retry + 1, due |-> FALSE]

\* What the run has made of row e.
Noted(d, e) ==
  IF e \in run[d].sent THEN [row[e] EXCEPT !.status = "SENT"]
  ELSE IF e \in run[d].failed THEN Retried(row[e])
  ELSE row[e]

Commit(d) ==
  /\ run[d] # NoRun /\ run[d].todo = {}
  /\ row' = [e \in Events |-> Noted(d, e)]
  /\ run' = [run EXCEPT ![d] = NoRun]
  /\ UNCHANGED <<up, bound, copies, queued, handled, rejected, faults>>

\* The commit fails, or the connection does: the job logs it and runs again.
RunFails(d) ==
  /\ run[d] # NoRun
  /\ run' = [run EXCEPT ![d] = NoRun]
  /\ Fault
  /\ UNCHANGED <<row, up, bound, copies, queued, handled, rejected>>

\* The process is restarted, and connects to the broker once, at startup.
Restart(d) ==
  /\ run' = [run EXCEPT ![d] = NoRun]
  /\ \E ok \in StartOutcomes : up' = [up EXCEPT ![d] = ok]
  /\ Fault
  /\ UNCHANGED <<row, bound, copies, queued, handled, rejected>>

-----------------------------------------------------------------------------
(***************************************************************************)
(* EventConsumer: start declares the queue and binds it; on_message runs   *)
(* the handler and acknowledges, or rejects without requeueing.            *)
(***************************************************************************)
Bind ==
  /\ ~bound
  /\ bound' = TRUE
  /\ UNCHANGED <<row, run, up, copies, queued, handled, rejected, faults>>

Handle(e) ==
  /\ queued[e] > 0
  /\ queued' = [queued EXCEPT ![e] = @ - 1]
  /\ handled' = handled \cup {e}
  /\ UNCHANGED <<row, run, up, bound, copies, rejected, faults>>

Reject(e) ==
  /\ queued[e] > 0
  /\ queued' = [queued EXCEPT ![e] = @ - 1]
  /\ rejected' = rejected \cup {e}
  /\ UNCHANGED <<row, run, up, bound, copies, handled, faults>>

\* The consumer dies before its handler's commit, and nothing has happened.
DieUncommitted ==
  /\ Fault
  /\ UNCHANGED <<row, run, up, bound, copies, queued, handled, rejected>>

\* The consumer dies after its handler's commit: the copy is redelivered.
DieUnacknowledged(e) ==
  /\ queued[e] > 0
  /\ handled' = handled \cup {e}
  /\ Fault
  /\ UNCHANGED <<row, run, up, bound, copies, queued, rejected>>

-----------------------------------------------------------------------------
DispatchNext ==
  \/ \E e \in Events : Write(e)
  \/ \E e \in Events : BecomeDue(e)
  \/ \E d \in Dispatchers : Select(d)
  \/ \E d \in Dispatchers, e \in Events : PublishOk(d, e)
  \/ \E d \in Dispatchers, e \in Events : PublishFails(d, e)
  \/ \E d \in Dispatchers : Commit(d)
  \/ \E d \in Dispatchers : RunFails(d)
  \/ \E d \in Dispatchers : Restart(d)

ConsumeNext ==
  \/ Bind
  \/ \E e \in Events : Handle(e)
  \/ \E e \in Events : Reject(e)
  \/ DieUncommitted
  \/ \E e \in Events : DieUnacknowledged(e)

OutboxNext == DispatchNext \/ ConsumeNext

OutboxSpec == OutboxInit /\ [][OutboxNext]_outboxVars

-----------------------------------------------------------------------------
OutboxTypeOK ==
  /\ row \in [Events -> OutboxRow]
  /\ run \in [Dispatchers -> Run]
  /\ up \in [Dispatchers -> BOOLEAN]
  /\ bound \in BOOLEAN
  /\ copies \in [Events -> Nat]
  /\ queued \in [Events -> Nat]
  /\ handled \in SUBSET Events
  /\ rejected \in SUBSET Events
  /\ faults \in 0..MaxFaults

(***************************************************************************)
(* Duplicates are paid for: however many processes dispatch at the same    *)
(* time, an event reaches the broker once, plus at most once for every     *)
(* failed publish, failed commit and crash (SKIP LOCKED, and the locks     *)
(* that are held until the commit).                                        *)
(***************************************************************************)
DuplicatesNeedFaults == \A e \in Events : copies[e] <= 1 + faults

(***************************************************************************)
(* A row is SENT only when the broker took the event, whatever failed in   *)
(* the same batch.                                                         *)
(***************************************************************************)
SentWasPublished == \A e \in Events : row[e].status = "SENT" => copies[e] > 0
=============================================================================
