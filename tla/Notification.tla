---------------------------- MODULE Notification ----------------------------
(***************************************************************************)
(* notification-service, the consumer of the events that Outbox delivers:  *)
(* several messages are handled at the same time, each in a transaction    *)
(* that looks for the event's record and inserts it if there is none.      *)
(***************************************************************************)
EXTENDS Outbox

CONSTANTS
  Addressed,  \* events with a template and a recipient in their payload
  Workers     \* messages handled at the same time

ASSUME NotificationAssumption == Addressed \subseteq Events

VARIABLES
  records,  \* records[e]: notification_records rows of event e
  job,      \* job[w]: the message in hand, and whether its record was found
  life      \* the process: "down", "on" with its consumer, or "deaf" without one

notifVars == <<outboxVars, records, job, life>>

Job == [event : Events, found : BOOLEAN]
NoJob == [event |-> 0]

NotifInit ==
  /\ OutboxInit
  /\ records = [e \in Events |-> 0]
  /\ job = [w \in Workers |-> NoJob]
  /\ life = "down"

(***************************************************************************)
(* The lifespan of the process: a consumer that cannot be started, before  *)
(* or after its queue was bound, is given up until the next start.         *)
(***************************************************************************)
Start ==
  /\ life = "down"
  /\ Bind \/ UNCHANGED outboxVars
  /\ \E ok \in StartOutcomes :
       /\ ok => bound'
       /\ life' = IF ok THEN "on" ELSE "deaf"
  /\ UNCHANGED <<records, job>>

\* The process ends; what its handlers have in hand goes back to the queue.
Die ==
  /\ job' = [w \in Workers |-> NoJob]
  /\ life' = "down"

InHand(e) == {w \in Workers : job[w] # NoJob /\ job[w].event = e}

\* dispatch_event up to the SELECT of the record.
Take(w, e) ==
  /\ life = "on"
  /\ job[w] = NoJob
  /\ Cardinality(InHand(e)) < queued[e]
  /\ job' = [job EXCEPT ![w] = [event |-> e, found |-> records[e] > 0]]
  /\ UNCHANGED <<outboxVars, records, life>>

Put(w) == job' = [job EXCEPT ![w] = NoJob] /\ UNCHANGED life

\* Variant: a message that another handler has in hand counts as a duplicate.
DoneIfClaimed(w) ==
  /\ job[w] # NoJob
  /\ job[w].found \/ job[w].event \notin Addressed \/ InHand(job[w].event) # {w}
  /\ Handle(job[w].event)
  /\ Put(w)
  /\ UNCHANGED records

\* Ignored, skipped for want of a recipient, or a duplicate.
Done(w) ==
  /\ job[w] # NoJob
  /\ job[w].found \/ job[w].event \notin Addressed
  /\ Handle(job[w].event)
  /\ Put(w)
  /\ UNCHANGED records

Inserts(w) == job[w] # NoJob /\ ~job[w].found /\ job[w].event \in Addressed

\* Variant: there is no unique index on the event and its template.
InsertAnyway(w) ==
  /\ Inserts(w)
  /\ LET e == job[w].event IN
     /\ records' = [records EXCEPT ![e] = @ + 1]
     /\ \/ Handle(e) /\ Put(w)
        \/ DieUnacknowledged(e) /\ Die

\* The row is committed and the message acknowledged, or the process dies
\* before the acknowledgement.
Insert(w) ==
  /\ Inserts(w)
  /\ LET e == job[w].event IN
     /\ records[e] = 0
     /\ records' = [records EXCEPT ![e] = 1]
     /\ \/ Handle(e) /\ Put(w)
        \/ DieUnacknowledged(e) /\ Die

\* The unique index refuses the second of two inserts: the handler raises.
InsertRefused(w) ==
  /\ Inserts(w) /\ records[job[w].event] > 0
  /\ Reject(job[w].event)
  /\ Put(w)
  /\ UNCHANGED records

\* The insert or its commit fails otherwise, as when the record number, eight
\* digits of an id, is taken.
InsertFails(w) ==
  /\ Inserts(w)
  /\ Reject(job[w].event)
  /\ Put(w)
  /\ UNCHANGED records

\* Variant: the messages were acknowledged when they were taken.
ServiceDiesAcked ==
  /\ life # "down"
  /\ queued' = [e \in Events |-> queued[e] - Cardinality(InHand(e))]
  /\ Die
  /\ Fault
  /\ UNCHANGED <<row, run, up, bound, copies, handled, rejected, records>>

ServiceDies ==
  /\ life # "down"
  /\ DieUncommitted
  /\ Die
  /\ UNCHANGED records

-----------------------------------------------------------------------------
OutboxAlone == UNCHANGED <<records, job, life>>

NotifNext ==
  \/ DispatchNext /\ OutboxAlone
  \/ Start
  \/ \E w \in Workers, e \in Events : Take(w, e)
  \/ \E w \in Workers : Done(w) \/ Insert(w) \/ InsertRefused(w) \/ InsertFails(w)
  \/ ServiceDies

NotifSpec == NotifInit /\ [][NotifNext]_notifVars

(***************************************************************************)
(* The fairness of Outbox for the processes that dispatch; a process that  *)
(* is down is started again, a message in the queue is handed to a handler *)
(* that is free, and a handler comes to an end.                            *)
(***************************************************************************)
NotifFairSpec ==
  /\ NotifSpec
  /\ \A e \in Events : WF_notifVars(BecomeDue(e) /\ OutboxAlone)
  /\ \A d \in Dispatchers :
       /\ WF_notifVars(Select(d) /\ OutboxAlone)
       /\ WF_notifVars((\E e \in Events : PublishOk(d, e) \/ PublishFails(d, e)) /\ OutboxAlone)
       /\ WF_notifVars(Commit(d) /\ OutboxAlone)
  /\ WF_notifVars(Start)
  /\ \A e \in Events : WF_notifVars(\E w \in Workers : Take(w, e))
  /\ \A w \in Workers : WF_notifVars(Done(w) \/ Insert(w) \/ InsertRefused(w) \/ InsertFails(w))
-----------------------------------------------------------------------------
\* The rows and handlers have their types; an event has at most one record.
NotifTypeOK ==
  /\ records \in [Events -> 0..1]
  /\ job \in [Workers -> Job \cup {NoJob}]
  /\ life \in {"down", "on", "deaf"}

(***************************************************************************)
(* However often an event is delivered, to however many handlers, and      *)
(* wherever one of them dies: once a handler has succeeded with it, it has *)
(* its one record if it has a recipient, and none otherwise.               *)
(***************************************************************************)
HandledIsRecorded == \A e \in handled : records[e] > 0 <=> e \in Addressed

(***************************************************************************)
(* No row is forgotten and no message either: an event that is written     *)
(* once the queue is bound is recorded or skipped, or refused by a handler *)
(* that raised, in the end, however often publishing failed before (FAILED *)
(* rows are selected again) -- unless no process was left with a           *)
(* connection to the broker, or the consumer was given up at a start.      *)
(***************************************************************************)
WrittenArrives ==
  \A e \in Events :
    row[e].status # "NONE" /\ copies[e] = 0 /\ bound
    ~> \/ e \in rejected \/ e \in handled
       \/ \A d \in Dispatchers : ~up[d]
       \/ life = "deaf"

(***************************************************************************)
(* The service implements the consumer that Outbox promises its events to: *)
(* a message leaves the queue only when a handler has succeeded with it or *)
(* has refused it, and nothing else of the outbox is touched.              *)
(***************************************************************************)
DeliversAsOutbox == OutboxSpec
=============================================================================
