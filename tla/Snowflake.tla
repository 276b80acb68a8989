------------------------------ MODULE Snowflake ------------------------------
(***************************************************************************)
(* next_id of libs/common in one process: the wall clock in milliseconds   *)
(* and a sequence number within one of them.  An id is the pair of the     *)
(* two; the integer the code packs them into (with worker 0, the only one  *)
(* configured) orders ids as Before does.                                  *)
(***************************************************************************)
EXTENDS Integers

CONSTANTS
  MaxSequence,  \* _MAX_SEQUENCE
  MaxClock      \* bound: milliseconds the clock counts

ASSUME SnowflakeAssumption == MaxSequence \in Nat /\ MaxClock \in Nat \ {0}

VARIABLES
  clock,     \* what _now_ms returns
  last,      \* _last_timestamp
  sequence,  \* _sequence
  spinning,  \* a call holds the lock and waits for the next millisecond
  issued,    \* history: ids returned so far
  repeated,  \* history: an id was returned again, or after a greater one
  stepped    \* history: the clock stepped back

idVars == <<clock, last, sequence, spinning, issued, repeated, stepped>>

Times == 0..MaxClock
Ids == Times \X (0..MaxSequence)
Before(i, j) == i[1] < j[1] \/ (i[1] = j[1] /\ i[2] < j[2])

IdInit ==
  /\ clock \in Times \ {0}
  /\ last = 0 /\ sequence = 0
  /\ spinning = FALSE
  /\ issued = {} /\ repeated = FALSE
  /\ stepped = FALSE

Return(id) ==
  /\ last' = id[1] /\ sequence' = id[2]
  /\ issued' = issued \cup {id}
  /\ repeated' = (repeated \/ \E i \in issued : ~Before(i, id))

\* A call that returns at once: the next number of the millisecond, or the
\* first one of another millisecond.
NextId(id) ==
  /\ ~spinning
  /\ \/ clock = last /\ sequence < MaxSequence /\ id = <<clock, sequence + 1>>
     \/ clock # last /\ id = <<clock, 0>>
  /\ Return(id)
  /\ UNCHANGED <<clock, spinning, stepped>>

\* A call that finds the numbers of the millisecond used up.
Exhaust ==
  /\ ~spinning /\ clock = last /\ sequence = MaxSequence
  /\ spinning' = TRUE /\ sequence' = 0
  /\ UNCHANGED <<clock, last, issued, repeated, stepped>>

\* Variant: the call does not wait.
SpinEndsAtOnce(id) ==
  /\ spinning
  /\ id = <<clock, 0>>
  /\ spinning' = FALSE
  /\ Return(id)
  /\ UNCHANGED <<clock, stepped>>

SpinEnds(id) ==
  /\ spinning /\ clock > last
  /\ id = <<clock, 0>>
  /\ spinning' = FALSE
  /\ Return(id)
  /\ UNCHANGED <<clock, stepped>>

Tick ==
  /\ clock < MaxClock
  /\ clock' = clock + 1
  /\ UNCHANGED <<last, sequence, spinning, issued, repeated, stepped>>

\* The clock is set back.
StepBack ==
  /\ clock > 1
  /\ clock' \in 1..(clock - 1)
  /\ stepped' = TRUE
  /\ UNCHANGED <<last, sequence, spinning, issued, repeated>>

ClockStep == Tick \/ StepBack

IdNext == Exhaust \/ ClockStep \/ \E id \in Ids : NextId(id) \/ SpinEnds(id)

IdSpec == IdInit /\ [][IdNext]_idVars
-----------------------------------------------------------------------------
\* The clock and the generator have their types.
IdTypeOK ==
  /\ clock \in Times \ {0}
  /\ last \in Times
  /\ sequence \in 0..MaxSequence
  /\ spinning \in BOOLEAN /\ repeated \in BOOLEAN /\ stepped \in BOOLEAN
  /\ issued \in SUBSET Ids

(***************************************************************************)
(* Every id next_id returns is greater than all ids before it, however     *)
(* many calls fall into one millisecond, unless the clock stepped back.    *)
(***************************************************************************)
IdsGrow == repeated => stepped
=============================================================================
