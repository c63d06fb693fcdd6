---------------------------- MODULE RetryScheduler ----------------------------
(***************************************************************************)
(* SchedulerService (internal/service/scheduler.go).  Every tick, each     *)
(* replica selects the retries that are due and, for one after the other,  *)
(* publishes the event and marks it queued.  Nothing keeps two replicas    *)
(* from selecting the same rows.                                           *)
(***************************************************************************)
EXTENDS EventTopic

CONSTANTS
    Schedulers,   \* the replicas
    BatchSize     \* LIMIT of FindRetryable, 100 in the code

ASSUME SchedulerAssumption ==
    /\ IsFiniteSet(Schedulers)
    /\ BatchSize \in Nat \ {0}

VARIABLES
    batch,        \* the selected events each replica has not got to yet
    marking       \* the event each replica has published and not marked yet

schedulerVars == <<batch, marking>>

SchedulerTypeOK ==
    /\ batch \in [Schedulers -> SUBSET Events]
    /\ marking \in [Schedulers -> Events \cup {NoEvent}]

SchedulerInit ==
    /\ batch = [s \in Schedulers |-> {}]
    /\ marking = [s \in Schedulers |-> NoEvent]

Idle(s) == batch[s] = {} /\ marking[s] = NoEvent

\* The due retries; none are seen once the bound on the log is reached.
Selectable == IF LogHasRoom THEN Retryable ELSE {}

\* FindRetryable: all due retries, or BatchSize of them.  With nothing due (and when
\* the query fails) the tick does nothing.
FindRetryable(s) ==
    /\ Idle(s)
    /\ \E found \in SUBSET Selectable :
          /\ found = Selectable \/ Cardinality(found) = BatchSize
          /\ Cardinality(found) <= BatchSize
          /\ batch' = [batch EXCEPT ![s] = found]
    /\ UNCHANGED <<marking, storeVars, topicVars>>

\* publisher.PublishEvent for one of the batch; on an error, on to the next.
Republish(s) ==
    /\ marking[s] = NoEvent
    /\ \E e \in batch[s] :
          /\ \/ Publish(e) /\ marking' = [marking EXCEPT ![s] = e]
             \/ PublishFails(e) /\ UNCHANGED marking
          /\ batch' = [batch EXCEPT ![s] = @ \ {e}]
    /\ UNCHANGED storeVars

\* eventRepo.UpdateStatus(queued), whatever has become of the event since.
MarkRetryQueued(s) ==
    /\ marking[s] # NoEvent
    /\ UpdateStatus(marking[s], "queued")
    /\ marking' = [marking EXCEPT ![s] = NoEvent]
    /\ UNCHANGED <<batch, topicVars>>

\* The replica dies, or is told to stop, and another takes its place.
RestartScheduler(s) ==
    /\ ~Idle(s)
    /\ batch' = [batch EXCEPT ![s] = {}]
    /\ marking' = [marking EXCEPT ![s] = NoEvent]
    /\ UNCHANGED <<storeVars, topicVars>>
==============================================================================
