-------------------------------- MODULE Store --------------------------------
(***************************************************************************)
(* The PostgreSQL tables the event pipeline works on and the repository    *)
(* statements that change them (internal/repository/postgres, migrations). *)
(* Each operator below is ONE SQL statement, which PostgreSQL runs         *)
(* atomically; the services never open a transaction around two of them.   *)
(*                                                                         *)
(* Data is kept to what the services branch on: an endpoint row is its     *)
(* "active" flag, an event row its status, its attempt_count and whether   *)
(* next_retry_at has passed; delivery_attempts is a count of rows per      *)
(* event and dead_letter_events a count per event and reason.              *)
(***************************************************************************)
EXTENDS Naturals, FiniteSets

CONSTANTS
    Events,        \* ids of the events clients may create, all of one tenant
    Endpoints,     \* ids of that tenant's endpoints
    EndpointOf,    \* events.endpoint_id
    MaxAttempts,   \* events.max_attempts, the literal 5 in EventService.Create
    Faults,        \* the services whose calls may fail in this instance, and "bodies":
                   \* endpoints may answer with text that PostgreSQL does not store
    NoEvent        \* "no event", for the local variables that hold one

ASSUME StoreAssumption ==
    /\ EndpointOf \in [Events -> Endpoints]
    /\ MaxAttempts \in Nat \ {0}
    /\ Faults \subseteq {"postgres", "redis", "kafka", "bodies"}
    /\ NoEvent \notin Events

VARIABLES
    endpoint,      \* endpoints: "active", "inactive", or "deleted" (no row)
    status,        \* events.status, or "absent" (no row)
    attemptCount,  \* events.attempt_count
    due,           \* events.next_retry_at <= NOW()
    attemptRows,   \* number of delivery_attempts rows per event
    deadLetters    \* number of dead_letter_events rows per event and reason

eventRow  == <<status, attemptCount, due>>
storeVars == <<endpoint, status, attemptCount, due, attemptRows, deadLetters>>

EndpointStates == {"active", "inactive", "deleted"}
Resolved       == {"delivered", "failed"}
Statuses       == {"pending", "queued", "retrying"} \cup Resolved
Reasons        == {"missing", "inactive", "failed"}

StoreTypeOK ==
    /\ endpoint \in [Endpoints -> EndpointStates]
    /\ status \in [Events -> Statuses \cup {"absent"}]
    /\ attemptCount \in [Events -> Nat]
    /\ due \in [Events -> BOOLEAN]
    /\ attemptRows \in [Events -> Nat]
    /\ deadLetters \in [Events -> [Reasons -> Nat]]

StoreInit ==
    /\ endpoint = [p \in Endpoints |-> "active"]
    /\ status = [e \in Events |-> "absent"]
    /\ attemptCount = [e \in Events |-> 0]
    /\ due = [e \in Events |-> FALSE]
    /\ attemptRows = [e \in Events |-> 0]
    /\ deadLetters = [e \in Events |-> [r \in Reasons |-> 0]]

EventExists(e)    == status[e] # "absent"
EndpointExists(e) == endpoint[EndpointOf[e]] # "deleted"

(***************************************************************************)
(* EventRepo.                                                              *)
(***************************************************************************)

\* INSERT INTO events: refused by the foreign key once the endpoint is gone.
InsertEvent(e) ==
    /\ EndpointExists(e)
    /\ status' = [status EXCEPT ![e] = "pending"]
    /\ attemptCount' = [attemptCount EXCEPT ![e] = 0]
    /\ due' = [due EXCEPT ![e] = FALSE]
    /\ UNCHANGED <<endpoint, attemptRows, deadLetters>>

\* The INSERT reports an error: no endpoint row, or PostgreSQL is unreachable.
InsertEventFails(e) ==
    /\ ~EndpointExists(e) \/ "postgres" \in Faults
    /\ UNCHANGED storeVars

\* Mutant of UpdateStatus: the whole row is written back as it was created.
UpdateWholeRow(e, s) ==
    /\ \/ /\ EventExists(e)
          /\ status' = [status EXCEPT ![e] = s]
          /\ attemptCount' = [attemptCount EXCEPT ![e] = 0]
       \/ /\ ~EventExists(e) \/ "postgres" \in Faults
          /\ UNCHANGED <<status, attemptCount>>
    /\ UNCHANGED <<endpoint, due, attemptRows, deadLetters>>

\* UPDATE events SET status WHERE id: unconditional, whatever the row holds.
\* Every caller logs an error (or zero rows) and goes on.
UpdateStatus(e, s) ==
    /\ \/ /\ EventExists(e)
          /\ status' = [status EXCEPT ![e] = s]
       \/ /\ ~EventExists(e) \/ "postgres" \in Faults
          /\ UNCHANGED status
    /\ UNCHANGED <<endpoint, attemptCount, due, attemptRows, deadLetters>>

\* UPDATE events SET status, attempt_count, next_retry_at WHERE id: unconditional
\* too; the new next_retry_at is not before NOW().
UpdateForRetry(e, n) ==
    /\ \/ /\ EventExists(e)
          /\ status' = [status EXCEPT ![e] = "retrying"]
          /\ attemptCount' = [attemptCount EXCEPT ![e] = n]
          /\ due' = [due EXCEPT ![e] = FALSE]
       \/ /\ ~EventExists(e) \/ "postgres" \in Faults
          /\ UNCHANGED eventRow
    /\ UNCHANGED <<endpoint, attemptRows, deadLetters>>

\* Mutant of Retryable: the last attempt is filtered out.
RetryableButLast ==
    {e \in Events : status[e] = "retrying" /\ due[e] /\ attemptCount[e] + 1 < MaxAttempts}

\* The rows FindRetryable selects from.
Retryable == {e \in Events : status[e] = "retrying" /\ due[e]}

\* NOW() passes next_retry_at (the jitter can be 0, so this can be at once).
RetryComesDue(e) ==
    /\ status[e] = "retrying"
    /\ ~due[e]
    /\ due' = [due EXCEPT ![e] = TRUE]
    /\ UNCHANGED <<endpoint, status, attemptCount, attemptRows, deadLetters>>

(***************************************************************************)
(* DeliveryAttemptRepo and DeadLetterEventRepo.                            *)
(***************************************************************************)

\* An attempt may be refused because PostgreSQL does not answer, or because the response
\* body, cut to 1024 bytes wherever that is, is not valid UTF-8 or has a NUL in it.
AuditMayFail == "postgres" \in Faults \/ "bodies" \in Faults

\* INSERT INTO delivery_attempts: both foreign keys must hold; errors are logged.
InsertAttempt(e) ==
    /\ \/ /\ EventExists(e)
          /\ attemptRows' = [attemptRows EXCEPT ![e] = @ + 1]
       \/ /\ ~EventExists(e) \/ AuditMayFail
          /\ UNCHANGED attemptRows
    /\ UNCHANGED <<endpoint, eventRow, deadLetters>>

\* INSERT INTO dead_letter_events: endpoint_id is a foreign key, and
\* original_event_id is not; errors are logged.
InsertDeadLetter(e, r) ==
    /\ \/ /\ EndpointExists(e)
          /\ deadLetters' = [deadLetters EXCEPT ![e][r] = @ + 1]
       \/ /\ ~EndpointExists(e) \/ "postgres" \in Faults
          /\ UNCHANGED deadLetters
    /\ UNCHANGED <<endpoint, eventRow, attemptRows>>

DeadLettered(e) == \E r \in Reasons : deadLetters[e][r] > 0

(***************************************************************************)
(* EndpointRepo, as far as the pipeline can see it.                        *)
(***************************************************************************)

\* UPDATE endpoints SET ..., active: a tenant turns the endpoint on or off.
UpdateEndpoint(p) ==
    /\ endpoint[p] # "deleted"
    /\ \E flag \in {"active", "inactive"} \ {endpoint[p]} :
          endpoint' = [endpoint EXCEPT ![p] = flag]
    /\ UNCHANGED <<eventRow, attemptRows, deadLetters>>

\* DELETE FROM endpoints: ON DELETE CASCADE removes its events, their attempts
\* and their dead letters with it.
DeleteEndpoint(p) ==
    /\ endpoint[p] # "deleted"
    /\ endpoint' = [endpoint EXCEPT ![p] = "deleted"]
    /\ status' = [e \in Events |-> IF EndpointOf[e] = p THEN "absent" ELSE status[e]]
    /\ attemptCount' = [e \in Events |-> IF EndpointOf[e] = p THEN 0 ELSE attemptCount[e]]
    /\ due' = [e \in Events |-> EndpointOf[e] # p /\ due[e]]
    /\ attemptRows' = [e \in Events |-> IF EndpointOf[e] = p THEN 0 ELSE attemptRows[e]]
    /\ deadLetters' = [e \in Events |-> IF EndpointOf[e] = p
                                          THEN [r \in Reasons |-> 0] ELSE deadLetters[e]]
==============================================================================
