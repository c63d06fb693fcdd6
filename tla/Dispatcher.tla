------------------------------ MODULE Dispatcher ------------------------------
(***************************************************************************)
(* DispatcherService (internal/service/dispatcher.go): the loop of Start   *)
(* (fetch, processMessage, commit) with one step per call it makes to      *)
(* PostgreSQL, Redis, Kafka or the endpoint.  pc names the call that comes *)
(* next.  A message whose processing returned, with an error or without,   *)
(* is committed; every return after the lock was taken goes through the    *)
(* deferred Release first.                                                 *)
(*                                                                         *)
(* The circuit breaker is a module of its own: here its Allow may give any *)
(* answer in BreakerAnswers, and RecordSuccess and RecordFailure touch     *)
(* nothing of this module.  An error of Allow counts as a refusal.         *)
(***************************************************************************)
EXTENDS RedisKeys

CONSTANT BreakerAnswers   \* what circuitBreaker.Allow may return

ASSUME BreakerAssumption == BreakerAnswers \subseteq BOOLEAN

VARIABLES
    pc,          \* the call a dispatcher makes next; "down" when it is not running
    job,         \* the event of the message it holds, or NoEvent
    offset,      \* the offset of that message, or 0
    snap,        \* event.AttemptCount as GetByID returned it
    outcome,     \* what getEndpoint, then Deliver, came to
    processed,   \* history: the offsets whose processMessage returned
    acked,       \* history: POSTs of an event whose 2xx the dispatcher got
    refused      \* history: POSTs of an event that failed any other way

jobVars        == <<job, offset, snap>>
historyVars    == <<processed, acked, refused>>
dispatcherVars == <<pc, jobVars, outcome, historyVars>>

\* The calls made with the lock held, in the code's order.
LockedCalls ==
    {"allow", "cacheGet", "getEndpoint", "cacheSet", "deliver", "record", "resolve",
     "deadLetter", "markFailed", "release", "delete"}
Calls    == {"fetch", "getEvent", "acquire", "commit"} \cup LockedCalls
Outcomes == {"none", "ok"} \cup Reasons \cup {"active"}

DispatcherTypeOK ==
    /\ pc \in [Dispatchers -> Calls \cup {"down"}]
    /\ job \in [Dispatchers -> Events \cup {NoEvent}]
    /\ \A d \in Dispatchers : job[d] = NoEvent <=> pc[d] \in {"fetch", "down"}
    /\ offset \in [Dispatchers -> 0..Len(log)]
    /\ snap \in [Dispatchers -> Nat]
    /\ outcome \in [Dispatchers -> Outcomes]
    /\ processed \subseteq 1..Len(log)
    /\ acked \in [Events -> Nat]
    /\ refused \in [Events -> Nat]

DispatcherInit ==
    /\ pc = [d \in Dispatchers |-> "fetch"]
    /\ job = [d \in Dispatchers |-> NoEvent]
    /\ offset = [d \in Dispatchers |-> 0]
    /\ snap = [d \in Dispatchers |-> 0]
    /\ outcome = [d \in Dispatchers |-> "none"]
    /\ processed = {}
    /\ acked = [e \in Events |-> 0]
    /\ refused = [e \in Events |-> 0]

Goto(d, call)  == pc' = [pc EXCEPT ![d] = call]
Result(d, res) == outcome' = [outcome EXCEPT ![d] = res]

\* processMessage returns; Start commits next.
Return(d) ==
    /\ Goto(d, "commit")
    /\ processed' = processed \cup {offset[d]}
    /\ UNCHANGED <<jobVars, outcome, acked, refused>>

\* The dispatcher holds no message any more.
Forget(d) ==
    /\ job' = [job EXCEPT ![d] = NoEvent]
    /\ offset' = [offset EXCEPT ![d] = 0]
    /\ snap' = [snap EXCEPT ![d] = 0]
    /\ outcome' = [outcome EXCEPT ![d] = "none"]
    /\ UNCHANGED historyVars

Working(d, e) == pc[d] \in LockedCalls /\ job[d] = e

(***************************************************************************)
(* Start, and processMessage up to the lock.                               *)
(***************************************************************************)

\* Mutant of FetchMessage: ReadMessage, which commits what it hands out.
ReadMessage(d) ==
    /\ pc[d] = "fetch"
    /\ owner = d
    /\ position[d] < Len(log)
    /\ position' = [position EXCEPT ![d] = @ + 1]
    /\ committed' = position[d] + 1
    /\ offset' = [offset EXCEPT ![d] = position[d] + 1]
    /\ job' = [job EXCEPT ![d] = log[position[d] + 1]]
    /\ Goto(d, "getEvent")
    /\ UNCHANGED <<storeVars, redisVars, log, owner, snap, outcome, historyVars>>

\* consumer.FetchMessage hands out the next message of the assigned partition.
FetchMessage(d) ==
    /\ pc[d] = "fetch"
    /\ owner = d
    /\ position[d] < Len(log)
    /\ position' = [position EXCEPT ![d] = @ + 1]
    /\ offset' = [offset EXCEPT ![d] = position[d] + 1]
    /\ job' = [job EXCEPT ![d] = log[position[d] + 1]]
    /\ Goto(d, "getEvent")
    /\ UNCHANGED <<storeVars, redisVars, log, committed, owner, snap, outcome, historyVars>>

\* Mutant of GetEvent: only queued events are delivered.
GetQueuedEvent(d) ==
    /\ pc[d] = "getEvent"
    /\ \/ /\ status[job[d]] = "queued"
          /\ snap' = [snap EXCEPT ![d] = attemptCount[job[d]]]
          /\ Goto(d, "acquire")
          /\ UNCHANGED <<job, offset, outcome, historyVars>>
       \/ /\ status[job[d]] # "queued"
          /\ Return(d)
    /\ UNCHANGED <<storeVars, redisVars, topicVars>>

\* eventRepo.GetByID: no row, a failed query or a resolved event ends processing.
GetEvent(d) ==
    /\ pc[d] = "getEvent"
    /\ \/ /\ status[job[d]] \notin Resolved \cup {"absent"}
          /\ snap' = [snap EXCEPT ![d] = attemptCount[job[d]]]
          /\ Goto(d, "acquire")
          /\ UNCHANGED <<job, offset, outcome, historyVars>>
       \/ /\ status[job[d]] \in Resolved \cup {"absent"} \/ "postgres" \in Faults
          /\ Return(d)
    /\ UNCHANGED <<storeVars, redisVars, topicVars>>

\* lockRepo.Acquire: "event already being processed, skipping" if it says no.
Acquire(d) ==
    /\ pc[d] = "acquire"
    /\ \/ /\ AcquireLock(d, job[d])
          /\ Goto(d, "allow")
          /\ UNCHANGED <<jobVars, outcome, historyVars>>
       \/ /\ AcquireRefused(d, job[d])
          /\ Return(d)
    /\ UNCHANGED <<storeVars, topicVars>>

(***************************************************************************)
(* processMessage with the lock held.                                      *)
(***************************************************************************)

\* circuitBreaker.Allow.
BreakerAllow(d) ==
    /\ pc[d] = "allow"
    /\ \E allowed \in BreakerAnswers : Goto(d, IF allowed THEN "cacheGet" ELSE "release")
    /\ UNCHANGED <<storeVars, redisVars, topicVars, jobVars, outcome, historyVars>>

\* An endpoint that is not active goes to handleDeadLetter, an active one gets a POST.
Found(d, flag, call) ==
    /\ Result(d, flag)
    /\ Goto(d, call)

\* endpointCache.Get: a hit is taken as it is, a miss or an error asks the database.
GetCached(d) ==
    /\ pc[d] = "cacheGet"
    /\ LET flag == cached[EndpointOf[job[d]]] IN
         \/ flag = "active" /\ Found(d, flag, "deliver")
         \/ flag = "inactive" /\ Found(d, flag, "deadLetter")
         \/ /\ flag = "none" \/ "redis" \in Faults
            /\ Goto(d, "getEndpoint")
            /\ UNCHANGED outcome
    /\ UNCHANGED <<storeVars, redisVars, topicVars, jobVars, historyVars>>

\* endpointRepo.GetByID.
GetEndpoint(d) ==
    /\ pc[d] = "getEndpoint"
    /\ LET flag == endpoint[EndpointOf[job[d]]] IN
         \/ flag # "deleted" /\ Found(d, flag, "cacheSet")
         \/ flag = "deleted" /\ Found(d, "missing", "deadLetter")
         \/ /\ "postgres" \in Faults
            /\ Goto(d, "release")
            /\ UNCHANGED outcome
    /\ UNCHANGED <<storeVars, redisVars, topicVars, jobVars, historyVars>>

\* Mutant of PutCached: only a row that is missing is not delivered to.
PutCachedAnyway(d) ==
    /\ pc[d] = "cacheSet"
    /\ SetCache(EndpointOf[job[d]], outcome[d])
    /\ Goto(d, "deliver")
    /\ UNCHANGED <<storeVars, topicVars, jobVars, outcome, historyVars>>

\* endpointCache.Set with the row just read, which may have changed since.
PutCached(d) ==
    /\ pc[d] = "cacheSet"
    /\ SetCache(EndpointOf[job[d]], outcome[d])
    /\ Goto(d, IF outcome[d] = "active" THEN "deliver" ELSE "deadLetter")
    /\ UNCHANGED <<storeVars, topicVars, jobVars, outcome, historyVars>>

\* Mutant of Deliver: a failed POST is repeated on the spot.
DeliverAgain(d) ==
    /\ pc[d] = "deliver"
    /\ \/ /\ Goto(d, "record")
          /\ Result(d, "ok")
          /\ acked' = [acked EXCEPT ![job[d]] = @ + 1]
          /\ UNCHANGED refused
       \/ /\ \E call \in {"deliver", "record"} : Goto(d, call)
          /\ refused[job[d]] < MaxAttempts + 2
          /\ Result(d, "failed")
          /\ refused' = [refused EXCEPT ![job[d]] = @ + 1]
          /\ UNCHANGED acked
    /\ UNCHANGED <<storeVars, redisVars, topicVars, jobVars, processed>>

\* webhookClient.Deliver: a 2xx, or any other status, an error or a timeout.
Deliver(d) ==
    /\ pc[d] = "deliver"
    /\ Goto(d, "record")
    /\ \/ /\ Result(d, "ok")
          /\ acked' = [acked EXCEPT ![job[d]] = @ + 1]
          /\ UNCHANGED refused
       \/ /\ Result(d, "failed")
          /\ refused' = [refused EXCEPT ![job[d]] = @ + 1]
          /\ UNCHANGED acked
    /\ UNCHANGED <<storeVars, redisVars, topicVars, jobVars, processed>>

\* Mutants of RecordAttempt: one attempt too few, one too many, failures only.
RecordAttemptTooFew(d) ==
    /\ pc[d] = "record"
    /\ InsertAttempt(job[d])
    /\ Goto(d, IF outcome[d] = "failed" /\ snap[d] + 2 >= MaxAttempts
                 THEN "deadLetter" ELSE "resolve")
    /\ UNCHANGED <<redisVars, topicVars, jobVars, outcome, historyVars>>

RecordAttemptTooMany(d) ==
    /\ pc[d] = "record"
    /\ InsertAttempt(job[d])
    /\ Goto(d, IF outcome[d] = "failed" /\ snap[d] >= MaxAttempts
                 THEN "deadLetter" ELSE "resolve")
    /\ UNCHANGED <<redisVars, topicVars, jobVars, outcome, historyVars>>

RecordFailure(d) ==
    /\ pc[d] = "record"
    /\ IF outcome[d] = "failed" THEN InsertAttempt(job[d]) ELSE UNCHANGED storeVars
    /\ Goto(d, IF outcome[d] = "failed" /\ snap[d] + 1 >= MaxAttempts
                 THEN "deadLetter" ELSE "resolve")
    /\ UNCHANGED <<redisVars, topicVars, jobVars, outcome, historyVars>>

\* recordAttempt.  A failed delivery that was the last one allowed goes to
\* handleDeadLetter, by the count that was read before the lock.
RecordAttempt(d) ==
    /\ pc[d] = "record"
    /\ InsertAttempt(job[d])
    /\ Goto(d, IF outcome[d] = "failed" /\ snap[d] + 1 >= MaxAttempts
                 THEN "deadLetter" ELSE "resolve")
    /\ UNCHANGED <<redisVars, topicVars, jobVars, outcome, historyVars>>

\* UpdateStatus(delivered) after a 2xx, UpdateForRetry after a failure.
ResolveAttempt(d) ==
    /\ pc[d] = "resolve"
    /\ \/ outcome[d] = "ok" /\ UpdateStatus(job[d], "delivered")
       \/ outcome[d] = "failed" /\ UpdateForRetry(job[d], snap[d] + 1)
    /\ Goto(d, "release")
    /\ UNCHANGED <<redisVars, topicVars, jobVars, outcome, historyVars>>

\* Mutant of CreateDeadLetter: events that were never POSTed get no row.
CreateDeadLetterIfPosted(d) ==
    /\ pc[d] = "deadLetter"
    /\ IF outcome[d] = "failed" THEN InsertDeadLetter(job[d], outcome[d]) ELSE UNCHANGED storeVars
    /\ Goto(d, "markFailed")
    /\ UNCHANGED <<redisVars, topicVars, jobVars, outcome, historyVars>>

\* handleDeadLetter, deadLetterRepo.Create: on an error the event is failed all the same.
CreateDeadLetter(d) ==
    /\ pc[d] = "deadLetter"
    /\ InsertDeadLetter(job[d], outcome[d])
    /\ Goto(d, "markFailed")
    /\ UNCHANGED <<redisVars, topicVars, jobVars, outcome, historyVars>>

\* handleDeadLetter, UpdateStatus(failed).
MarkFailed(d) ==
    /\ pc[d] = "markFailed"
    /\ UpdateStatus(job[d], "failed")
    /\ Goto(d, "release")
    /\ UNCHANGED <<redisVars, topicVars, jobVars, outcome, historyVars>>

\* Mutant of ReleaseGet: the key is left to its TTL.
ReleaseLater(d) ==
    /\ pc[d] = "release"
    /\ Return(d)
    /\ UNCHANGED <<storeVars, redisVars, topicVars>>

\* Release, GET: deletes only if the key still holds this dispatcher's value.
ReleaseGet(d) ==
    /\ pc[d] = "release"
    /\ \/ /\ lock[job[d]] = d
          /\ Goto(d, "delete")
          /\ UNCHANGED <<jobVars, outcome, historyVars>>
       \/ /\ lock[job[d]] # d \/ "redis" \in Faults
          /\ Return(d)
    /\ UNCHANGED <<storeVars, redisVars, topicVars>>

\* Release, DEL.
ReleaseDelete(d) ==
    /\ pc[d] = "delete"
    /\ DeleteLock(job[d])
    /\ Return(d)
    /\ UNCHANGED <<storeVars, topicVars>>

(***************************************************************************)
(* The rest of Start.                                                      *)
(***************************************************************************)

\* consumer.CommitMessages; an error is logged.
CommitMessage(d) ==
    /\ pc[d] = "commit"
    /\ CommitOffset(d, offset[d])
    /\ Goto(d, "fetch")
    /\ Forget(d)
    /\ UNCHANGED <<storeVars, redisVars>>

\* The process dies, or SIGTERM cancels the context, which makes every call that is
\* left fail, the deferred Release and the commit included.  The group takes the
\* partition away from it.
StopDispatcher(d) ==
    /\ pc[d] # "down"
    /\ Goto(d, "down")
    /\ Forget(d)
    /\ owner' = IF owner = d THEN NoOne ELSE owner
    /\ position' = [position EXCEPT ![d] = 0]
    /\ UNCHANGED <<storeVars, redisVars, log, committed>>

StartDispatcher(d) ==
    /\ pc[d] = "down"
    /\ Goto(d, "fetch")
    /\ UNCHANGED <<storeVars, redisVars, topicVars, jobVars, outcome, historyVars>>
==============================================================================
