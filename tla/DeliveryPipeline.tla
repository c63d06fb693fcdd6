--------------------------- MODULE DeliveryPipeline ---------------------------
(***************************************************************************)
(* The event pipeline as it is deployed: API replicas that take events in  *)
(* (Intake), retry schedulers (RetryScheduler) and dispatchers             *)
(* (Dispatcher), which share nothing but PostgreSQL (Store), one Kafka     *)
(* partition (EventTopic) and Redis (RedisKeys), and a tenant who edits    *)
(* and deletes endpoints meanwhile.                                        *)
(***************************************************************************)
EXTENDS Intake, RetryScheduler, Dispatcher

CONSTANTS
    SlowHolders,     \* may a dispatcher be at work for longer than the lock's TTL?
    MaxCrashes,      \* bound: processes that die
    MaxRebalances,   \* bound: times the partition is taken from a live dispatcher
    MaxDisruptions,  \* bound: deaths and moves together
    MaxEdits         \* bound: endpoint updates and deletions

ASSUME PipelineAssumption ==
    /\ SlowHolders \in BOOLEAN
    /\ MaxCrashes \in Nat
    /\ MaxRebalances \in Nat
    /\ MaxDisruptions \in Nat
    /\ MaxEdits \in Nat

VARIABLES crashes, rebalances, edits   \* how much of the bounds is used up

budgetVars == <<crashes, rebalances, edits>>
vars == <<storeVars, topicVars, redisVars, intake, schedulerVars, dispatcherVars, budgetVars>>

TypeOK ==
    /\ StoreTypeOK
    /\ TopicTypeOK
    /\ RedisTypeOK
    /\ IntakeTypeOK
    /\ SchedulerTypeOK
    /\ DispatcherTypeOK
    /\ crashes \in 0..MaxCrashes
    /\ rebalances \in 0..MaxRebalances
    /\ edits \in 0..MaxEdits

Init ==
    /\ StoreInit
    /\ TopicInit
    /\ RedisInit
    /\ IntakeInit
    /\ SchedulerInit
    /\ DispatcherInit
    /\ crashes = 0
    /\ rebalances = 0
    /\ edits = 0

MayDisrupt == crashes + rebalances < MaxDisruptions

Crash ==
    /\ crashes < MaxCrashes /\ MayDisrupt
    /\ crashes' = crashes + 1
    /\ UNCHANGED <<rebalances, edits>>

(***************************************************************************)
(* The processes.                                                          *)
(***************************************************************************)

IntakeStep(e) ==
    /\ \/ AcceptRequest(e) \/ RejectRequest(e) \/ CreateEvent(e)
       \/ PublishCreated(e) \/ MarkCreatedQueued(e)
    /\ UNCHANGED <<redisVars, schedulerVars, dispatcherVars, budgetVars>>

IntakeCrash(e) ==
    /\ AbandonRequest(e)
    /\ Crash
    /\ UNCHANGED <<redisVars, schedulerVars, dispatcherVars>>

SchedulerStep(s) ==
    /\ FindRetryable(s) \/ Republish(s) \/ MarkRetryQueued(s)
    /\ UNCHANGED <<redisVars, intake, dispatcherVars, budgetVars>>

SchedulerCrash(s) ==
    /\ RestartScheduler(s)
    /\ Crash
    /\ UNCHANGED <<redisVars, intake, dispatcherVars>>

DispatcherStep(d) ==
    /\ \/ FetchMessage(d) \/ GetEvent(d) \/ Acquire(d) \/ BreakerAllow(d)
       \/ GetCached(d) \/ GetEndpoint(d) \/ PutCached(d) \/ Deliver(d)
       \/ RecordAttempt(d) \/ ResolveAttempt(d) \/ CreateDeadLetter(d) \/ MarkFailed(d)
       \/ ReleaseGet(d) \/ ReleaseDelete(d) \/ CommitMessage(d) \/ StartDispatcher(d)
    /\ UNCHANGED <<intake, schedulerVars, budgetVars>>

DispatcherCrash(d) ==
    /\ StopDispatcher(d)
    /\ Crash
    /\ UNCHANGED <<intake, schedulerVars>>

(***************************************************************************)
(* Their surroundings.                                                     *)
(***************************************************************************)

\* The group gives a partition without owner to a live member.
Assign(d) ==
    /\ owner = NoOne
    /\ pc[d] # "down"
    /\ AssignTo(d)
    /\ UNCHANGED <<storeVars, redisVars, intake, schedulerVars, dispatcherVars, budgetVars>>

\* The group moves the partition from a member that may be at work on a message.
Rebalance(d) ==
    /\ owner \notin {NoOne, d}
    /\ pc[d] # "down"
    /\ rebalances < MaxRebalances /\ MayDisrupt
    /\ rebalances' = rebalances + 1
    /\ AssignTo(d)
    /\ UNCHANGED <<storeVars, redisVars, intake, schedulerVars, dispatcherVars, crashes, edits>>

RetryDue(e) ==
    /\ RetryComesDue(e)
    /\ UNCHANGED <<topicVars, redisVars, intake, schedulerVars, dispatcherVars, budgetVars>>

\* Unless holders can be slow, the 5 minutes outlast everything a dispatcher does
\* with the lock: one POST of at most 10 seconds and a dozen short calls.
LockTimeout(e) ==
    /\ SlowHolders \/ ~\E d \in Dispatchers : lock[e] = d /\ Working(d, e)
    /\ ExpireLock(e)
    /\ UNCHANGED <<storeVars, topicVars, intake, schedulerVars, dispatcherVars, budgetVars>>

CacheTimeout(p) ==
    /\ ExpireCache(p)
    /\ UNCHANGED <<storeVars, topicVars, intake, schedulerVars, dispatcherVars, budgetVars>>

Edit(p) ==
    /\ edits < MaxEdits
    /\ edits' = edits + 1
    /\ UpdateEndpoint(p) \/ DeleteEndpoint(p)
    /\ UNCHANGED <<topicVars, redisVars, intake, schedulerVars, dispatcherVars>>
    /\ UNCHANGED <<crashes, rebalances>>

Next ==
    \/ \E e \in Events : IntakeStep(e) \/ IntakeCrash(e) \/ RetryDue(e) \/ LockTimeout(e)
    \/ \E s \in Schedulers : SchedulerStep(s) \/ SchedulerCrash(s)
    \/ \E d \in Dispatchers : DispatcherStep(d) \/ DispatcherCrash(d) \/ Assign(d) \/ Rebalance(d)
    \/ \E p \in Endpoints : CacheTimeout(p) \/ Edit(p)

Spec == Init /\ [][Next]_vars

(***************************************************************************)
(* Safety.                                                                 *)
(***************************************************************************)

\* Two dispatchers never work on one event at the same time: the promise of the lock
\* around processMessage, while no holder outlasts its TTL.  The partition can be
\* moved and holders can die with the lock set.
NoConcurrentDelivery ==
    SlowHolders \/ \A d, f \in Dispatchers : \A e \in Events :
                      Working(d, e) /\ Working(f, e) => d = f

\* Every message behind the committed offset went through processMessage to its end:
\* Start commits only what was processed, and a message whose dispatcher dies or loses
\* the partition is handed out again (at-least-once delivery).
CommittedAreProcessed == 1..committed \subseteq processed

\* An event is dead-lettered for failing only after MaxAttempts POSTs have failed, and
\* attempt_count never runs ahead of the failed POSTs, however many copies of the
\* message are about and however stale the count was that a dispatcher went by.
NoPrematureDeadLetter ==
    \A e \in Events : /\ attemptCount[e] <= refused[e]
                      /\ deadLetters[e]["failed"] > 0 => refused[e] >= MaxAttempts

\* An event in status failed has a row in the dead letter queue: handleDeadLetter
\* inserts it first, and when the endpoint's deletion makes that impossible, the
\* cascade has removed the event as well.
FailedHasDeadLetter ==
    "postgres" \in Faults \/ \A e \in Events : status[e] = "failed" => DeadLettered(e)

\* A delivered event was acknowledged, and its attempts are on record.
DeliveredIsAudited ==
    \A e \in Events :
        /\ status[e] = "delivered" => acked[e] > 0
        /\ AuditMayFail \/ (status[e] = "delivered" => attemptRows[e] > 0)

\* delivery_attempts has a row for every POST but the ones still to be recorded, as
\* long as no dispatcher dies, no insert fails and no row is deleted.
Recording(e) == {d \in Dispatchers : pc[d] = "record" /\ job[d] = e}
EveryPostIsRecorded ==
    crashes = 0 /\ ~AuditMayFail =>
        \A e \in Events : EventExists(e) =>
            attemptRows[e] + Cardinality(Recording(e)) = acked[e] + refused[e]

\* A committed message has had its effect, or somebody is still working on its event:
\* the skip of a locked event loses nothing as long as no dispatcher dies, no call
\* fails and the breaker lets everything through.
Attempted(e) ==
    \/ acked[e] + refused[e] > 0
    \/ DeadLettered(e)
    \/ ~EventExists(e)
CommittedNotForgotten ==
    crashes = 0 /\ Faults = {} /\ BreakerAnswers = {TRUE} => \A i \in 1..committed :
        Attempted(log[i]) \/ \E d \in Dispatchers : Working(d, log[i])

\* While the partition stays where it is and PostgreSQL and Kafka answer, an event is
\* POSTed once for its request, once per scheduler for each retry there may be, since all
\* replicas may take up the same one (scheduler.go:53), and once more for each process
\* that dies.  With one scheduler and no death this is MaxAttempts; replicas exceed it.
Steady == rebalances = 0 /\ "postgres" \notin Faults /\ "kafka" \notin Faults
MostPosts == 1 + Cardinality(Schedulers) * (MaxAttempts - 1)
AttemptsAreBounded ==
    Steady => \A e \in Events : acked[e] + refused[e] <= MostPosts + crashes

(***************************************************************************)
(* The inductive invariant behind NoConcurrentDelivery,                    *)
(* CommittedAreProcessed and NoPrematureDeadLetter: what a dispatcher at   *)
(* each call may rely on.                                                  *)
(***************************************************************************)

HoldsMessage(d) == pc[d] \notin {"fetch", "down"}

\* The local variables are set before they are used.
LocalsAreSet ==
    \A d \in Dispatchers :
        /\ HoldsMessage(d) => offset[d] \in 1..Len(log)
        /\ pc[d] = "cacheSet" => outcome[d] \in {"active", "inactive"}
        /\ pc[d] = "deadLetter" => outcome[d] \in Reasons

\* Before it has made a POST for its message, a dispatcher has no result of one.
Unposted ==
    {"fetch", "down", "getEvent", "acquire", "allow", "cacheGet", "getEndpoint", "cacheSet",
     "deliver"}
OutcomeIsFresh ==
    \A d \in Dispatchers : pc[d] \in Unposted => outcome[d] \notin {"ok", "failed"}

\* Whoever works on an event has its lock.
WorkersHoldLock ==
    SlowHolders \/ \A d \in Dispatchers : pc[d] \in LockedCalls => lock[job[d]] = d

\* A reader hands out the messages in order: what it has handed out was processed, but
\* for the message it holds, and so was all that comes before that one.
ReadersGoInOrder ==
    \A d \in Dispatchers :
        /\ ~HoldsMessage(d) => 1..position[d] \subseteq processed
        /\ HoldsMessage(d) => /\ 1..(offset[d] - 1) \subseteq processed
                              /\ 1..position[d] \subseteq processed \cup {offset[d]}
        /\ pc[d] = "commit" => offset[d] \in processed

\* The count a dispatcher goes by is backed by failed POSTs, the one just made included.
CountsAreBacked ==
    \A d \in Dispatchers :
        /\ pc[d] \in LockedCalls \cup {"acquire"} => snap[d] <= refused[job[d]]
        /\ pc[d] \in {"record", "resolve", "deadLetter"} /\ outcome[d] = "failed" =>
               snap[d] + 1 <= refused[job[d]]
        /\ pc[d] = "deadLetter" /\ outcome[d] = "failed" => MaxAttempts <= snap[d] + 1

PipelineInv ==
    /\ TypeOK
    /\ LocalsAreSet
    /\ OutcomeIsFresh
    /\ WorkersHoldLock
    /\ ReadersGoInOrder
    /\ CommittedAreProcessed
    /\ CountsAreBacked
    /\ NoPrematureDeadLetter

(***************************************************************************)
(* The inductive invariant behind FailedHasDeadLetter, DeliveredIsAudited  *)
(* and AttemptCountNeverFalls, on top of PipelineInv: what the tables hold *)
(* on the way to a status.                                                 *)
(***************************************************************************)

\* events.endpoint_id is a foreign key.
ForeignKeys == \A e \in Events : EventExists(e) => EndpointExists(e)

\* A request that has not got to its INSERT has left nothing behind.
RequestsAreUnstored ==
    \A e \in Events : intake[e] \in {"new", "validated"} => ~EventExists(e) /\ attemptCount[e] = 0

\* A dispatcher at work has seen the row of its event, which only the cascade removes.
JobsAreKnown ==
    \A d \in Dispatchers : pc[d] \in LockedCalls \cup {"acquire"} =>
        EventExists(job[d]) \/ ~EndpointExists(job[d])

\* A dispatcher that is about to write a status has written what must come with it.
FailedAreBuried ==
    "postgres" \in Faults \/ \A d \in Dispatchers : pc[d] = "markFailed" =>
        DeadLettered(job[d]) \/ ~EndpointExists(job[d])
AttemptsAreRecorded ==
    AuditMayFail \/ \A d \in Dispatchers : pc[d] = "resolve" =>
        attemptRows[job[d]] > 0 \/ ~EndpointExists(job[d])
AcknowledgedIsAcked == \A d \in Dispatchers : outcome[d] = "ok" => acked[job[d]] > 0

\* Until the partition is taken from a live dispatcher, whoever holds a message owns the
\* partition, and the count it has read is the count in the row.
HoldersOwnPartition ==
    rebalances = 0 => \A d \in Dispatchers : HoldsMessage(d) => owner = d
BeforeResolved == {"acquire", "allow", "cacheGet", "getEndpoint", "cacheSet", "deliver",
                   "record", "resolve"}
SnapshotsAreCurrent ==
    rebalances = 0 => \A d \in Dispatchers :
        pc[d] \in BeforeResolved => attemptCount[job[d]] <= snap[d]

RecordsInv ==
    /\ ForeignKeys
    /\ RequestsAreUnstored
    /\ JobsAreKnown
    /\ FailedAreBuried
    /\ AttemptsAreRecorded
    /\ AcknowledgedIsAcked
    /\ HoldersOwnPartition
    /\ SnapshotsAreCurrent
    /\ FailedHasDeadLetter
    /\ DeliveredIsAudited

(***************************************************************************)
(* The inductive invariant behind EveryPostIsRecorded and                  *)
(* CommittedNotForgotten, on top of the other two.                         *)
(***************************************************************************)

\* An event that has not been inserted is nobody's business yet.
UncreatedIsUntouched ==
    \A e \in Events : intake[e] \in {"new", "validated"} =>
        /\ \A i \in 1..Len(log) : log[i] # e
        /\ \A d \in Dispatchers : job[d] # e
        /\ \A s \in Schedulers : e \notin batch[s]
        /\ acked[e] = 0 /\ refused[e] = 0 /\ attemptRows[e] = 0

\* A message is a copy of the one in the log.
JobIsMessage == \A d \in Dispatchers : HoldsMessage(d) => job[d] = log[offset[d]]

RecordingIsFinite == \A e \in Events : IsFiniteSet(Recording(e))

\* As long as no dispatcher dies and Redis answers, a lock belongs to one at work.
Undisturbed  == crashes = 0 /\ "redis" \notin Faults
LocksAreLive == Undisturbed => \A e \in Events : lock[e] # NoOne => Working(lock[e], e)

\* What a dispatcher has done for its event by the time it lets go of the lock.
PostsAreMade ==
    \A d \in Dispatchers :
        pc[d] \in {"record", "resolve"} => acked[job[d]] + refused[job[d]] > 0
Quiet == crashes = 0 /\ Faults = {} /\ BreakerAnswers = {TRUE}
LeavesAttempted ==
    Quiet => \A d \in Dispatchers : pc[d] \in {"release", "delete"} => Attempted(job[d])
ProcessedNotForgotten ==
    Quiet => \A i \in processed : Attempted(log[i]) \/ \E d \in Dispatchers : Working(d, log[i])

EffectsInv ==
    /\ UncreatedIsUntouched
    /\ JobIsMessage
    /\ RecordingIsFinite
    /\ EveryPostIsRecorded
    /\ LocksAreLive
    /\ PostsAreMade
    /\ LeavesAttempted
    /\ ProcessedNotForgotten

(***************************************************************************)
(* The inductive invariant behind AttemptsAreBounded, on top of the other  *)
(* three: the POSTs of an event and what may still become one never add up *)
(* to more than the bound.                                                 *)
(***************************************************************************)

\* The messages of an event that the dispatcher with the partition, or the next one to
\* get it, has not fetched yet.
Unread(i) == IF owner = NoOne THEN committed < i ELSE position[owner] < i
Copies(e) == {i \in 1..Len(log) : log[i] = e /\ Unread(i)}

\* The request may still publish the event, and a dispatcher may be about to POST it.
Requested(e) == intake[e] \in {"new", "validated", "inserted"}
BeforePost == {"getEvent", "acquire", "allow", "cacheGet", "getEndpoint", "cacheSet", "deliver"}
InHand(e)  == \E d \in Dispatchers : pc[d] \in BeforePost /\ job[d] = e

\* The schedulers that have selected the event, or will if they look now.
Chances(e) == {s \in Schedulers : e \in batch[s] \/ (status[e] = "retrying" /\ marking[s] # e)}

\* The chances that failures to come may give the schedulers.
ChancesLeft(e) ==
    IF status[e] = "absent" /\ intake[e] \notin {"new", "validated"}
      THEN 0
      ELSE Cardinality(Schedulers) * (MaxAttempts - 1 - attemptCount[e])

PostsToCome(e) ==
    (IF Requested(e) THEN 1 ELSE 0) + Cardinality(Copies(e)) + (IF InHand(e) THEN 1 ELSE 0)
    + Cardinality(Chances(e)) + ChancesLeft(e)

\* The reader of the owner is at the committed offset, or one ahead with that message in
\* its dispatcher's hands.
ReaderIsCurrent ==
    \A d \in Dispatchers : owner = d =>
        IF HoldsMessage(d) THEN position[d] = committed + 1 /\ offset[d] = position[d]
                           ELSE position[d] = committed

\* A retry is scheduled only below the limit.
RetriesAreBelowLimit ==
    /\ \A e \in Events : attemptCount[e] < MaxAttempts
    /\ \A d \in Dispatchers : pc[d] = "resolve" /\ outcome[d] = "failed" =>
           snap[d] + 1 < MaxAttempts

PostsInv ==
    /\ RetriesAreBelowLimit
    /\ Steady => /\ ReaderIsCurrent
                 /\ \A e \in Events :
                       acked[e] + refused[e] + PostsToCome(e) <= MostPosts + crashes

(***************************************************************************)
(* Action properties.                                                      *)
(***************************************************************************)

\* As long as the partition is not taken from a live dispatcher, attempt_count never
\* falls while the event exists, although UpdateForRetry writes it from a snapshot read
\* before the lock was taken.  (A dispatcher that lost the partition between the two may
\* write back a count that others have raised by more than one since.)
AttemptCountNeverFalls ==
    [][rebalances = 0 => \A e \in Events :
          status'[e] # "absent" => attemptCount'[e] >= attemptCount[e]]_vars

\* A message is skipped for "event already being processed" (dispatcher.go:122) only
\* while another dispatcher is processing that event.
SkipMeansProcessing ==
    [][\A d \in Dispatchers : pc[d] = "acquire" /\ pc'[d] = "commit" =>
          \E f \in Dispatchers \ {d} : Working(f, job[d])]_vars

\* That is so until a dispatcher dies or Redis does not answer: Release, although it
\* reads the key and deletes it in two commands and may delete another holder's, never
\* leaves the key of an event behind that nobody works on.
SkipsAreCovered ==
    [][Undisturbed => \A d \in Dispatchers : pc[d] = "acquire" /\ pc'[d] = "commit" =>
          \E f \in Dispatchers \ {d} : Working(f, job[d])]_vars

\* An endpoint is retired once it is inactive or deleted, its active row has left the
\* cache, and no dispatcher at work has read that row.
Retired(p) ==
    /\ endpoint[p] # "active"
    /\ cached[p] # "active"
    /\ \A d \in Dispatchers : HoldsMessage(d) /\ EndpointOf[job[d]] = p =>
           pc[d] # "deliver" /\ ~(pc[d] = "cacheSet" /\ outcome[d] = "active")

\* A retired endpoint gets no POST until a tenant activates it again: a row read before
\* the tenant switched the endpoint off lives on in the cache for one TTL and in the
\* hands of a dispatcher, and nobody else brings it back.
RetiredIsLeftAlone ==
    [][\A p \in Endpoints : Retired(p) /\ endpoint'[p] # "active" =>
          /\ Retired(p)'
          /\ \A e \in Events : EndpointOf[e] = p => UNCHANGED <<acked[e], refused[e]>>]_vars

(***************************************************************************)
(* Refinement.                                                             *)
(***************************************************************************)

\* What the POST of a dispatcher came to, as long as it has the lock.
LastPost(d) ==
    IF pc[d] \in LockedCalls /\ outcome[d] \in {"ok", "failed"} THEN outcome[d] ELSE "none"

AtWork    == [e \in Events |-> {d \in Dispatchers : Working(d, e)}]
LastPosts == [d \in Dispatchers |-> LastPost(d)]
Buried    == {e \in Events : deadLetters[e]["failed"] > 0}

Contract == INSTANCE DeliveryContract WITH
    Workers   <- Dispatchers,
    Exclusive <- ~SlowHolders,
    workers   <- AtWork,
    last      <- LastPosts,
    wins      <- acked,
    strikes   <- refused,
    buried    <- Buried

\* The pipeline implements DeliveryContract: lock, snapshot and status add up to events
\* that are handled one worker at a time (unless holders outlast the lock), POSTed once
\* each time they are taken up, and dead-lettered by a worker whose own POST failed and
\* was at least the MaxAttempts-th.
ImplementsContract == Contract!Spec

(***************************************************************************)
(* Liveness.  Handlers run on once started, the group assigns a free       *)
(* partition, a stopped dispatcher is restarted, and time passes; clients, *)
(* tenants, crashes and rebalances owe nothing.                            *)
(***************************************************************************)

Fairness ==
    /\ \A e \in Events :
          /\ WF_vars(intake[e] # "new" /\ IntakeStep(e))
          /\ WF_vars(RetryDue(e))
          /\ WF_vars(LockTimeout(e))
    /\ \A s \in Schedulers : WF_vars(SchedulerStep(s))
    /\ \A d \in Dispatchers : WF_vars(DispatcherStep(d))
    /\ WF_vars(\E d \in Dispatchers : Assign(d))

LiveSpec == Spec /\ Fairness

\* Every published message is handed to processMessage and processed to its end by a
\* dispatcher that lives, whatever crashes and moves.  (That it is committed does not
\* follow: a late commit of a former owner may move the group's offset back for good.)
EveryMessageIsProcessed ==
    \A n \in 1..MaxLog : (Len(log) >= n) ~> (n \in processed)

\* A scheduled retry is taken up again: the event does not stay in status retrying.
RetriesAreTaken ==
    \A e \in Events : (status[e] = "retrying") ~> (status[e] # "retrying")

\* A retry that was scheduled ("scheduling retry", dispatcher.go:226) is made.
ScheduledRetryIsMade ==
    \A e \in Events : \A n \in 1..MaxAttempts - 1 :
        (status[e] = "retrying" /\ attemptCount[e] = n)
            ~> (acked[e] + refused[e] > n \/ DeadLettered(e) \/ ~EventExists(e))

\* An event that was published is POSTed, dead-lettered or deleted, whatever moves,
\* unless a process dies (see SkipMeansProcessing for what a dispatcher's death does).
PublishedIsAttempted ==
    \A e \in Events :
        (\E i \in 1..Len(log) : log[i] = e) ~> (Attempted(e) \/ crashes > 0)
==============================================================================
