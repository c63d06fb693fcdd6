----------------------- MODULE DeliveryPipeline_proofs -----------------------
(***************************************************************************)
(* The inductive invariant PipelineInv of DeliveryPipeline, for any number *)
(* of events, endpoints, dispatchers and schedulers, any MaxAttempts, any  *)
(* faults and any bounds.                                                  *)
(*                                                                         *)
(* Part 1 shows that each operation of a component keeps that component's  *)
(* type; part 2 that each conjunct of the invariant is kept by each step;  *)
(* part 3 draws the theorems.                                              *)
(***************************************************************************)
EXTENDS DeliveryPipeline, TLAPS

(***************************************************************************)
(* Part 1: types.                                                          *)
(***************************************************************************)

\* Every statement of the repositories leaves well-typed tables.
LEMMA StoreOperationsType ==
    ASSUME StoreTypeOK
    PROVE  /\ UNCHANGED storeVars => StoreTypeOK'
           /\ \A e \in Events :
                 /\ InsertEvent(e) \/ InsertEventFails(e) => StoreTypeOK'
                 /\ RetryComesDue(e) \/ InsertAttempt(e) => StoreTypeOK'
                 /\ \A s \in Statuses : UpdateStatus(e, s) => StoreTypeOK'
                 /\ \A n \in Nat : UpdateForRetry(e, n) => StoreTypeOK'
                 /\ \A r \in Reasons : InsertDeadLetter(e, r) => StoreTypeOK'
           /\ \A p \in Endpoints : UpdateEndpoint(p) \/ DeleteEndpoint(p) => StoreTypeOK'
<1>. USE DEF StoreTypeOK, storeVars, eventRow
<1>1. ASSUME UNCHANGED storeVars PROVE StoreTypeOK'
  BY <1>1
<1>2. ASSUME NEW e \in Events, InsertEvent(e) \/ InsertEventFails(e) PROVE StoreTypeOK'
  <2>1. CASE InsertEvent(e)
    BY <2>1 DEF InsertEvent, Statuses
  <2>2. CASE InsertEventFails(e)
    BY <2>2 DEF InsertEventFails
  <2>. QED  BY <1>2, <2>1, <2>2
<1>3. ASSUME NEW e \in Events, RetryComesDue(e) \/ InsertAttempt(e) PROVE StoreTypeOK'
  <2>1. CASE RetryComesDue(e)
    BY <2>1 DEF RetryComesDue
  <2>2. CASE InsertAttempt(e)
    BY <2>2 DEF InsertAttempt, AuditMayFail, eventRow
  <2>. QED  BY <1>3, <2>1, <2>2
<1>4. ASSUME NEW e \in Events, NEW s \in Statuses, UpdateStatus(e, s) PROVE StoreTypeOK'
  BY <1>4 DEF UpdateStatus
<1>5. ASSUME NEW e \in Events, NEW n \in Nat, UpdateForRetry(e, n) PROVE StoreTypeOK'
  BY <1>5 DEF UpdateForRetry, Statuses
<1>6. ASSUME NEW e \in Events, NEW r \in Reasons, InsertDeadLetter(e, r) PROVE StoreTypeOK'
  <2>1. deadLetters' \in [Events -> [Reasons -> Nat]]
    <3>1. deadLetters' \in {deadLetters, [deadLetters EXCEPT ![e][r] = @ + 1]}
      BY <1>6 DEF InsertDeadLetter
    <3>2. [deadLetters[e] EXCEPT ![r] = @ + 1] \in [Reasons -> Nat]
      OBVIOUS
    <3>. QED  BY <3>1, <3>2
  <2>. QED  BY <1>6, <2>1 DEF InsertDeadLetter
<1>7. ASSUME NEW p \in Endpoints, UpdateEndpoint(p) \/ DeleteEndpoint(p) PROVE StoreTypeOK'
  <2>1. CASE UpdateEndpoint(p)
    BY <2>1 DEF UpdateEndpoint, EndpointStates
  <2>2. CASE DeleteEndpoint(p)
    BY <2>2 DEF DeleteEndpoint, EndpointStates
  <2>. QED  BY <1>7, <2>1, <2>2
<1>. QED  BY <1>1, <1>2, <1>3, <1>4, <1>5, <1>6, <1>7

\* The log only grows, and every operation leaves a well-typed topic.
LEMMA TopicOperationsType ==
    ASSUME TopicTypeOK
    PROVE  /\ UNCHANGED topicVars => TopicTypeOK'
           /\ \A e \in Events : Publish(e) \/ PublishFails(e) =>
                 TopicTypeOK' /\ Len(log) <= Len(log')
           /\ \A d \in Dispatchers : AssignTo(d) => TopicTypeOK'
           /\ \A d \in Dispatchers : \A n \in 0..Len(log) : CommitOffset(d, n) => TopicTypeOK'
<1>. USE DEF TopicTypeOK
<1>1. ASSUME UNCHANGED topicVars PROVE TopicTypeOK'
  BY <1>1 DEF topicVars
<1>2. ASSUME NEW e \in Events, Publish(e) \/ PublishFails(e)
      PROVE  TopicTypeOK' /\ Len(log) <= Len(log')
  <2>1. log' \in Seq(Events) /\ Len(log') \in {Len(log), Len(log) + 1, Len(log) + 2}
    <3>1. log \in Seq(Events) /\ Len(log) \in Nat
      OBVIOUS
    <3>2. Append(log, e) \in Seq(Events) /\ Len(Append(log, e)) = Len(log) + 1
      BY <3>1
    <3>3. /\ Append(Append(log, e), e) \in Seq(Events)
          /\ Len(Append(Append(log, e), e)) = Len(log) + 2
      <4>. DEFINE once == Append(log, e)
      <4>1. once \in Seq(Events) /\ Len(once) = Len(log) + 1
        BY <3>2
      <4>. HIDE DEF once
      <4>2. Append(once, e) \in Seq(Events) /\ Len(Append(once, e)) = Len(once) + 1
        BY <4>1
      <4>3. Len(Append(once, e)) = Len(log) + 2
        BY <3>1, <4>1, <4>2
      <4>. QED  BY <4>2, <4>3 DEF once
    <3>4. log' = log \/ log' = Append(log, e) \/ log' = Append(Append(log, e), e)
      BY <1>2 DEF Publish, PublishFails
    <3>. QED  BY ONLY <3>1, <3>2, <3>3, <3>4
  <2>2. UNCHANGED <<committed, owner, position>>
    BY <1>2 DEF Publish, PublishFails
  <2>3. Len(log) \in Nat /\ Len(log') \in Nat /\ Len(log) <= Len(log')
    BY <2>1
  <2>4. \A i \in 0..Len(log) : i \in 0..Len(log')
    BY <2>3
  <2>. QED  BY <2>1, <2>2, <2>3, <2>4
<1>3. ASSUME NEW d \in Dispatchers, AssignTo(d) PROVE TopicTypeOK'
  BY <1>3 DEF AssignTo
<1>4. ASSUME NEW d \in Dispatchers, NEW n \in 0..Len(log), CommitOffset(d, n) PROVE TopicTypeOK'
  BY <1>4 DEF CommitOffset
<1>. QED  BY <1>1, <1>2, <1>3, <1>4

\* Every command leaves well-typed keys.
LEMMA RedisOperationsType ==
    ASSUME RedisTypeOK
    PROVE  /\ UNCHANGED redisVars => RedisTypeOK'
           /\ \A d \in Dispatchers : \A e \in Events :
                 AcquireLock(d, e) \/ AcquireRefused(d, e) => RedisTypeOK'
           /\ \A e \in Events : DeleteLock(e) \/ ExpireLock(e) => RedisTypeOK'
           /\ \A p \in Endpoints : \A flag \in {"active", "inactive"} :
                 SetCache(p, flag) \/ ExpireCache(p) => RedisTypeOK'
BY DEF RedisTypeOK, redisVars, AcquireLock, AcquireRefused, DeleteLock, ExpireLock,
       SetCache, ExpireCache

(***************************************************************************)
(* Part 2: what one step of a dispatcher does to each component.           *)
(***************************************************************************)

\* Whoever holds a message has an event for a job.
LEMMA JobOfHolder ==
    ASSUME TypeOK, NEW d \in Dispatchers, HoldsMessage(d)
    PROVE  job[d] \in Events
BY DEF TypeOK, DispatcherTypeOK, HoldsMessage

\* The tables: one statement about the event at hand, or none.
LEMMA DispatcherStore ==
    ASSUME PipelineInv, NEW d \in Dispatchers, DispatcherStep(d)
    PROVE  \/ UNCHANGED storeVars
           \/ /\ job[d] \in Events
              /\ \/ InsertAttempt(job[d])
                 \/ \E s \in {"delivered", "failed"} : UpdateStatus(job[d], s)
                 \/ /\ pc[d] = "resolve" /\ outcome[d] = "failed"
                    /\ UpdateForRetry(job[d], snap[d] + 1)
                 \/ /\ pc[d] = "deadLetter" /\ outcome[d] \in Reasons
                    /\ InsertDeadLetter(job[d], outcome[d])
<1>. USE DEF PipelineInv, HoldsMessage
<1>1. CASE \/ FetchMessage(d) \/ GetEvent(d) \/ Acquire(d) \/ BreakerAllow(d)
           \/ GetCached(d) \/ GetEndpoint(d) \/ PutCached(d) \/ Deliver(d)
           \/ ReleaseGet(d) \/ ReleaseDelete(d) \/ CommitMessage(d) \/ StartDispatcher(d)
  BY <1>1 DEF FetchMessage, GetEvent, Acquire, BreakerAllow, GetCached, GetEndpoint, PutCached,
              Deliver, ReleaseGet, ReleaseDelete, CommitMessage, StartDispatcher
<1>2. CASE RecordAttempt(d) \/ ResolveAttempt(d) \/ CreateDeadLetter(d) \/ MarkFailed(d)
  <2>1. job[d] \in Events
    BY <1>2, JobOfHolder
       DEF RecordAttempt, ResolveAttempt, CreateDeadLetter, MarkFailed
  <2>2. CASE RecordAttempt(d)
    BY <2>1, <2>2 DEF RecordAttempt
  <2>3. CASE ResolveAttempt(d)
    BY <2>1, <2>3 DEF ResolveAttempt
  <2>4. CASE CreateDeadLetter(d)
    BY <2>1, <2>4 DEF CreateDeadLetter, LocalsAreSet
  <2>5. CASE MarkFailed(d)
    BY <2>1, <2>5 DEF MarkFailed
  <2>. QED  BY <1>2, <2>2, <2>3, <2>4, <2>5
<1>. QED  BY <1>1, <1>2 DEF DispatcherStep

\* The keys.
LEMMA DispatcherRedis ==
    ASSUME PipelineInv, NEW d \in Dispatchers, DispatcherStep(d)
    PROVE  \/ UNCHANGED redisVars
           \/ /\ job[d] \in Events
              /\ \/ /\ pc[d] = "acquire"
                    /\ \/ AcquireLock(d, job[d])
                       \/ AcquireRefused(d, job[d])
                 \/ pc[d] = "delete" /\ DeleteLock(job[d])
                 \/ \E flag \in {"active", "inactive"} : SetCache(EndpointOf[job[d]], flag)
<1>. USE DEF PipelineInv, HoldsMessage
<1>1. CASE \/ FetchMessage(d) \/ GetEvent(d) \/ BreakerAllow(d)
           \/ GetCached(d) \/ GetEndpoint(d) \/ Deliver(d)
           \/ RecordAttempt(d) \/ ResolveAttempt(d) \/ CreateDeadLetter(d) \/ MarkFailed(d)
           \/ ReleaseGet(d) \/ CommitMessage(d) \/ StartDispatcher(d)
  BY <1>1 DEF FetchMessage, GetEvent, BreakerAllow, GetCached, GetEndpoint, Deliver,
              RecordAttempt, ResolveAttempt, CreateDeadLetter, MarkFailed,
              ReleaseGet, CommitMessage, StartDispatcher
<1>2. CASE Acquire(d) \/ ReleaseDelete(d) \/ PutCached(d)
  <2>1. job[d] \in Events
    BY <1>2, JobOfHolder DEF Acquire, ReleaseDelete, PutCached
  <2>2. CASE Acquire(d)
    BY <2>1, <2>2 DEF Acquire
  <2>3. CASE ReleaseDelete(d)
    BY <2>1, <2>3 DEF ReleaseDelete
  <2>4. CASE PutCached(d)
    BY <2>1, <2>4 DEF PutCached, LocalsAreSet
  <2>. QED  BY <1>2, <2>2, <2>3, <2>4
<1>. QED  BY <1>1, <1>2 DEF DispatcherStep

\* The topic: a message is fetched or an offset committed.
LEMMA DispatcherTopic ==
    ASSUME PipelineInv, NEW d \in Dispatchers, DispatcherStep(d)
    PROVE  \/ UNCHANGED topicVars
           \/ FetchMessage(d)
           \/ CommitMessage(d) /\ offset[d] \in 1..Len(log) /\ CommitOffset(d, offset[d])
<1>1. CASE FetchMessage(d)
  BY <1>1
<1>2. CASE CommitMessage(d)
  BY <1>2 DEF CommitMessage, PipelineInv, LocalsAreSet, HoldsMessage
<1>3. CASE \/ GetEvent(d) \/ Acquire(d) \/ BreakerAllow(d)
           \/ GetCached(d) \/ GetEndpoint(d) \/ PutCached(d) \/ Deliver(d)
           \/ RecordAttempt(d) \/ ResolveAttempt(d) \/ CreateDeadLetter(d) \/ MarkFailed(d)
           \/ ReleaseGet(d) \/ ReleaseDelete(d) \/ StartDispatcher(d)
  BY <1>3 DEF GetEvent, Acquire, BreakerAllow, GetCached, GetEndpoint, PutCached, Deliver,
              RecordAttempt, ResolveAttempt, CreateDeadLetter, MarkFailed,
              ReleaseGet, ReleaseDelete, StartDispatcher
<1>. QED  BY <1>1, <1>2, <1>3 DEF DispatcherStep

(***************************************************************************)
(* Part 3: every conjunct of PipelineInv is kept by every step.            *)
(***************************************************************************)

\* The dispatchers' variables stay well typed while others make the log grow.
LEMMA DispatcherTypeGrows ==
    ASSUME TopicTypeOK, TopicTypeOK', DispatcherTypeOK, UNCHANGED dispatcherVars,
           Len(log) <= Len(log')
    PROVE  DispatcherTypeOK'
<1>1. Len(log) \in Nat /\ Len(log') \in Nat
  BY DEF TopicTypeOK
<1>2. (\A i \in 0..Len(log) : i \in 0..Len(log')) /\ (\A i \in 1..Len(log) : i \in 1..Len(log'))
  BY <1>1
<1>3. offset' \in [Dispatchers -> 0..Len(log')] /\ processed' \subseteq 1..Len(log')
  BY <1>2 DEF DispatcherTypeOK, dispatcherVars, jobVars, historyVars
<1>. QED  BY <1>3 DEF DispatcherTypeOK, dispatcherVars, jobVars, historyVars

\* A step of EventService.Create, or its crash, keeps every variable in its type.
LEMMA IntakeKeepsTypes ==
    ASSUME PipelineInv, NEW e \in Events, IntakeStep(e) \/ IntakeCrash(e)
    PROVE  TypeOK'
<1>. USE DEF PipelineInv, TypeOK
<1>1. UNCHANGED <<redisVars, schedulerVars, dispatcherVars, rebalances, edits>>
  BY DEF IntakeStep, IntakeCrash, budgetVars, Crash
<1>2. crashes' \in 0..MaxCrashes
  BY PipelineAssumption DEF IntakeStep, IntakeCrash, budgetVars, Crash
<1>3. IntakeTypeOK'
  BY DEF IntakeStep, IntakeCrash, AcceptRequest, RejectRequest, CreateEvent, PublishCreated,
         MarkCreatedQueued, AbandonRequest, Stage, IntakeTypeOK, IntakeStages
<1>4. StoreTypeOK'
  <2>1. \/ UNCHANGED storeVars \/ InsertEvent(e) \/ InsertEventFails(e)
        \/ UpdateStatus(e, "queued")
    BY DEF IntakeStep, IntakeCrash, AcceptRequest, RejectRequest, CreateEvent, PublishCreated,
           MarkCreatedQueued, AbandonRequest
  <2>. QED  BY <2>1, StoreOperationsType DEF Statuses
<1>5. TopicTypeOK' /\ Len(log) <= Len(log')
  <2>1. UNCHANGED topicVars \/ Publish(e) \/ PublishFails(e)
    BY DEF IntakeStep, IntakeCrash, AcceptRequest, RejectRequest, CreateEvent, PublishCreated,
           MarkCreatedQueued, AbandonRequest
  <2>2. UNCHANGED topicVars => Len(log) <= Len(log')
    BY DEF topicVars, TopicTypeOK
  <2>. QED  BY <2>1, <2>2, TopicOperationsType
<1>6. RedisTypeOK'
  BY <1>1, RedisOperationsType
<1>7. SchedulerTypeOK'
  BY <1>1 DEF schedulerVars, SchedulerTypeOK
<1>8. DispatcherTypeOK'
  BY <1>1, <1>5, DispatcherTypeGrows
<1>. QED  BY <1>1, <1>2, <1>3, <1>4, <1>5, <1>6, <1>7, <1>8

\* A step of a scheduler, or its restart, keeps every variable in its type.
LEMMA SchedulerKeepsTypes ==
    ASSUME PipelineInv, NEW s \in Schedulers, SchedulerStep(s) \/ SchedulerCrash(s)
    PROVE  TypeOK'
<1>. USE DEF PipelineInv, TypeOK
<1>1. UNCHANGED <<redisVars, intake, dispatcherVars, rebalances, edits>>
  BY DEF SchedulerStep, SchedulerCrash, budgetVars, Crash
<1>2. crashes' \in 0..MaxCrashes
  BY PipelineAssumption DEF SchedulerStep, SchedulerCrash, budgetVars, Crash
<1>3. SchedulerTypeOK'
  <2>. USE DEF SchedulerTypeOK
  <2>1. CASE FindRetryable(s)
    BY <2>1 DEF FindRetryable, Selectable, Retryable
  <2>2. CASE Republish(s)
    BY <2>2 DEF Republish
  <2>3. CASE MarkRetryQueued(s) \/ RestartScheduler(s)
    BY <2>3 DEF MarkRetryQueued, RestartScheduler
  <2>. QED  BY <2>1, <2>2, <2>3 DEF SchedulerStep, SchedulerCrash
<1>4. StoreTypeOK'
  <2>1. UNCHANGED storeVars \/ \E e \in Events : UpdateStatus(e, "queued")
    BY DEF SchedulerStep, SchedulerCrash, FindRetryable, Republish, MarkRetryQueued,
           RestartScheduler, SchedulerTypeOK
  <2>. QED  BY <2>1, StoreOperationsType DEF Statuses
<1>5. TopicTypeOK' /\ Len(log) <= Len(log')
  <2>1. UNCHANGED topicVars \/ \E e \in Events : Publish(e) \/ PublishFails(e)
    BY DEF SchedulerStep, SchedulerCrash, FindRetryable, Republish, MarkRetryQueued,
           RestartScheduler, SchedulerTypeOK
  <2>2. UNCHANGED topicVars => Len(log) <= Len(log')
    BY DEF topicVars, TopicTypeOK
  <2>. QED  BY <2>1, <2>2, TopicOperationsType
<1>6. RedisTypeOK'
  BY <1>1, RedisOperationsType
<1>7. IntakeTypeOK'
  BY <1>1 DEF IntakeTypeOK
<1>8. DispatcherTypeOK'
  BY <1>1, <1>5, DispatcherTypeGrows
<1>. QED  BY <1>1, <1>2, <1>3, <1>4, <1>5, <1>6, <1>7, <1>8

\* The local variables of a dispatcher that takes a step.
LEMMA DispatcherLocalsType ==
    ASSUME PipelineInv, NEW d \in Dispatchers, DispatcherStep(d) \/ StopDispatcher(d),
           Len(log') = Len(log)
    PROVE  DispatcherTypeOK'
<1>. USE DEF PipelineInv, TypeOK, DispatcherTypeOK
<1>. DEFINE Busy      == Calls \ {"fetch"}
            InMessage == HoldsMessage(d) /\ \E call \in Busy : Goto(d, call) /\ UNCHANGED job
            Locals    == /\ offset' \in [Dispatchers -> 0..Len(log)]
                         /\ snap' \in [Dispatchers -> Nat]
                         /\ outcome' \in [Dispatchers -> Outcomes]
            History   == /\ processed' \subseteq 1..Len(log)
                         /\ acked' \in [Events -> Nat]
                         /\ refused' \in [Events -> Nat]
<1>1. ASSUME InMessage, Locals, History PROVE DispatcherTypeOK'
  <2>1. PICK call \in Busy : Goto(d, call) /\ UNCHANGED job
    BY <1>1
  <2>2. call \in Calls /\ call \notin {"fetch", "down"}
    BY DEF Calls, LockedCalls
  <2>3. pc' = [pc EXCEPT ![d] = call] /\ job' = job
    BY <2>1 DEF Goto
  <2>4. pc[d] \notin {"fetch", "down"}
    BY <1>1 DEF HoldsMessage
  <2>5. pc' \in [Dispatchers -> Calls \cup {"down"}] /\ job' \in [Dispatchers -> Events \cup {NoEvent}]
    BY <2>2, <2>3
  <2>6. \A f \in Dispatchers : job'[f] = NoEvent <=> pc'[f] \in {"fetch", "down"}
    BY <2>2, <2>3, <2>4
  <2>. QED  BY <1>1, <2>5, <2>6
<1>2. ASSUME Return(d), HoldsMessage(d) PROVE InMessage /\ Locals /\ History
  <2>1. offset[d] \in 1..Len(log)
    BY <1>2 DEF LocalsAreSet
  <2>2. Locals /\ History
    BY <1>2, <2>1 DEF Return, jobVars
  <2>3. InMessage
    BY <1>2 DEF Return, jobVars, Calls, LockedCalls
  <2>. QED  BY <2>2, <2>3
<1>3. ASSUME NEW call \in Busy, Goto(d, call), HoldsMessage(d), UNCHANGED <<jobVars, historyVars>>,
             UNCHANGED outcome \/ \E res \in Outcomes : Result(d, res)
      PROVE  InMessage /\ Locals /\ History
  BY <1>3 DEF Result, jobVars, historyVars
<1>4. CASE FetchMessage(d)
  <2>1. log[position[d] + 1] \in Events /\ position[d] + 1 \in 0..Len(log)
    BY <1>4 DEF FetchMessage, TopicTypeOK
  <2>. QED  BY <1>4, <2>1, StoreAssumption
            DEF FetchMessage, Goto, Calls, LockedCalls, historyVars
<1>5. CASE GetEvent(d)
  <2>1. HoldsMessage(d) /\ job[d] \in Events
    BY <1>5, JobOfHolder DEF GetEvent, HoldsMessage
  <2>2. CASE Return(d)
    BY <1>1, <1>2, <2>1, <2>2
  <2>3. CASE Goto(d, "acquire") /\ snap' = [snap EXCEPT ![d] = attemptCount[job[d]]]
             /\ UNCHANGED <<job, offset, outcome, historyVars>>
    <3>1. InMessage
      BY <2>1, <2>3 DEF Calls
    <3>2. Locals /\ History
      BY <2>1, <2>3 DEF StoreTypeOK, historyVars
    <3>. QED  BY <1>1, <3>1, <3>2
  <2>. QED  BY <1>5, <2>2, <2>3 DEF GetEvent
<1>6. CASE Acquire(d) \/ ReleaseGet(d) \/ ReleaseDelete(d)
  <2>1. HoldsMessage(d)
    BY <1>6 DEF Acquire, ReleaseGet, ReleaseDelete, HoldsMessage
  <2>2. CASE Return(d)
    BY <1>1, <1>2, <2>1, <2>2
  <2>3. CASE ~Return(d)
    <3>1. /\ Goto(d, "allow") \/ Goto(d, "delete")
          /\ UNCHANGED <<jobVars, outcome, historyVars>>
      BY <1>6, <2>3 DEF Acquire, ReleaseGet, ReleaseDelete
    <3>2. "allow" \in Busy /\ "delete" \in Busy
      BY DEF Calls, LockedCalls
    <3>. QED  BY <1>1, <1>3, <2>1, <3>1, <3>2
  <2>. QED  BY <2>2, <2>3
<1>7. CASE BreakerAllow(d) \/ PutCached(d) \/ RecordAttempt(d) \/ ResolveAttempt(d)
           \/ CreateDeadLetter(d) \/ MarkFailed(d)
  <2>1. HoldsMessage(d) /\ UNCHANGED <<jobVars, outcome, historyVars>>
    BY <1>7 DEF BreakerAllow, PutCached, RecordAttempt, ResolveAttempt, CreateDeadLetter,
                MarkFailed, HoldsMessage
  <2>2. \E call \in Busy : Goto(d, call)
    BY <1>7 DEF BreakerAllow, PutCached, RecordAttempt, ResolveAttempt, CreateDeadLetter,
                MarkFailed, Calls, LockedCalls
  <2>. QED  BY <1>1, <1>3, <2>1, <2>2
<1>8. CASE GetCached(d) \/ GetEndpoint(d)
  <2>1. HoldsMessage(d) /\ UNCHANGED <<jobVars, historyVars>>
    BY <1>8 DEF GetCached, GetEndpoint, HoldsMessage
  <2>2. endpoint[EndpointOf[job[d]]] \in EndpointStates
    BY <2>1, JobOfHolder, StoreAssumption DEF StoreTypeOK
  <2>3. \E call \in Busy : Goto(d, call)
    BY <1>8 DEF GetCached, GetEndpoint, Found, Calls, LockedCalls
  <2>4. UNCHANGED outcome \/ \E res \in Outcomes : Result(d, res)
    BY <1>8, <2>2 DEF GetCached, GetEndpoint, Found, Outcomes, Reasons, EndpointStates
  <2>. QED  BY <1>1, <1>3, <2>1, <2>3, <2>4
<1>9. CASE Deliver(d)
  <2>1. HoldsMessage(d) /\ job[d] \in Events
    BY <1>9, JobOfHolder DEF Deliver, HoldsMessage
  <2>2. InMessage
    BY <1>9, <2>1 DEF Deliver, jobVars, Calls, LockedCalls
  <2>3. Locals
    BY <1>9 DEF Deliver, Result, Outcomes, Reasons, jobVars
  <2>4. History
    <3>1. /\ acked' \in {acked, [acked EXCEPT ![job[d]] = @ + 1]}
          /\ refused' \in {refused, [refused EXCEPT ![job[d]] = @ + 1]}
          /\ UNCHANGED processed
      BY <1>9 DEF Deliver
    <3>2. /\ [acked EXCEPT ![job[d]] = @ + 1] \in [Events -> Nat]
          /\ [refused EXCEPT ![job[d]] = @ + 1] \in [Events -> Nat]
      BY <2>1
    <3>. QED  BY <3>1, <3>2
  <2>. QED  BY <1>1, <2>2, <2>3, <2>4
<1>10. CASE CommitMessage(d) \/ StopDispatcher(d)
  <2>1. Forget(d) /\ (Goto(d, "fetch") \/ Goto(d, "down"))
    BY <1>10 DEF CommitMessage, StopDispatcher
  <2>2. Locals /\ History
    BY <2>1 DEF Forget, Outcomes, historyVars
  <2>. QED  BY <2>1, <2>2, StoreAssumption DEF Forget, Goto, Calls, LockedCalls
<1>11. CASE StartDispatcher(d)
  BY <1>11 DEF StartDispatcher, Goto, Calls, jobVars, historyVars
<1>. QED  BY <1>4, <1>5, <1>6, <1>7, <1>8, <1>9, <1>10, <1>11 DEF DispatcherStep

\* A step of a dispatcher, or its crash, keeps every variable in its type.
LEMMA DispatcherKeepsTypes ==
    ASSUME PipelineInv, NEW d \in Dispatchers, DispatcherStep(d) \/ DispatcherCrash(d)
    PROVE  TypeOK'
<1>. USE DEF PipelineInv, TypeOK
<1>1. UNCHANGED <<intake, schedulerVars, rebalances, edits>>
  BY DEF DispatcherStep, DispatcherCrash, budgetVars, Crash
<1>2. IntakeTypeOK' /\ SchedulerTypeOK' /\ rebalances' \in 0..MaxRebalances /\ edits' \in 0..MaxEdits
  BY <1>1 DEF IntakeTypeOK, SchedulerTypeOK, schedulerVars
<1>3. crashes' \in 0..MaxCrashes
  BY PipelineAssumption DEF DispatcherStep, DispatcherCrash, budgetVars, Crash
<1>4. CASE DispatcherStep(d)
  <2>1. StoreTypeOK'
    <3>1. snap[d] + 1 \in Nat
      BY DEF DispatcherTypeOK
    <3>2. {"delivered", "failed"} \subseteq Statuses
      BY DEF Statuses, Resolved
    <3>. QED  BY <1>4, <3>1, <3>2, DispatcherStore, StoreOperationsType
  <2>2. RedisTypeOK'
    BY <1>4, DispatcherRedis, RedisOperationsType, StoreAssumption
  <2>3. TopicTypeOK' /\ log' = log
    <3>1. CASE UNCHANGED topicVars
      BY <3>1, TopicOperationsType DEF topicVars
    <3>2. CASE FetchMessage(d)
      BY <3>2 DEF FetchMessage, TopicTypeOK
    <3>3. CASE offset[d] \in 1..Len(log) /\ CommitOffset(d, offset[d])
      BY <3>3, TopicOperationsType DEF CommitOffset
    <3>. QED  BY <1>4, <3>1, <3>2, <3>3, DispatcherTopic
  <2>4. DispatcherTypeOK'
    BY <1>4, <2>3, DispatcherLocalsType
  <2>. QED  BY <1>2, <1>3, <2>1, <2>2, <2>3, <2>4
<1>5. CASE DispatcherCrash(d)
  <2>. USE <1>5 DEF DispatcherCrash, StopDispatcher
  <2>1. StoreTypeOK' /\ RedisTypeOK'
    BY StoreOperationsType, RedisOperationsType
  <2>2. TopicTypeOK' /\ log' = log
    BY DEF TopicTypeOK
  <2>3. DispatcherTypeOK'
    BY <2>2, DispatcherLocalsType
  <2>. QED  BY <1>2, <1>3, <2>1, <2>2, <2>3
<1>. QED  BY <1>4, <1>5

\* Assignments, rebalances, timeouts and edits keep every variable in its type.
LEMMA SurroundingsKeepTypes ==
    ASSUME PipelineInv,
           \/ \E e \in Events : RetryDue(e) \/ LockTimeout(e)
           \/ \E d \in Dispatchers : Assign(d) \/ Rebalance(d)
           \/ \E p \in Endpoints : CacheTimeout(p) \/ Edit(p)
    PROVE  TypeOK'
<1>. USE PipelineAssumption
     DEF PipelineInv, TypeOK, budgetVars
<1>1. UNCHANGED <<intake, schedulerVars, dispatcherVars, log>>
  BY DEF RetryDue, LockTimeout, Assign, Rebalance, CacheTimeout, Edit, topicVars, AssignTo
<1>2. IntakeTypeOK' /\ SchedulerTypeOK' /\ DispatcherTypeOK'
  BY <1>1 DEF IntakeTypeOK, SchedulerTypeOK, schedulerVars, DispatcherTypeOK, dispatcherVars,
              jobVars, historyVars
<1>3. ASSUME NEW e \in Events, RetryDue(e) PROVE TypeOK'
  BY <1>2, <1>3, StoreOperationsType, TopicOperationsType, RedisOperationsType DEF RetryDue
<1>4. ASSUME NEW e \in Events, LockTimeout(e) PROVE TypeOK'
  BY <1>2, <1>4, StoreOperationsType, TopicOperationsType, RedisOperationsType DEF LockTimeout
<1>5. ASSUME NEW d \in Dispatchers, Assign(d) PROVE TypeOK'
  BY <1>2, <1>5, StoreOperationsType, TopicOperationsType, RedisOperationsType DEF Assign
<1>6. ASSUME NEW d \in Dispatchers, Rebalance(d) PROVE TypeOK'
  BY <1>2, <1>6, StoreOperationsType, TopicOperationsType, RedisOperationsType DEF Rebalance
<1>7. ASSUME NEW p \in Endpoints, CacheTimeout(p) PROVE TypeOK'
  BY <1>2, <1>7, StoreOperationsType, TopicOperationsType, RedisOperationsType DEF CacheTimeout
<1>8. ASSUME NEW p \in Endpoints, Edit(p) PROVE TypeOK'
  BY <1>2, <1>8, StoreOperationsType, TopicOperationsType, RedisOperationsType DEF Edit
<1>. QED  BY <1>3, <1>4, <1>5, <1>6, <1>7, <1>8

\* TypeOK is kept.
LEMMA StepKeepsTypes ==
    ASSUME PipelineInv, [Next]_vars
    PROVE  TypeOK'
<1>1. CASE UNCHANGED vars
  <2>1. UNCHANGED <<storeVars, topicVars, redisVars, log>>
    BY <1>1 DEF vars, topicVars
  <2>2. StoreTypeOK' /\ TopicTypeOK' /\ RedisTypeOK'
    BY <2>1, StoreOperationsType, TopicOperationsType, RedisOperationsType
       DEF PipelineInv, TypeOK
  <2>. QED  BY <1>1, <2>1, <2>2
            DEF PipelineInv, TypeOK, vars, IntakeTypeOK, SchedulerTypeOK, schedulerVars,
                DispatcherTypeOK, dispatcherVars, jobVars, historyVars, budgetVars
<1>2. CASE Next
  BY <1>2, IntakeKeepsTypes, SchedulerKeepsTypes, DispatcherKeepsTypes, SurroundingsKeepTypes
     DEF Next
<1>. QED  BY <1>1, <1>2

\* A dispatcher's step leaves the other dispatchers' variables alone, forgets nothing
\* that was processed or refused, and rewrites neither the log nor the bound.
LEMMA DispatcherLocality ==
    ASSUME PipelineInv, NEW d \in Dispatchers, DispatcherStep(d) \/ StopDispatcher(d)
    PROVE  /\ \A f \in Dispatchers \ {d} :
                 /\ pc'[f] = pc[f] /\ job'[f] = job[f] /\ offset'[f] = offset[f]
                 /\ snap'[f] = snap[f] /\ outcome'[f] = outcome[f]
                 /\ position'[f] = position[f]
           /\ processed \subseteq processed'
           /\ \A e \in Events : refused[e] <= refused'[e]
           /\ log' = log
<1>. USE DEF PipelineInv, TypeOK, TopicTypeOK, DispatcherTypeOK, Goto, jobVars, historyVars
<1>0. ASSUME /\ \A f \in Dispatchers \ {d} : pc'[f] = pc[f]
             /\ UNCHANGED <<jobVars, outcome, position, refused, log>>
             /\ processed \subseteq processed'
      PROVE  /\ \A f \in Dispatchers \ {d} :
                   /\ pc'[f] = pc[f] /\ job'[f] = job[f] /\ offset'[f] = offset[f]
                   /\ snap'[f] = snap[f] /\ outcome'[f] = outcome[f]
                   /\ position'[f] = position[f]
             /\ processed \subseteq processed'
             /\ \A e \in Events : refused[e] <= refused'[e]
             /\ log' = log
  <2>1. \A e \in Events : refused[e] \in Nat
    OBVIOUS
  <2>. QED  BY ONLY <1>0, <2>1 DEF jobVars
<1>1. CASE FetchMessage(d)
  <2>1. \A f \in Dispatchers \ {d} : pc'[f] = pc[f]
    BY <1>1 DEF FetchMessage
  <2>2. \A f \in Dispatchers \ {d} : job'[f] = job[f]
    BY <1>1 DEF FetchMessage
  <2>3. \A f \in Dispatchers \ {d} : offset'[f] = offset[f] /\ position'[f] = position[f]
    BY <1>1 DEF FetchMessage
  <2>4. snap' = snap /\ outcome' = outcome /\ processed' = processed /\ log' = log
    BY <1>1 DEF FetchMessage
  <2>5. \A e \in Events : refused[e] <= refused'[e]
    <3>1. refused' = refused
      BY <1>1 DEF FetchMessage
    <3>2. \A e \in Events : refused[e] \in Nat
      OBVIOUS
    <3>. QED  BY ONLY <3>1, <3>2
  <2>. QED  BY ONLY <2>1, <2>2, <2>3, <2>4, <2>5
<1>2. CASE GetEvent(d)
  <2>1. /\ UNCHANGED <<job, offset, outcome, position, refused, log>>
        /\ \A f \in Dispatchers \ {d} : snap'[f] = snap[f]
    BY <1>2 DEF GetEvent, Return, topicVars
  <2>2. processed \subseteq processed'
    BY <1>2 DEF GetEvent, Return
  <2>3. \A f \in Dispatchers \ {d} : pc'[f] = pc[f]
    BY <1>2 DEF GetEvent, Return
  <2>4. \A e \in Events : refused[e] \in Nat
    OBVIOUS
  <2>. QED  BY ONLY <2>1, <2>2, <2>3, <2>4
<1>3. CASE Acquire(d) \/ ReleaseGet(d) \/ ReleaseDelete(d)
  <2>1. UNCHANGED topicVars /\ (Goto(d, "allow") \/ Goto(d, "delete") \/ Goto(d, "commit"))
    BY <1>3 DEF Acquire, ReleaseGet, ReleaseDelete, Return
  <2>2. UNCHANGED <<jobVars, outcome, acked, refused>>
    BY <1>3 DEF Acquire, ReleaseGet, ReleaseDelete, Return
  <2>3. processed \subseteq processed'
    BY <1>3 DEF Acquire, ReleaseGet, ReleaseDelete, Return
  <2>4. \A f \in Dispatchers \ {d} : pc'[f] = pc[f]
    BY <2>1
  <2>. QED  BY <1>0, <2>1, <2>2, <2>3, <2>4 DEF topicVars
<1>4. CASE BreakerAllow(d) \/ PutCached(d) \/ RecordAttempt(d) \/ ResolveAttempt(d)
           \/ CreateDeadLetter(d) \/ MarkFailed(d)
  <2>1. UNCHANGED <<topicVars, jobVars, outcome, historyVars>>
    BY <1>4 DEF BreakerAllow, PutCached, RecordAttempt, ResolveAttempt, CreateDeadLetter,
                MarkFailed
  <2>2. \E call : Goto(d, call)
    BY <1>4 DEF BreakerAllow, PutCached, RecordAttempt, ResolveAttempt, CreateDeadLetter,
                MarkFailed
  <2>3. \A f \in Dispatchers \ {d} : pc'[f] = pc[f]
    BY <2>2
  <2>. QED  BY <1>0, <2>1, <2>3 DEF topicVars
<1>5. CASE GetCached(d) \/ GetEndpoint(d)
  BY <1>5 DEF GetCached, GetEndpoint, Found, Result, topicVars
<1>6. CASE Deliver(d)
  <2>1. \A e \in Events : refused[e] <= refused'[e]
    <3>1. refused \in [Events -> Nat]
      OBVIOUS
    <3>2. CASE refused' = refused
      BY <3>1, <3>2
    <3>3. CASE refused' = [refused EXCEPT ![job[d]] = @ + 1]
      BY <3>1, <3>3
    <3>. QED  BY <1>6, <3>2, <3>3 DEF Deliver
  <2>. QED  BY <1>6, <2>1 DEF Deliver, Result, topicVars
<1>7. CASE CommitMessage(d) \/ StopDispatcher(d)
  BY <1>7 DEF CommitMessage, StopDispatcher, Forget, CommitOffset
<1>8. CASE StartDispatcher(d)
  BY <1>8 DEF StartDispatcher, topicVars
<1>. QED  BY <1>1, <1>2, <1>3, <1>4, <1>5, <1>6, <1>7, <1>8 DEF DispatcherStep

\* A step is a dispatcher's, or it leaves the dispatchers' variables alone; the log
\* never gets shorter.
LEMMA StepOfDispatcherOrNot ==
    ASSUME PipelineInv, [Next]_vars
    PROVE  \/ \E d \in Dispatchers : DispatcherStep(d) \/ DispatcherCrash(d)
           \/ UNCHANGED dispatcherVars /\ Len(log) <= Len(log')
<1>. USE DEF PipelineInv, TypeOK
<1>1. UNCHANGED log => Len(log) <= Len(log')
  BY DEF TopicTypeOK
<1>2. ASSUME NEW e \in Events, IntakeStep(e) \/ IntakeCrash(e)
      PROVE  UNCHANGED dispatcherVars /\ Len(log) <= Len(log')
  <2>1. UNCHANGED topicVars \/ Publish(e) \/ PublishFails(e)
    BY <1>2 DEF IntakeStep, IntakeCrash, AcceptRequest, RejectRequest, CreateEvent,
           PublishCreated, MarkCreatedQueued, AbandonRequest
  <2>. QED  BY <1>1, <1>2, <2>1, TopicOperationsType DEF IntakeStep, IntakeCrash, topicVars
<1>3. ASSUME NEW s \in Schedulers, SchedulerStep(s) \/ SchedulerCrash(s)
      PROVE  UNCHANGED dispatcherVars /\ Len(log) <= Len(log')
  <2>1. UNCHANGED topicVars \/ \E e \in Events : Publish(e) \/ PublishFails(e)
    BY <1>3 DEF SchedulerStep, SchedulerCrash, FindRetryable, Republish, MarkRetryQueued,
           RestartScheduler, SchedulerTypeOK
  <2>. QED  BY <1>1, <1>3, <2>1, TopicOperationsType DEF SchedulerStep, SchedulerCrash, topicVars
<1>4. ASSUME \/ \E e \in Events : RetryDue(e) \/ LockTimeout(e)
             \/ \E d \in Dispatchers : Assign(d) \/ Rebalance(d)
             \/ \E p \in Endpoints : CacheTimeout(p) \/ Edit(p)
             \/ UNCHANGED vars
      PROVE  UNCHANGED dispatcherVars /\ Len(log) <= Len(log')
  BY <1>1, <1>4
     DEF RetryDue, LockTimeout, Assign, Rebalance, CacheTimeout, Edit, topicVars, AssignTo, vars
<1>. QED  BY <1>2, <1>3, <1>4 DEF Next

\* LocalsAreSet is kept.
LEMMA StepKeepsLocalsAreSet ==
    ASSUME PipelineInv, TypeOK', [Next]_vars
    PROVE  LocalsAreSet'
<1>. USE DEF PipelineInv, LocalsAreSet, HoldsMessage
<1>1. ASSUME NEW d \in Dispatchers, DispatcherStep(d) \/ StopDispatcher(d)
      PROVE  LocalsAreSet'
  <2>. USE DEF TypeOK, DispatcherTypeOK, Goto
  <2>1. SUFFICES /\ pc'[d] \notin {"fetch", "down"} => offset'[d] \in 1..Len(log)
                 /\ pc'[d] = "cacheSet" => outcome'[d] \in {"active", "inactive"}
                 /\ pc'[d] = "deadLetter" => outcome'[d] \in Reasons
    <3>1. \A f \in Dispatchers \ {d} :
             pc'[f] = pc[f] /\ offset'[f] = offset[f] /\ outcome'[f] = outcome[f]
      BY <1>1, DispatcherLocality
    <3>2. log' = log
      BY <1>1, DispatcherLocality
    <3>. QED  BY <3>1, <3>2
  <2>2. CASE FetchMessage(d)
    <3>1. position[d] + 1 \in 1..Len(log)
      BY <2>2 DEF FetchMessage, TopicTypeOK
    <3>. QED  BY <2>2, <3>1 DEF FetchMessage
  <2>3. CASE GetEvent(d)
    BY <2>3 DEF GetEvent, Return, jobVars
  <2>4. CASE Acquire(d) \/ ReleaseGet(d) \/ ReleaseDelete(d)
    BY <2>4 DEF Acquire, ReleaseGet, ReleaseDelete, Return, jobVars
  <2>5. CASE BreakerAllow(d) \/ PutCached(d) \/ ResolveAttempt(d)
             \/ CreateDeadLetter(d) \/ MarkFailed(d)
    BY <2>5 DEF BreakerAllow, PutCached, ResolveAttempt, CreateDeadLetter, MarkFailed, jobVars,
                Reasons
  <2>6. CASE RecordAttempt(d)
    <3>1. UNCHANGED <<offset, outcome>> /\ pc[d] = "record"
      BY <2>6 DEF RecordAttempt, jobVars
    <3>2. (pc'[d] = "deadLetter" /\ outcome[d] = "failed") \/ pc'[d] = "resolve"
      BY <2>6 DEF RecordAttempt
    <3>. QED  BY <3>1, <3>2 DEF Reasons
  <2>7. CASE GetCached(d)
    BY <2>7 DEF GetCached, Found, Result, jobVars, Reasons
  <2>8. CASE GetEndpoint(d)
    <3>1. endpoint[EndpointOf[job[d]]] \in EndpointStates
      BY <2>8, JobOfHolder, StoreAssumption DEF GetEndpoint, StoreTypeOK
    <3>. QED  BY <2>8, <3>1 DEF GetEndpoint, Found, Result, jobVars, Reasons, EndpointStates
  <2>9. CASE Deliver(d)
    BY <2>9 DEF Deliver, Result, jobVars
  <2>10. CASE CommitMessage(d) \/ StopDispatcher(d) \/ StartDispatcher(d)
    BY <2>10 DEF CommitMessage, StopDispatcher, StartDispatcher
  <2>. QED  BY <1>1, <2>2, <2>3, <2>4, <2>5, <2>6, <2>7, <2>8, <2>9, <2>10 DEF DispatcherStep
<1>2. ASSUME UNCHANGED dispatcherVars, Len(log) <= Len(log') PROVE LocalsAreSet'
  <2>1. \A i \in 1..Len(log) : i \in 1..Len(log')
    BY <1>2 DEF TypeOK, TopicTypeOK
  <2>. QED  BY <1>2, <2>1 DEF dispatcherVars, jobVars
<1>. QED  BY <1>1, <1>2, StepOfDispatcherOrNot DEF DispatcherCrash

\* OutcomeIsFresh is kept: only Deliver writes the result of a POST, and Forget clears it
\* before the next message.
LEMMA StepKeepsOutcomeFresh ==
    ASSUME PipelineInv, [Next]_vars
    PROVE  OutcomeIsFresh'
<1>. USE DEF PipelineInv, OutcomeIsFresh
<1>1. ASSUME NEW d \in Dispatchers, DispatcherStep(d) \/ StopDispatcher(d)
      PROVE  OutcomeIsFresh'
  <2>1. /\ pc \in [Dispatchers -> Calls \cup {"down"}]
        /\ outcome \in [Dispatchers -> Outcomes]
    BY DEF TypeOK, DispatcherTypeOK
  <2>2. SUFFICES pc'[d] \in Unposted => outcome'[d] \notin {"ok", "failed"}
    <3>1. \A f \in Dispatchers \ {d} : pc'[f] = pc[f] /\ outcome'[f] = outcome[f]
      BY <1>1, DispatcherLocality
    <3>. QED  BY <3>1
  <2>3. CASE FetchMessage(d) \/ StartDispatcher(d) \/ BreakerAllow(d) \/ PutCached(d)
    <3>1. pc[d] \in Unposted /\ outcome' = outcome
      BY <2>3 DEF FetchMessage, StartDispatcher, BreakerAllow, PutCached, Unposted
    <3>. QED  BY <3>1
  <2>4. CASE GetEvent(d) \/ Acquire(d)
    <3>1. pc[d] \in Unposted /\ outcome' = outcome
      BY <2>4 DEF GetEvent, Acquire, Return, Unposted
    <3>. QED  BY <3>1
  <2>5. CASE ReleaseGet(d) \/ ReleaseDelete(d)
    <3>1. pc'[d] \in {"delete", "commit"}
      BY <2>1, <2>5 DEF ReleaseGet, ReleaseDelete, Return, Goto
    <3>. QED  BY <3>1 DEF Unposted
  <2>6. CASE RecordAttempt(d) \/ ResolveAttempt(d) \/ CreateDeadLetter(d) \/ MarkFailed(d)
    <3>1. pc'[d] \in {"deadLetter", "resolve", "release", "markFailed"}
      BY <2>1, <2>6 DEF RecordAttempt, ResolveAttempt, CreateDeadLetter, MarkFailed, Goto
    <3>. QED  BY <3>1 DEF Unposted
  <2>7. CASE Deliver(d)
    <3>1. pc'[d] = "record"
      BY <2>1, <2>7 DEF Deliver, Goto
    <3>. QED  BY <3>1 DEF Unposted
  <2>8. CASE GetCached(d)
    BY <2>1, <2>8 DEF GetCached, Found, Result, Unposted
  <2>9. CASE GetEndpoint(d)
    <3>1. endpoint[EndpointOf[job[d]]] \in EndpointStates
      BY <2>9, JobOfHolder, StoreAssumption DEF GetEndpoint, HoldsMessage, TypeOK, StoreTypeOK
    <3>. QED  BY <2>1, <2>9, <3>1 DEF GetEndpoint, Found, Result, Unposted, EndpointStates
  <2>10. CASE CommitMessage(d) \/ StopDispatcher(d)
    <3>1. outcome'[d] = "none"
      BY <2>1, <2>10 DEF CommitMessage, StopDispatcher, Forget
    <3>. QED  BY <3>1
  <2>. QED  BY <1>1, <2>3, <2>4, <2>5, <2>6, <2>7, <2>8, <2>9, <2>10 DEF DispatcherStep
<1>2. ASSUME UNCHANGED dispatcherVars PROVE OutcomeIsFresh'
  BY <1>2 DEF dispatcherVars
<1>. QED  BY <1>1, <1>2, StepOfDispatcherOrNot DEF DispatcherCrash

\* WorkersHoldLock is kept: the lock is set before the first locked call, and until the
\* last one nobody but its holder deletes it and the TTL does not run out.
LEMMA StepKeepsWorkersHoldLock ==
    ASSUME PipelineInv, [Next]_vars
    PROVE  WorkersHoldLock'
<1>. SUFFICES ASSUME ~SlowHolders
              PROVE  \A f \in Dispatchers : pc'[f] \in LockedCalls => lock'[job'[f]] = f
  BY DEF WorkersHoldLock
<1>. USE DEF PipelineInv, WorkersHoldLock
<1>1. ASSUME NEW d \in Dispatchers, DispatcherStep(d) \/ DispatcherCrash(d),
             NEW f \in Dispatchers, pc'[f] \in LockedCalls
      PROVE  lock'[job'[f]] = f
  <2>1. DispatcherStep(d) \/ StopDispatcher(d)
    BY <1>1 DEF DispatcherCrash
  <2>2. f # d => pc[f] \in LockedCalls /\ job'[f] = job[f] /\ job[f] \in Events
    BY <1>1, <2>1, DispatcherLocality, JobOfHolder DEF HoldsMessage, LockedCalls
  <2>3. CASE StopDispatcher(d)
    <3>1. f # d /\ UNCHANGED lock
      BY <1>1, <2>3 DEF StopDispatcher, Goto, LockedCalls, redisVars, TypeOK, DispatcherTypeOK
    <3>. QED  BY <2>2, <3>1
  <2>4. CASE DispatcherStep(d) /\ f # d
    <3>1. lock[job[f]] = f /\ f # NoOne
      BY <2>2, <2>4, TopicAssumption
    <3>2. CASE lock' = lock
      BY <2>2, <2>4, <3>1, <3>2
    <3>3. CASE /\ job[d] \in Events /\ lock[job[d]] = NoOne
               /\ lock' = [lock EXCEPT ![job[d]] = d]
      BY <2>2, <2>4, <3>1, <3>3 DEF TypeOK, RedisTypeOK
    <3>4. CASE job[d] \in Events /\ pc[d] = "delete" /\ lock' = [lock EXCEPT ![job[d]] = NoOne]
      <4>1. lock[job[d]] = d
        BY <3>4 DEF LockedCalls
      <4>. QED  BY <2>2, <2>4, <3>1, <3>4, <4>1 DEF TypeOK, RedisTypeOK
    <3>. QED  BY <2>4, <3>2, <3>3, <3>4, DispatcherRedis
              DEF redisVars, AcquireLock, AcquireRefused, DeleteLock, SetCache
  <2>5. CASE DispatcherStep(d) /\ f = d
    <3>1. \/ pc[d] = "acquire" /\ Acquire(d) /\ Goto(d, "allow") /\ job'[d] = job[d]
          \/ pc[d] \in LockedCalls \ {"delete"} /\ job'[d] = job[d]
      BY <1>1, <2>5
         DEF DispatcherStep, FetchMessage, GetEvent, Acquire, BreakerAllow, GetCached,
             GetEndpoint, PutCached, Deliver, RecordAttempt, ResolveAttempt, CreateDeadLetter,
             MarkFailed, ReleaseGet, ReleaseDelete, CommitMessage, StartDispatcher,
             Return, Goto, LockedCalls, jobVars, TypeOK, DispatcherTypeOK
    <3>2. CASE pc[d] = "acquire" /\ Acquire(d) /\ Goto(d, "allow") /\ job'[d] = job[d]
      <4>1. AcquireLock(d, job[d])
        BY <3>2 DEF Acquire, Return, Goto, TypeOK, DispatcherTypeOK
      <4>2. job[d] \in Events
        BY <3>2, JobOfHolder DEF HoldsMessage
      <4>. QED  BY <2>5, <3>2, <4>1, <4>2 DEF AcquireLock, TypeOK, RedisTypeOK
    <3>3. CASE pc[d] \in LockedCalls \ {"delete"} /\ job'[d] = job[d]
      <4>1. lock' = lock
        BY <2>5, <3>3, DispatcherRedis DEF redisVars, SetCache, LockedCalls
      <4>. QED  BY <2>5, <3>3, <4>1
    <3>. QED  BY <3>1, <3>2, <3>3
  <2>. QED  BY <2>1, <2>3, <2>4, <2>5
<1>2. ASSUME UNCHANGED dispatcherVars, UNCHANGED lock \/ \E e \in Events : LockTimeout(e),
             NEW f \in Dispatchers, pc'[f] \in LockedCalls
      PROVE  lock'[job'[f]] = f
  <2>1. pc[f] \in LockedCalls /\ job'[f] = job[f] /\ lock[job[f]] = f /\ job[f] \in Events
    BY <1>2, JobOfHolder DEF dispatcherVars, jobVars, HoldsMessage, LockedCalls
  <2>2. ASSUME NEW e \in Events, LockTimeout(e) PROVE lock'[job[f]] = lock[job[f]]
    BY <2>1, <2>2 DEF LockTimeout, Working, ExpireLock, TypeOK, RedisTypeOK
  <2>. QED  BY <1>2, <2>1, <2>2
<1>3. \/ \E d \in Dispatchers : DispatcherStep(d) \/ DispatcherCrash(d)
      \/ UNCHANGED dispatcherVars /\ (UNCHANGED lock \/ \E e \in Events : LockTimeout(e))
  BY StepOfDispatcherOrNot
     DEF Next, vars, IntakeStep, IntakeCrash, SchedulerStep, SchedulerCrash, RetryDue, Assign,
         Rebalance, CacheTimeout, ExpireCache, Edit, redisVars
<1>. QED  BY <1>1, <1>2, <1>3

\* ReadersGoInOrder and CommittedAreProcessed are kept: a reader starts behind the
\* committed offset, goes on by one message at a time and only once the last one was
\* processed, and commits no offset before that.
LEMMA StepKeepsReadersInOrder ==
    ASSUME PipelineInv, [Next]_vars
    PROVE  ReadersGoInOrder' /\ CommittedAreProcessed'
<1>. USE DEF PipelineInv, ReadersGoInOrder, CommittedAreProcessed, HoldsMessage
<1>1. ASSUME NEW d \in Dispatchers, DispatcherStep(d) \/ DispatcherCrash(d)
      PROVE  ReadersGoInOrder' /\ CommittedAreProcessed'
  <2>1. DispatcherStep(d) \/ StopDispatcher(d)
    BY <1>1 DEF DispatcherCrash
  <2>2. processed \subseteq processed'
    BY <2>1, DispatcherLocality
  <2>3. /\ offset \in [Dispatchers -> 0..Len(log)] /\ position \in [Dispatchers -> 0..Len(log)]
        /\ pc \in [Dispatchers -> Calls \cup {"down"}]
        /\ Len(log) \in Nat /\ committed \in Nat
    BY DEF TypeOK, TopicTypeOK, DispatcherTypeOK
  <2>4. ASSUME NEW f \in Dispatchers \ {d}
        PROVE  /\ pc'[f] \in {"fetch", "down"} => 1..position'[f] \subseteq processed'
               /\ pc'[f] \notin {"fetch", "down"} =>
                     /\ 1..(offset'[f] - 1) \subseteq processed'
                     /\ 1..position'[f] \subseteq processed' \cup {offset'[f]}
               /\ pc'[f] = "commit" => offset'[f] \in processed'
    <3>1. pc'[f] = pc[f] /\ offset'[f] = offset[f] /\ position'[f] = position[f]
      BY <2>1, <2>4, DispatcherLocality
    <3>. QED  BY <2>2, <3>1
  <2>5. CommittedAreProcessed' /\
        (/\ pc'[d] \in {"fetch", "down"} => 1..position'[d] \subseteq processed'
         /\ pc'[d] \notin {"fetch", "down"} =>
               /\ 1..(offset'[d] - 1) \subseteq processed'
               /\ 1..position'[d] \subseteq processed' \cup {offset'[d]}
         /\ pc'[d] = "commit" => offset'[d] \in processed')
    <3>1. CASE FetchMessage(d)
      <4>1. /\ offset'[d] = position[d] + 1 /\ position'[d] = position[d] + 1
            /\ pc[d] = "fetch" /\ pc'[d] = "getEvent" /\ UNCHANGED <<committed, processed>>
        BY <2>3, <3>1 DEF FetchMessage, Goto, historyVars
      <4>2. 1..position[d] \subseteq processed /\ position[d] \in Nat
        BY <2>3, <4>1
      <4>3. 1..(position[d] + 1) \subseteq processed \cup {position[d] + 1}
        BY <4>2
      <4>. QED  BY <4>1, <4>2, <4>3
    <3>2. CASE Return(d) /\ HoldsMessage(d) /\ UNCHANGED topicVars
      BY <2>2, <2>3, <3>2 DEF Return, Goto, jobVars, topicVars
    <3>3. CASE /\ HoldsMessage(d) /\ pc[d] # "commit"
               /\ \E call \in LockedCalls \cup {"acquire"} : Goto(d, call)
               /\ UNCHANGED <<offset, processed, topicVars>>
      BY <2>3, <3>3 DEF Goto, topicVars, LockedCalls
    <3>4. CASE CommitMessage(d)
      <4>1. 1..offset[d] \subseteq processed /\ 1..position[d] \subseteq processed
        <5>1. offset[d] \in 0..Len(log)
          BY <2>3
        <5>2. \A i \in 1..offset[d] : i \in 1..(offset[d] - 1) \/ i = offset[d]
          BY <5>1
        <5>. QED  BY <3>4, <5>2 DEF CommitMessage
      <4>2. pc'[d] = "fetch" /\ processed' = processed /\ position' = position
            /\ committed' \in {committed, offset[d]}
        BY <2>3, <3>4 DEF CommitMessage, Goto, Forget, CommitOffset, historyVars
      <4>. QED  BY <4>1, <4>2
    <3>5. CASE StopDispatcher(d)
      BY <2>3, <3>5 DEF StopDispatcher, Forget, Goto, historyVars
    <3>6. CASE StartDispatcher(d)
      BY <2>3, <3>6 DEF StartDispatcher, Goto, historyVars, topicVars
    <3>7. CASE GetEvent(d) \/ Acquire(d) \/ ReleaseGet(d) \/ ReleaseDelete(d)
      BY <3>2, <3>3, <3>7
         DEF GetEvent, Acquire, ReleaseGet, ReleaseDelete, LockedCalls, jobVars, historyVars
    <3>8. CASE BreakerAllow(d) \/ PutCached(d) \/ RecordAttempt(d) \/ ResolveAttempt(d)
               \/ CreateDeadLetter(d) \/ MarkFailed(d) \/ GetCached(d) \/ GetEndpoint(d)
               \/ Deliver(d)
      BY <3>3, <3>8
         DEF BreakerAllow, PutCached, RecordAttempt, ResolveAttempt, CreateDeadLetter, MarkFailed,
             GetCached, GetEndpoint, Deliver, Found, LockedCalls, jobVars, historyVars
    <3>. QED  BY <2>1, <3>1, <3>4, <3>5, <3>6, <3>7, <3>8 DEF DispatcherStep
  <2>. QED  BY <2>4, <2>5
<1>2. ASSUME NEW d \in Dispatchers, AssignTo(d), UNCHANGED dispatcherVars
      PROVE  ReadersGoInOrder' /\ CommittedAreProcessed'
  BY <1>2 DEF AssignTo, dispatcherVars, jobVars, historyVars, TypeOK, TopicTypeOK
<1>3. ASSUME UNCHANGED <<dispatcherVars, committed, position>>
      PROVE  ReadersGoInOrder' /\ CommittedAreProcessed'
  BY <1>3 DEF dispatcherVars, jobVars, historyVars
<1>4. \/ \E d \in Dispatchers : DispatcherStep(d) \/ DispatcherCrash(d)
      \/ \E d \in Dispatchers : AssignTo(d) /\ UNCHANGED dispatcherVars
      \/ UNCHANGED <<dispatcherVars, committed, position>>
  BY DEF Next, vars, IntakeStep, IntakeCrash, AcceptRequest, RejectRequest, CreateEvent,
         PublishCreated, MarkCreatedQueued, AbandonRequest, SchedulerStep, SchedulerCrash,
         FindRetryable, Republish, MarkRetryQueued, RestartScheduler, Publish, PublishFails,
         RetryDue, LockTimeout, Assign, Rebalance, CacheTimeout, Edit, topicVars
<1>. QED  BY <1>1, <1>2, <1>3, <1>4

\* Of the statements, only UpdateForRetry raises attempt_count, and only a dead letter
\* for failing counts as one.
LEMMA StoreKeepsCounts ==
    ASSUME StoreTypeOK, NEW e \in Events, NEW f \in Events,
           \/ UNCHANGED storeVars
           \/ InsertEvent(f) \/ InsertEventFails(f)
           \/ \E s \in Statuses : UpdateStatus(f, s)
           \/ RetryComesDue(f) \/ InsertAttempt(f)
           \/ \E r \in Reasons \ {"failed"} : InsertDeadLetter(f, r)
           \/ \E p \in Endpoints : UpdateEndpoint(p) \/ DeleteEndpoint(p)
    PROVE  /\ attemptCount'[e] <= attemptCount[e]
           /\ deadLetters'[e]["failed"] <= deadLetters[e]["failed"]
<1>. USE DEF StoreTypeOK
<1>1. attemptCount[e] \in Nat /\ deadLetters[e]["failed"] \in Nat
  BY DEF Reasons
<1>. DEFINE Kept == /\ attemptCount'[e] <= attemptCount[e]
                    /\ deadLetters'[e]["failed"] <= deadLetters[e]["failed"]
<1>2. ASSUME UNCHANGED storeVars \/ InsertEventFails(f) \/ RetryComesDue(f) \/ InsertAttempt(f)
      PROVE  Kept
  BY <1>1, <1>2 DEF InsertEventFails, RetryComesDue, InsertAttempt, storeVars, eventRow
<1>3. ASSUME InsertEvent(f) PROVE Kept
  BY <1>1, <1>3 DEF InsertEvent
<1>4. ASSUME NEW s \in Statuses, UpdateStatus(f, s) PROVE Kept
  BY <1>1, <1>4 DEF UpdateStatus
<1>5. ASSUME NEW r \in Reasons \ {"failed"}, InsertDeadLetter(f, r) PROVE Kept
  <2>1. attemptCount' = attemptCount /\ deadLetters'[e]["failed"] = deadLetters[e]["failed"]
    BY <1>5 DEF InsertDeadLetter, eventRow, Reasons
  <2>. QED  BY <1>1, <2>1
<1>6. ASSUME NEW p \in Endpoints, UpdateEndpoint(p) PROVE Kept
  BY <1>1, <1>6 DEF UpdateEndpoint, eventRow
<1>7. ASSUME NEW p \in Endpoints, DeleteEndpoint(p) PROVE Kept
  <2>1. /\ attemptCount'[e] \in {0, attemptCount[e]}
        /\ deadLetters'[e]["failed"] \in {0, deadLetters[e]["failed"]}
    BY <1>7 DEF DeleteEndpoint, Reasons
  <2>. QED  BY <1>1, <2>1
<1>. HIDE DEF Kept
<1>8. Kept
  BY <1>2, <1>3, <1>4, <1>5, <1>6, <1>7
<1>. QED  BY <1>8 DEF Kept

\* CountsAreBacked is kept.
LEMMA StepKeepsCountsBacked ==
    ASSUME PipelineInv, [Next]_vars
    PROVE  CountsAreBacked'
<1>. USE DEF PipelineInv, CountsAreBacked
<1>1. ASSUME NEW d \in Dispatchers, DispatcherStep(d) \/ DispatcherCrash(d)
      PROVE  CountsAreBacked'
  <2>1. DispatcherStep(d) \/ StopDispatcher(d)
    BY <1>1 DEF DispatcherCrash
  <2>2. /\ snap \in [Dispatchers -> Nat] /\ refused \in [Events -> Nat]
        /\ outcome \in [Dispatchers -> Outcomes] /\ pc \in [Dispatchers -> Calls \cup {"down"}]
        /\ MaxAttempts \in Nat
    BY StoreAssumption DEF TypeOK, DispatcherTypeOK
  <2>3. refused' \in [Events -> Nat]
    BY <2>1, <1>1, DispatcherKeepsTypes DEF TypeOK, DispatcherTypeOK
  <2>. DEFINE Backed(f) ==
           /\ pc[f] \in LockedCalls \cup {"acquire"} => snap[f] <= refused[job[f]]
           /\ pc[f] \in {"record", "resolve", "deadLetter"} /\ outcome[f] = "failed" =>
                  snap[f] + 1 <= refused[job[f]]
           /\ pc[f] = "deadLetter" /\ outcome[f] = "failed" => MaxAttempts <= snap[f] + 1
  <2>4. ASSUME NEW f \in Dispatchers \ {d} PROVE Backed(f)'
    <3>1. /\ pc'[f] = pc[f] /\ job'[f] = job[f] /\ snap'[f] = snap[f] /\ outcome'[f] = outcome[f]
      BY <2>1, <2>4, DispatcherLocality
    <3>2. CASE pc[f] \notin LockedCalls \cup {"acquire"}
      BY <3>1, <3>2 DEF LockedCalls
    <3>3. CASE pc[f] \in LockedCalls \cup {"acquire"}
      <4>1. job[f] \in Events
        BY <3>3, JobOfHolder DEF HoldsMessage, LockedCalls
      <4>2. refused[job[f]] <= refused'[job[f]] /\ refused[job[f]] \in Nat
            /\ refused'[job[f]] \in Nat /\ snap[f] \in Nat
        BY <2>1, <2>2, <2>3, <4>1, DispatcherLocality
      <4>. QED  BY <3>1, <4>2
    <3>. QED  BY <3>2, <3>3
  <2>5. CASE pc'[d] \notin LockedCalls \cup {"acquire"}
    BY <2>4, <2>5 DEF LockedCalls
  <2>6. CASE pc'[d] \in LockedCalls \cup {"acquire"}
    <3>1. pc[d] \in LockedCalls \cup {"acquire", "getEvent"} /\ job'[d] = job[d] /\ job[d] \in Events
      <4>1. pc[d] \in LockedCalls \cup {"acquire", "getEvent"} /\ job'[d] = job[d]
        BY <2>1, <2>2, <2>6
           DEF DispatcherStep, FetchMessage, GetEvent, Acquire, BreakerAllow, GetCached,
               GetEndpoint, PutCached, Deliver, RecordAttempt, ResolveAttempt, CreateDeadLetter,
               MarkFailed, ReleaseGet, ReleaseDelete, CommitMessage, StartDispatcher,
               StopDispatcher, Return, Goto, Found, LockedCalls, jobVars
      <4>. QED  BY <4>1, JobOfHolder DEF HoldsMessage, LockedCalls
    <3>2. snap[d] \in Nat /\ refused[job[d]] \in Nat
      BY <2>2, <3>1
    <3>3. CASE GetEvent(d)
      BY <2>2, <2>4, <2>6, <3>1, <3>2, <3>3
         DEF GetEvent, Return, Goto, historyVars, LockedCalls, NoPrematureDeadLetter
    <3>4. CASE Deliver(d)
      <4>1. pc[d] = "deliver" /\ pc'[d] = "record" /\ snap' = snap
        BY <2>2, <3>4 DEF Deliver, Goto, jobVars
      <4>2. \/ outcome'[d] = "ok" /\ refused' = refused
            \/ outcome'[d] = "failed" /\ refused'[job[d]] = refused[job[d]] + 1
        BY <2>2, <3>1, <3>4 DEF Deliver, Result
      <4>. QED  BY <2>4, <3>1, <3>2, <4>1, <4>2 DEF LockedCalls
    <3>5. CASE RecordAttempt(d)
      <4>1. pc[d] = "record" /\ UNCHANGED <<snap, outcome, refused>>
        BY <3>5 DEF RecordAttempt, jobVars, historyVars
      <4>2. \/ pc'[d] = "deadLetter" /\ snap[d] + 1 >= MaxAttempts
            \/ pc'[d] = "resolve"
        BY <2>2, <3>5 DEF RecordAttempt, Goto
      <4>. QED  BY <2>2, <2>4, <3>1, <3>2, <4>1, <4>2 DEF LockedCalls
    <3>6. CASE /\ UNCHANGED <<snap, refused>> /\ pc[d] # "getEvent"
               /\ pc'[d] \in {"record", "resolve", "deadLetter"} => outcome'[d] # "failed"
      BY <2>4, <3>1, <3>2, <3>6
    <3>7. CASE \/ Acquire(d) \/ BreakerAllow(d) \/ GetCached(d) \/ GetEndpoint(d) \/ PutCached(d)
               \/ ResolveAttempt(d) \/ CreateDeadLetter(d) \/ MarkFailed(d)
               \/ ReleaseGet(d) \/ ReleaseDelete(d)
      <4>1. UNCHANGED <<snap, refused>> /\ pc[d] # "getEvent"
        BY <3>7 DEF Acquire, BreakerAllow, GetCached, GetEndpoint, PutCached, ResolveAttempt,
                    CreateDeadLetter, MarkFailed, ReleaseGet, ReleaseDelete, Return, jobVars,
                    historyVars
      <4>2. pc'[d] \in {"record", "resolve", "deadLetter"} => outcome'[d] # "failed"
        BY <2>2, <3>7 DEF Acquire, BreakerAllow, GetCached, GetEndpoint, PutCached,
                    ResolveAttempt, CreateDeadLetter, MarkFailed, ReleaseGet, ReleaseDelete,
                    Return, Goto, Found, Result, LocalsAreSet
      <4>. QED  BY <3>6, <4>1, <4>2
    <3>8. CASE \/ FetchMessage(d) \/ CommitMessage(d) \/ StartDispatcher(d) \/ StopDispatcher(d)
      BY <2>2, <2>6, <3>8 DEF FetchMessage, CommitMessage, StartDispatcher, StopDispatcher,
                              Goto, LockedCalls
    <3>. QED  BY <2>1, <3>3, <3>4, <3>5, <3>7, <3>8 DEF DispatcherStep
  <2>. QED  BY <2>5, <2>6
<1>2. ASSUME UNCHANGED dispatcherVars PROVE CountsAreBacked'
  BY <1>2 DEF dispatcherVars, jobVars, historyVars
<1>. QED  BY <1>1, <1>2, StepOfDispatcherOrNot

\* NoPrematureDeadLetter is kept.
LEMMA StepKeepsNoPrematureDeadLetter ==
    ASSUME PipelineInv, [Next]_vars
    PROVE  NoPrematureDeadLetter'
<1>. SUFFICES ASSUME NEW e \in Events
              PROVE  /\ attemptCount'[e] <= refused'[e]
                     /\ deadLetters'[e]["failed"] > 0 => refused'[e] >= MaxAttempts
  BY DEF NoPrematureDeadLetter
<1>. USE DEF PipelineInv
<1>1. TypeOK'
  BY StepKeepsTypes
<1>2. /\ attemptCount[e] \in Nat /\ refused[e] \in Nat /\ deadLetters[e]["failed"] \in Nat
      /\ attemptCount'[e] \in Nat /\ refused'[e] \in Nat /\ deadLetters'[e]["failed"] \in Nat
      /\ MaxAttempts \in Nat
      /\ attemptCount[e] <= refused[e]
      /\ deadLetters[e]["failed"] > 0 => refused[e] >= MaxAttempts
  <2>1. "failed" \in Reasons
    BY DEF Reasons
  <2>2. attemptCount[e] \in Nat /\ refused[e] \in Nat
    BY DEF TypeOK, StoreTypeOK, DispatcherTypeOK
  <2>3. deadLetters[e]["failed"] \in Nat
    BY <2>1 DEF TypeOK, StoreTypeOK
  <2>4. attemptCount'[e] \in Nat /\ refused'[e] \in Nat
    BY <1>1 DEF TypeOK, StoreTypeOK, DispatcherTypeOK
  <2>5. deadLetters'[e]["failed"] \in Nat
    BY <1>1, <2>1 DEF TypeOK, StoreTypeOK
  <2>6. /\ attemptCount[e] <= refused[e]
        /\ deadLetters[e]["failed"] > 0 => refused[e] >= MaxAttempts
    BY DEF NoPrematureDeadLetter
  <2>. QED  BY <2>2, <2>3, <2>4, <2>5, <2>6, StoreAssumption
<1>3. refused[e] <= refused'[e]
  <2>1. UNCHANGED dispatcherVars => refused'[e] = refused[e]
    BY DEF dispatcherVars, historyVars
  <2>. QED  BY <1>2, <2>1, StepOfDispatcherOrNot, DispatcherLocality DEF DispatcherCrash
<1>. DEFINE Kept == /\ attemptCount'[e] <= attemptCount[e]
                    /\ deadLetters'[e]["failed"] <= deadLetters[e]["failed"]
<1>4. CASE Kept
  BY <1>2, <1>3, <1>4
<1>5. ASSUME NEW d \in Dispatchers, DispatcherStep(d)
      PROVE  \/ Kept
             \/ attemptCount'[e] <= refused[e] /\ deadLetters' = deadLetters
             \/ attemptCount' = attemptCount /\ refused[e] >= MaxAttempts
  <2>1. CASE UNCHANGED storeVars \/ /\ job[d] \in Events
                                    /\ \/ InsertAttempt(job[d])
                                       \/ \E s \in {"delivered", "failed"} : UpdateStatus(job[d], s)
    <3>1. {"delivered", "failed"} \subseteq Statuses
      BY DEF Statuses, Resolved
    <3>. QED  BY <2>1, <3>1, StoreKeepsCounts DEF TypeOK
  <2>2. CASE /\ job[d] \in Events /\ pc[d] = "resolve" /\ outcome[d] = "failed"
             /\ UpdateForRetry(job[d], snap[d] + 1)
    <3>1. snap[d] + 1 <= refused[job[d]]
      BY <2>2 DEF CountsAreBacked
    <3>2. deadLetters' = deadLetters
          /\ (attemptCount' = attemptCount \/ attemptCount' = [attemptCount EXCEPT ![job[d]] = snap[d] + 1])
      BY <2>2 DEF UpdateForRetry, eventRow
    <3>. QED  BY <1>2, <3>1, <3>2 DEF TypeOK, StoreTypeOK
  <2>3. CASE /\ job[d] \in Events /\ pc[d] = "deadLetter" /\ outcome[d] \in Reasons
             /\ InsertDeadLetter(job[d], outcome[d])
    <3>1. CASE outcome[d] # "failed"
      BY <2>3, <3>1, StoreKeepsCounts DEF TypeOK
    <3>2. CASE outcome[d] = "failed" /\ job[d] = e
      <4>1. snap[d] \in Nat /\ snap[d] + 1 <= refused[e] /\ MaxAttempts <= snap[d] + 1
        BY <2>3, <3>2 DEF CountsAreBacked, TypeOK, DispatcherTypeOK
      <4>. QED  BY <1>2, <2>3, <4>1 DEF InsertDeadLetter, eventRow
    <3>3. CASE outcome[d] = "failed" /\ job[d] # e
      <4>1. attemptCount' = attemptCount /\ deadLetters'[e] = deadLetters[e]
        BY <2>3, <3>3 DEF InsertDeadLetter, eventRow, TypeOK, StoreTypeOK
      <4>. QED  BY <1>2, <4>1
    <3>. QED  BY <3>1, <3>2, <3>3
  <2>. QED  BY <1>5, <2>1, <2>2, <2>3, DispatcherStore
<1>6. ASSUME ~\E d \in Dispatchers : DispatcherStep(d) PROVE Kept
  <2>1. \/ UNCHANGED storeVars
        \/ \E f \in Events : \/ InsertEvent(f) \/ InsertEventFails(f)
                             \/ UpdateStatus(f, "queued") \/ RetryComesDue(f)
        \/ \E p \in Endpoints : UpdateEndpoint(p) \/ DeleteEndpoint(p)
    BY <1>6 DEF Next, vars, IntakeStep, IntakeCrash, AcceptRequest, RejectRequest, CreateEvent,
         PublishCreated, MarkCreatedQueued, AbandonRequest, SchedulerStep, SchedulerCrash,
         FindRetryable, Republish, MarkRetryQueued, RestartScheduler, DispatcherCrash,
         StopDispatcher, RetryDue, LockTimeout, Assign, Rebalance, CacheTimeout, Edit,
         TypeOK, SchedulerTypeOK
  <2>2. "queued" \in Statuses
    BY DEF Statuses
  <2>. QED  BY <2>1, <2>2, StoreKeepsCounts DEF TypeOK
<1>. QED  BY <1>2, <1>3, <1>4, <1>5, <1>6

(***************************************************************************)
(* Part 4: the theorems.                                                   *)
(***************************************************************************)

\* The invariant holds when nothing has been accepted yet.
LEMMA InitInvariant == Init => PipelineInv
<1>. SUFFICES ASSUME Init PROVE PipelineInv
  OBVIOUS
<1>. USE DEF Init
<1>1. StoreTypeOK /\ RedisTypeOK /\ IntakeTypeOK /\ SchedulerTypeOK
  BY DEF StoreInit, StoreTypeOK, EndpointStates, Statuses, RedisInit, RedisTypeOK, IntakeInit,
         IntakeTypeOK, IntakeStages, SchedulerInit, SchedulerTypeOK
<1>2. log = <<>> /\ Len(log) = 0 /\ committed = 0 /\ log \in Seq(Events)
  BY DEF TopicInit
<1>3. TopicTypeOK
  BY <1>2 DEF TopicInit, TopicTypeOK
<1>4. DispatcherTypeOK
  BY <1>2 DEF DispatcherInit, DispatcherTypeOK, Calls, Outcomes
<1>5. TypeOK
  BY <1>1, <1>3, <1>4, PipelineAssumption DEF TypeOK
<1>6. LocalsAreSet /\ OutcomeIsFresh /\ WorkersHoldLock /\ CountsAreBacked
  BY DEF DispatcherInit, LocalsAreSet, OutcomeIsFresh, WorkersHoldLock, CountsAreBacked, HoldsMessage, LockedCalls
<1>7. ReadersGoInOrder /\ CommittedAreProcessed
  BY <1>2 DEF TopicInit, DispatcherInit, ReadersGoInOrder, CommittedAreProcessed, HoldsMessage
<1>8. NoPrematureDeadLetter
  BY DEF StoreInit, DispatcherInit, NoPrematureDeadLetter, Reasons
<1>. QED  BY <1>5, <1>6, <1>7, <1>8 DEF PipelineInv

\* The inductive invariant holds throughout every behaviour of the pipeline.
THEOREM PipelineInvariant == Spec => []PipelineInv
<1>1. Init => PipelineInv
  BY InitInvariant
<1>2. PipelineInv /\ [Next]_vars => PipelineInv'
  <2>. SUFFICES ASSUME PipelineInv, [Next]_vars PROVE PipelineInv'
    OBVIOUS
  <2>1. TypeOK'
    BY StepKeepsTypes
  <2>2. LocalsAreSet' /\ OutcomeIsFresh'
    BY <2>1, StepKeepsLocalsAreSet, StepKeepsOutcomeFresh
  <2>3. WorkersHoldLock' /\ CountsAreBacked' /\ NoPrematureDeadLetter'
    BY StepKeepsWorkersHoldLock, StepKeepsCountsBacked, StepKeepsNoPrematureDeadLetter
  <2>4. ReadersGoInOrder' /\ CommittedAreProcessed'
    BY StepKeepsReadersInOrder
  <2>. QED  BY <2>1, <2>2, <2>3, <2>4 DEF PipelineInv
<1>. QED  BY <1>1, <1>2, PTL DEF Spec

\* Every variable stays in its type.
THEOREM TypeCorrectness == Spec => []TypeOK
<1>1. PipelineInv => TypeOK
  BY DEF PipelineInv
<1>. QED  BY <1>1, PipelineInvariant, PTL

\* The lock of processMessage keeps two dispatchers from working on one event, unless
\* a holder outlasts its TTL: whatever crashes, moves, fails or is delivered twice.
THEOREM LockExcludes == Spec => []NoConcurrentDelivery
<1>1. PipelineInv => NoConcurrentDelivery
  BY DEF PipelineInv, WorkersHoldLock, NoConcurrentDelivery, Working
<1>. QED  BY <1>1, PipelineInvariant, PTL

\* Start commits nothing that was not processed, so nothing is lost between the topic
\* and processMessage.
THEOREM AtLeastOnceProcessing == Spec => []CommittedAreProcessed
<1>1. PipelineInv => CommittedAreProcessed
  BY DEF PipelineInv
<1>. QED  BY <1>1, PipelineInvariant, PTL

\* No event is given up for failing before MaxAttempts POSTs have failed.
THEOREM DeadLettersAreEarned == Spec => []NoPrematureDeadLetter
<1>1. PipelineInv => NoPrematureDeadLetter
  BY DEF PipelineInv
<1>. QED  BY <1>1, PipelineInvariant, PTL
==============================================================================
