------------------------ MODULE DeliveryRecords_proofs ------------------------
(***************************************************************************)
(* RecordsInv and EffectsInv of DeliveryPipeline are inductive on top of   *)
(* PipelineInv, for any number of events, dispatchers and schedulers, any  *)
(* faults and any bounds: what is on record agrees with the statuses, and  *)
(* what was POSTed or committed has left its trace.  From these, and for   *)
(* the cache directly, the safety and action properties.  PostsInv is      *)
(* inductive on top of all three: while nothing rebalances and the stores  *)
(* answer, the POSTs an event has had and those it may still come to add   *)
(* up to no more than the bound, for any number of schedulers.             *)
(*                                                                         *)
(* Part 1 lists the statements a step may carry out and what the tables    *)
(* keep; part 2 has a lemma per conjunct of RecordsInv, part 3 of          *)
(* EffectsInv; part 4 draws their theorems.  Part 5 counts what each       *)
(* message, dispatcher and scheduler may still add to the POSTs of an      *)
(* event, and draws the theorems of PostsInv.                              *)
(***************************************************************************)
EXTENDS DeliveryPipeline_proofs, FiniteSetTheorems

(***************************************************************************)
(* Part 1: the tables.                                                     *)
(***************************************************************************)

\* The steps of a dispatcher that write to the tables.
Writes(d) == RecordAttempt(d) \/ ResolveAttempt(d) \/ CreateDeadLetter(d) \/ MarkFailed(d)

\* Such a step is one statement about the event at hand.
LEMMA WriteIsStatement ==
    ASSUME PipelineInv, NEW d \in Dispatchers, Writes(d)
    PROVE  /\ job[d] \in Events
           /\ \/ RecordAttempt(d) /\ InsertAttempt(job[d])
              \/ ResolveAttempt(d) /\ outcome[d] = "ok" /\ UpdateStatus(job[d], "delivered")
              \/ ResolveAttempt(d) /\ outcome[d] = "failed" /\ UpdateForRetry(job[d], snap[d] + 1)
              \/ CreateDeadLetter(d) /\ outcome[d] \in Reasons /\ InsertDeadLetter(job[d], outcome[d])
              \/ MarkFailed(d) /\ UpdateStatus(job[d], "failed")
<1>. USE DEF PipelineInv
<1>1. job[d] \in Events
  BY JobOfHolder DEF Writes, RecordAttempt, ResolveAttempt, CreateDeadLetter, MarkFailed, HoldsMessage
<1>2. CASE RecordAttempt(d)
  BY <1>1, <1>2 DEF RecordAttempt
<1>3. CASE ResolveAttempt(d)
  BY <1>1, <1>3 DEF ResolveAttempt
<1>4. CASE CreateDeadLetter(d)
  BY <1>1, <1>4 DEF CreateDeadLetter, LocalsAreSet
<1>5. CASE MarkFailed(d)
  BY <1>1, <1>5 DEF MarkFailed
<1>. QED  BY <1>2, <1>3, <1>4, <1>5 DEF Writes

\* The other steps of a dispatcher leave the tables alone.
LEMMA OtherStepsWriteNothing ==
    ASSUME NEW d \in Dispatchers, DispatcherStep(d) \/ StopDispatcher(d), ~Writes(d)
    PROVE  UNCHANGED storeVars
BY DEF DispatcherStep, Writes, FetchMessage, GetEvent, Acquire, BreakerAllow, GetCached,
       GetEndpoint, PutCached, Deliver, ReleaseGet, ReleaseDelete, CommitMessage,
       StartDispatcher, StopDispatcher

\* What any step does to the tables.
StoreStep ==
    \/ UNCHANGED storeVars
    \/ \E e \in Events : InsertEvent(e) /\ intake[e] = "validated" /\ intake'[e] \in {"inserted", "done"}
    \/ \E e \in Events : UpdateStatus(e, "queued") \/ RetryComesDue(e)
    \/ \E p \in Endpoints : UpdateEndpoint(p) \/ DeleteEndpoint(p)

LEMMA StepOnTables ==
    ASSUME PipelineInv, [Next]_vars
    PROVE  \/ UNCHANGED dispatcherVars /\ StoreStep
           \/ \E d \in Dispatchers : /\ DispatcherStep(d) \/ StopDispatcher(d)
                                     /\ UNCHANGED storeVars
           \/ \E d \in Dispatchers : DispatcherStep(d) /\ Writes(d)
<1>1. CASE UNCHANGED vars
  BY <1>1 DEF vars, StoreStep
<1>2. ASSUME NEW e \in Events, IntakeStep(e) \/ IntakeCrash(e)
      PROVE  UNCHANGED dispatcherVars /\ StoreStep
  BY <1>2 DEF IntakeStep, IntakeCrash, AcceptRequest, RejectRequest, CreateEvent, PublishCreated,
              MarkCreatedQueued, AbandonRequest, Stage, StoreStep, InsertEventFails,
              PipelineInv, TypeOK, IntakeTypeOK
<1>3. ASSUME NEW s \in Schedulers, SchedulerStep(s) \/ SchedulerCrash(s)
      PROVE  UNCHANGED dispatcherVars /\ StoreStep
  <2>1. marking[s] \in Events \cup {NoEvent}
    BY DEF PipelineInv, TypeOK, SchedulerTypeOK
  <2>. QED  BY <1>3, <2>1 DEF SchedulerStep, SchedulerCrash, FindRetryable, Republish,
                              MarkRetryQueued, RestartScheduler, StoreStep
<1>4. ASSUME NEW d \in Dispatchers, DispatcherStep(d) \/ DispatcherCrash(d)
      PROVE  \/ (DispatcherStep(d) \/ StopDispatcher(d)) /\ UNCHANGED storeVars
             \/ DispatcherStep(d) /\ Writes(d)
  BY <1>4, OtherStepsWriteNothing DEF DispatcherCrash, StopDispatcher
<1>5. ASSUME NEW d \in Dispatchers, Assign(d) \/ Rebalance(d)
      PROVE  UNCHANGED dispatcherVars /\ StoreStep
  BY <1>5 DEF Assign, Rebalance, StoreStep
<1>6. ASSUME NEW e \in Events, RetryDue(e) \/ LockTimeout(e)
      PROVE  UNCHANGED dispatcherVars /\ StoreStep
  BY <1>6 DEF RetryDue, LockTimeout, StoreStep
<1>7. ASSUME NEW p \in Endpoints, CacheTimeout(p) \/ Edit(p)
      PROVE  UNCHANGED dispatcherVars /\ StoreStep
  BY <1>7 DEF CacheTimeout, Edit, StoreStep
<1>. QED  BY <1>1, <1>2, <1>3, <1>4, <1>5, <1>6, <1>7 DEF Next

\* Only the cascade takes anything from the tables, and a deleted endpoint stays so.
Kept(e) ==
    /\ endpoint'[EndpointOf[e]] # "deleted" => EndpointExists(e)
    /\ endpoint'[EndpointOf[e]] # "deleted" =>
          /\ EventExists(e) => status'[e] # "absent"
          /\ attemptRows[e] <= attemptRows'[e]
          /\ DeadLettered(e) => \E r \in Reasons : deadLetters'[e][r] > 0

LEMMA TablesOnlyGrow ==
    ASSUME PipelineInv, [Next]_vars, NEW e \in Events
    PROVE  Kept(e)
<1>. USE DEF EndpointExists, EventExists, DeadLettered, Kept
<1>1. /\ EndpointOf[e] \in Endpoints
      /\ endpoint \in [Endpoints -> EndpointStates]
      /\ status \in [Events -> Statuses \cup {"absent"}]
      /\ attemptRows \in [Events -> Nat]
      /\ deadLetters \in [Events -> [Reasons -> Nat]]
  BY StoreAssumption DEF PipelineInv, TypeOK, StoreTypeOK
<1>2. CASE UNCHANGED storeVars
  BY <1>1, <1>2 DEF storeVars
<1>3. ASSUME NEW f \in Events, InsertEvent(f)
      PROVE  Kept(e)
  BY <1>1, <1>3 DEF InsertEvent
<1>4. ASSUME NEW f \in Events, NEW s \in Statuses, UpdateStatus(f, s)
      PROVE  Kept(e)
  BY <1>1, <1>4 DEF UpdateStatus, Statuses, Resolved
<1>5. ASSUME NEW f \in Events, RetryComesDue(f)
      PROVE  Kept(e)
  BY <1>1, <1>5 DEF RetryComesDue
<1>6. ASSUME NEW p \in Endpoints, UpdateEndpoint(p)
      PROVE  Kept(e)
  BY <1>1, <1>6 DEF UpdateEndpoint, eventRow
<1>7. ASSUME NEW p \in Endpoints, DeleteEndpoint(p)
      PROVE  Kept(e)
  BY <1>1, <1>7 DEF DeleteEndpoint
<1>8. ASSUME NEW f \in Events, NEW n, UpdateForRetry(f, n)
      PROVE  Kept(e)
  BY <1>1, <1>8 DEF UpdateForRetry, eventRow
<1>9. ASSUME NEW f \in Events, InsertAttempt(f)
      PROVE  Kept(e)
  BY <1>1, <1>9 DEF InsertAttempt, eventRow
<1>10. ASSUME NEW f \in Events, NEW r \in Reasons, InsertDeadLetter(f, r)
       PROVE  Kept(e)
  <2>1. \/ deadLetters' = deadLetters
        \/ deadLetters' = [deadLetters EXCEPT ![f] = [deadLetters[f] EXCEPT ![r] = @ + 1]]
    BY <1>10 DEF InsertDeadLetter
  <2>2. \A q \in Reasons : deadLetters[e][q] <= deadLetters'[e][q] /\ deadLetters[e][q] \in Nat
    <3>1. deadLetters[e] \in [Reasons -> Nat] /\ deadLetters[f] \in [Reasons -> Nat]
      BY <1>1
    <3>2. CASE deadLetters' = deadLetters
      BY <3>1, <3>2
    <3>3. CASE deadLetters' = [deadLetters EXCEPT ![f] = [deadLetters[f] EXCEPT ![r] = @ + 1]]
      <4>1. deadLetters'[e] = IF e = f THEN [deadLetters[f] EXCEPT ![r] = @ + 1]
                                       ELSE deadLetters[e]
        BY <1>1, <3>3
      <4>. QED  BY <3>1, <4>1
    <3>. QED  BY <2>1, <3>2, <3>3
  <2>3. DeadLettered(e) => \E q \in Reasons : deadLetters'[e][q] > 0
    <3>1. SUFFICES ASSUME NEW q \in Reasons, deadLetters[e][q] > 0
                   PROVE  \E u \in Reasons : deadLetters'[e][u] > 0
      OBVIOUS
    <3>2. deadLetters'[e][q] > 0
      <4>1. deadLetters[e][q] \in Nat /\ deadLetters[e][q] <= deadLetters'[e][q]
        BY <2>2
      <4>2. deadLetters'[e][q] \in Nat
        <5>1. deadLetters' \in [Events -> [Reasons -> Nat]]
          BY StepKeepsTypes DEF TypeOK, StoreTypeOK
        <5>. QED  BY <5>1
      <4>. QED  BY <3>1, <4>1, <4>2
    <3>. QED  BY <3>2
  <2>. QED  BY <1>1, <1>10, <2>3 DEF InsertDeadLetter, eventRow
<1>11. StoreStep => Kept(e)
  <2>1. "queued" \in Statuses
    BY DEF Statuses
  <2>. QED  BY <1>2, <1>3, <1>4, <1>5, <1>6, <1>7, <2>1 DEF StoreStep
<1>12. ASSUME NEW d \in Dispatchers, Writes(d)
       PROVE  Kept(e)
  <2>1. {"delivered", "failed"} \subseteq Statuses
    BY DEF Statuses, Resolved
  <2>. QED  BY <1>4, <1>8, <1>9, <1>10, <1>12, <2>1, WriteIsStatement
<1>. QED  BY <1>2, <1>11, <1>12, StepOnTables

\* Where a dispatcher's step leaves it: it gets to work on an event it has seen the row
\* of, and until then keeps its message.
LEMMA DispatcherMoves ==
    ASSUME PipelineInv, NEW d \in Dispatchers, DispatcherStep(d) \/ StopDispatcher(d)
    PROVE  /\ pc'[d] \in LockedCalls \cup {"acquire"} =>
                 /\ job'[d] = job[d] /\ job[d] \in Events
                 /\ \/ pc[d] \in LockedCalls \cup {"acquire"}
                    \/ GetEvent(d) /\ EventExists(job[d])
           /\ pc'[d] \in BeforeResolved =>
                 \/ pc[d] \in BeforeResolved /\ snap'[d] = snap[d]
                 \/ GetEvent(d) /\ snap'[d] = attemptCount[job[d]]
           /\ pc'[d] = "markFailed" => CreateDeadLetter(d)
           /\ pc'[d] = "resolve" => RecordAttempt(d)
<1>. USE DEF Goto, LockedCalls, BeforeResolved
<1>1. /\ pc \in [Dispatchers -> Calls \cup {"down"}]
      /\ snap \in [Dispatchers -> Nat]
      /\ HoldsMessage(d) => job[d] \in Events
  BY JobOfHolder DEF PipelineInv, TypeOK, DispatcherTypeOK
<1>2. CASE FetchMessage(d) \/ CommitMessage(d) \/ StartDispatcher(d) \/ StopDispatcher(d)
  <2>1. pc'[d] \in {"getEvent", "fetch", "down"}
    BY <1>1, <1>2 DEF FetchMessage, CommitMessage, StartDispatcher, StopDispatcher
  <2>. QED  BY <2>1
<1>3. CASE GetEvent(d)
  <2>1. CASE Return(d)
    BY <1>1, <2>1 DEF Return
  <2>2. CASE ~Return(d)
    <3>1. /\ status[job[d]] # "absent" /\ snap'[d] = attemptCount[job[d]]
          /\ job' = job /\ pc'[d] = "acquire" /\ HoldsMessage(d)
      BY <1>1, <1>3, <2>2 DEF GetEvent, HoldsMessage
    <3>. QED  BY <1>1, <1>3, <3>1 DEF EventExists
  <2>. QED  BY <2>1, <2>2
<1>4. CASE Acquire(d) \/ ReleaseGet(d) \/ ReleaseDelete(d)
  <2>1. UNCHANGED jobVars /\ HoldsMessage(d)
    BY <1>1, <1>4 DEF Acquire, ReleaseGet, ReleaseDelete, Return, HoldsMessage
  <2>2. \/ pc'[d] = "commit"
        \/ pc[d] = "acquire" /\ pc'[d] = "allow"
        \/ pc[d] = "release" /\ pc'[d] = "delete"
    BY <1>1, <1>4 DEF Acquire, ReleaseGet, ReleaseDelete, Return
  <2>. QED  BY <1>1, <2>1, <2>2 DEF jobVars
<1>5. CASE BreakerAllow(d) \/ GetCached(d) \/ GetEndpoint(d) \/ PutCached(d) \/ Deliver(d)
  <2>1. UNCHANGED jobVars /\ pc[d] \in {"allow", "cacheGet", "getEndpoint", "cacheSet", "deliver"}
    BY <1>5 DEF BreakerAllow, GetCached, GetEndpoint, PutCached, Deliver
  <2>2. pc'[d] \in {"cacheGet", "release", "deliver", "deadLetter", "getEndpoint", "cacheSet",
                    "record"}
    BY <1>1, <1>5 DEF BreakerAllow, GetCached, GetEndpoint, PutCached, Deliver, Found
  <2>. QED  BY <1>1, <2>1, <2>2 DEF jobVars, HoldsMessage
<1>6. CASE RecordAttempt(d)
  <2>1. UNCHANGED jobVars /\ pc[d] = "record" /\ pc'[d] \in {"deadLetter", "resolve"}
    BY <1>1, <1>6 DEF RecordAttempt
  <2>. QED  BY <1>1, <1>6, <2>1 DEF jobVars, HoldsMessage
<1>7. CASE CreateDeadLetter(d)
  <2>1. UNCHANGED jobVars /\ pc[d] = "deadLetter" /\ pc'[d] = "markFailed"
    BY <1>1, <1>7 DEF CreateDeadLetter
  <2>. QED  BY <1>1, <1>7, <2>1 DEF jobVars, HoldsMessage
<1>8. CASE ResolveAttempt(d) \/ MarkFailed(d)
  <2>1. UNCHANGED jobVars /\ pc[d] \in {"resolve", "markFailed"} /\ pc'[d] = "release"
    BY <1>1, <1>8 DEF ResolveAttempt, MarkFailed
  <2>. QED  BY <1>1, <2>1 DEF jobVars, HoldsMessage
<1>. QED  BY <1>2, <1>3, <1>4, <1>5, <1>6, <1>7, <1>8 DEF DispatcherStep

\* What becomes of attempt_count: it starts at 0, the cascade clears it, and a dispatcher
\* writes one more than it has read.
LEMMA CountChanges ==
    ASSUME PipelineInv, [Next]_vars, NEW e \in Events
    PROVE  \/ attemptCount'[e] = attemptCount[e]
           \/ attemptCount'[e] = 0 /\ intake[e] = "validated" /\ intake'[e] \in {"inserted", "done"}
           \/ attemptCount'[e] = 0 /\ status'[e] = "absent"
           \/ \E d \in Dispatchers :
                 /\ ResolveAttempt(d) /\ DispatcherStep(d) /\ job[d] = e /\ EventExists(e)
                 /\ attemptCount'[e] = snap[d] + 1
<1>1. /\ attemptCount \in [Events -> Nat]
      /\ status \in [Events -> Statuses \cup {"absent"}]
  BY DEF PipelineInv, TypeOK, StoreTypeOK
<1>2. CASE UNCHANGED storeVars
  BY <1>2 DEF storeVars
<1>3. CASE StoreStep
  BY <1>1, <1>2, <1>3 DEF StoreStep, InsertEvent, UpdateStatus, RetryComesDue, UpdateEndpoint,
                          DeleteEndpoint, eventRow
<1>4. ASSUME NEW d \in Dispatchers, DispatcherStep(d), Writes(d),
             attemptCount'[e] # attemptCount[e]
      PROVE  /\ ResolveAttempt(d) /\ job[d] = e /\ EventExists(e)
             /\ attemptCount'[e] = snap[d] + 1
  <2>1. job[d] \in Events /\ ResolveAttempt(d) /\ UpdateForRetry(job[d], snap[d] + 1)
    BY <1>4, WriteIsStatement DEF InsertAttempt, UpdateStatus, InsertDeadLetter, eventRow
  <2>2. /\ EventExists(job[d])
        /\ attemptCount' = [attemptCount EXCEPT ![job[d]] = snap[d] + 1]
    BY <1>4, <2>1 DEF UpdateForRetry, eventRow
  <2>. QED  BY <1>1, <1>4, <2>1, <2>2
<1>. QED  BY <1>2, <1>3, <1>4, StepOnTables

(***************************************************************************)
(* Part 2: every conjunct of RecordsInv is kept by every step.             *)
(***************************************************************************)

\* ForeignKeys is kept: an event is inserted for an endpoint there is, and goes with it.
LEMMA StepKeepsForeignKeys ==
    ASSUME PipelineInv, RecordsInv, [Next]_vars
    PROVE  ForeignKeys'
<1>. SUFFICES ASSUME NEW e \in Events, status'[e] # "absent"
              PROVE  endpoint'[EndpointOf[e]] # "deleted"
  BY DEF ForeignKeys, EventExists, EndpointExists
<1>1. /\ EndpointOf[e] \in Endpoints
      /\ endpoint \in [Endpoints -> EndpointStates]
      /\ status \in [Events -> Statuses \cup {"absent"}]
      /\ status[e] # "absent" => endpoint[EndpointOf[e]] # "deleted"
  BY StoreAssumption
     DEF PipelineInv, TypeOK, StoreTypeOK, RecordsInv, ForeignKeys, EventExists, EndpointExists
<1>2. CASE UNCHANGED storeVars
  BY <1>1, <1>2 DEF storeVars
<1>3. CASE StoreStep
  BY <1>1, <1>2, <1>3 DEF StoreStep, InsertEvent, UpdateStatus, RetryComesDue, UpdateEndpoint,
                          DeleteEndpoint, eventRow, EventExists, EndpointExists
<1>4. ASSUME NEW d \in Dispatchers, Writes(d)
      PROVE  endpoint'[EndpointOf[e]] # "deleted"
  <2>1. UNCHANGED endpoint
    BY <1>4, WriteIsStatement DEF InsertAttempt, UpdateStatus, UpdateForRetry, InsertDeadLetter
  <2>2. status[e] # "absent"
    BY <1>1, <1>4, WriteIsStatement
       DEF InsertAttempt, UpdateStatus, UpdateForRetry, InsertDeadLetter, eventRow, EventExists
  <2>. QED  BY <1>1, <2>1, <2>2
<1>. QED  BY <1>2, <1>3, <1>4, StepOnTables

\* A request never goes back to before its INSERT.
LEMMA RequestsGoOn ==
    ASSUME PipelineInv, [Next]_vars, NEW e \in Events, intake'[e] \in {"new", "validated"}
    PROVE  intake[e] \in {"new", "validated"}
<1>1. intake \in [Events -> IntakeStages]
  BY DEF PipelineInv, TypeOK, IntakeTypeOK
<1>2. CASE UNCHANGED intake
  BY <1>2
<1>3. ASSUME NEW f \in Events, IntakeStep(f) \/ IntakeCrash(f)
      PROVE  intake[e] \in {"new", "validated"}
  BY <1>1, <1>3 DEF IntakeStep, IntakeCrash, AcceptRequest, RejectRequest, CreateEvent,
                    PublishCreated, MarkCreatedQueued, AbandonRequest, Stage
<1>. QED  BY <1>2, <1>3
          DEF Next, vars, SchedulerStep, SchedulerCrash, DispatcherStep, DispatcherCrash,
              Assign, Rebalance, RetryDue, LockTimeout, CacheTimeout, Edit

\* RequestsAreUnstored is kept: nothing but its own INSERT creates a row.
LEMMA StepKeepsRequestsUnstored ==
    ASSUME PipelineInv, RecordsInv, [Next]_vars
    PROVE  RequestsAreUnstored'
<1>. SUFFICES ASSUME NEW e \in Events, intake'[e] \in {"new", "validated"}
              PROVE  status'[e] = "absent" /\ attemptCount'[e] = 0
  BY DEF RequestsAreUnstored, EventExists
<1>1. status \in [Events -> Statuses \cup {"absent"}]
  BY DEF PipelineInv, TypeOK, StoreTypeOK
<1>2. intake[e] \in {"new", "validated"}
  BY RequestsGoOn
<1>3. status[e] = "absent" /\ attemptCount[e] = 0
  BY <1>2 DEF RecordsInv, RequestsAreUnstored, EventExists
<1>4. attemptCount'[e] = 0
  BY <1>3, CountChanges DEF EventExists
<1>5. status'[e] = "absent"
  <2>1. CASE UNCHANGED storeVars
    BY <1>3, <2>1 DEF storeVars
  <2>2. CASE StoreStep
    BY <1>1, <1>3, <2>1, <2>2
       DEF StoreStep, InsertEvent, UpdateStatus, RetryComesDue, UpdateEndpoint, DeleteEndpoint,
           eventRow, EventExists
  <2>3. ASSUME NEW d \in Dispatchers, Writes(d)
        PROVE  status'[e] = "absent"
    BY <1>1, <1>3, <2>3, WriteIsStatement
       DEF InsertAttempt, UpdateStatus, UpdateForRetry, InsertDeadLetter, eventRow, EventExists
  <2>. QED  BY <2>1, <2>2, <2>3, StepOnTables
<1>. QED  BY <1>4, <1>5

\* What a dispatcher other than the one that takes the step relies on.
LEMMA OthersStay ==
    ASSUME PipelineInv, [Next]_vars
    PROVE  \/ UNCHANGED dispatcherVars
           \/ \E d \in Dispatchers :
                 /\ DispatcherStep(d) \/ StopDispatcher(d)
                 /\ \A f \in Dispatchers \ {d} :
                       /\ pc'[f] = pc[f] /\ job'[f] = job[f]
                       /\ snap'[f] = snap[f] /\ outcome'[f] = outcome[f]
BY StepOfDispatcherOrNot, DispatcherLocality DEF DispatcherCrash

\* JobsAreKnown is kept: GetEvent has seen the row, and only the cascade removes it.
LEMMA StepKeepsJobsKnown ==
    ASSUME PipelineInv, RecordsInv, [Next]_vars
    PROVE  JobsAreKnown'
<1>. DEFINE AtWorkOrAbout == LockedCalls \cup {"acquire"}
<1>. SUFFICES ASSUME NEW f \in Dispatchers, pc'[f] \in AtWorkOrAbout
              PROVE  status'[job'[f]] # "absent" \/ endpoint'[EndpointOf[job'[f]]] = "deleted"
  BY DEF JobsAreKnown, EventExists, EndpointExists
<1>1. /\ job'[f] = job[f]
      /\ job[f] \in Events
      /\ pc[f] \in AtWorkOrAbout \/ EventExists(job[f])
  <2>1. ASSUME pc'[f] = pc[f], job'[f] = job[f]
        PROVE  job'[f] = job[f] /\ job[f] \in Events /\ pc[f] \in AtWorkOrAbout
    BY <2>1, JobOfHolder DEF HoldsMessage, LockedCalls, PipelineInv
  <2>2. CASE UNCHANGED dispatcherVars
    BY <2>1, <2>2 DEF dispatcherVars, jobVars
  <2>3. ASSUME NEW d \in Dispatchers, DispatcherStep(d) \/ StopDispatcher(d),
               f # d => pc'[f] = pc[f] /\ job'[f] = job[f]
        PROVE  /\ job'[f] = job[f] /\ job[f] \in Events
               /\ pc[f] \in AtWorkOrAbout \/ EventExists(job[f])
    BY <2>1, <2>3, DispatcherMoves
  <2>. QED  BY <2>2, <2>3, OthersStay
<1>2. EventExists(job[f]) \/ ~EndpointExists(job[f])
  BY <1>1 DEF RecordsInv, JobsAreKnown
<1>. QED  BY <1>1, <1>2, TablesOnlyGrow DEF Kept

\* FailedAreBuried is kept: the row is inserted unless the endpoint is gone.
LEMMA StepKeepsFailedBuried ==
    ASSUME PipelineInv, RecordsInv, [Next]_vars
    PROVE  FailedAreBuried'
<1>. DEFINE Buried1(e) == \/ \E r \in Reasons : deadLetters'[e][r] > 0
                          \/ endpoint'[EndpointOf[e]] = "deleted"
<1>. SUFFICES ASSUME "postgres" \notin Faults, NEW f \in Dispatchers, pc'[f] = "markFailed"
              PROVE  Buried1(job'[f])
  BY DEF FailedAreBuried, DeadLettered, EndpointExists
<1>1. ASSUME pc[f] = "markFailed", job'[f] = job[f]
      PROVE  Buried1(job'[f])
  <2>1. job[f] \in Events /\ (DeadLettered(job[f]) \/ ~EndpointExists(job[f]))
    BY <1>1, JobOfHolder DEF HoldsMessage, PipelineInv, RecordsInv, FailedAreBuried
  <2>. QED  BY <1>1, <2>1, TablesOnlyGrow DEF Kept
<1>2. CASE UNCHANGED dispatcherVars
  BY <1>1, <1>2 DEF dispatcherVars, jobVars
<1>3. ASSUME CreateDeadLetter(f)
      PROVE  Buried1(job'[f])
  <2>1. /\ job[f] \in Events /\ outcome[f] \in Reasons /\ job' = job
        /\ InsertDeadLetter(job[f], outcome[f])
    BY <1>3, WriteIsStatement
       DEF Writes, CreateDeadLetter, RecordAttempt, ResolveAttempt, MarkFailed, jobVars
  <2>2. deadLetters[job[f]] \in [Reasons -> Nat] /\ deadLetters \in [Events -> [Reasons -> Nat]]
    BY <2>1 DEF PipelineInv, TypeOK, StoreTypeOK
  <2>3. CASE ~EndpointExists(job[f])
    BY <2>1, <2>3 DEF InsertDeadLetter, EndpointExists
  <2>4. CASE deadLetters' = [deadLetters EXCEPT ![job[f]][outcome[f]] = @ + 1]
    <3>1. deadLetters'[job[f]] = [deadLetters[job[f]] EXCEPT ![outcome[f]] = @ + 1]
      BY <2>1, <2>2, <2>4
    <3>2. deadLetters'[job[f]][outcome[f]] > 0
      BY <2>1, <2>2, <3>1
    <3>. QED  BY <2>1, <3>2
  <2>. QED  BY <2>1, <2>3, <2>4 DEF InsertDeadLetter
<1>4. ASSUME NEW d \in Dispatchers, DispatcherStep(d) \/ StopDispatcher(d),
             f # d => pc'[f] = pc[f] /\ job'[f] = job[f]
      PROVE  Buried1(job'[f])
  BY <1>1, <1>3, <1>4, DispatcherMoves
<1>. QED  BY <1>2, <1>4, OthersStay

\* AttemptsAreRecorded is kept: the insert is refused only when the event is gone.
LEMMA StepKeepsAttemptsRecorded ==
    ASSUME PipelineInv, RecordsInv, [Next]_vars
    PROVE  AttemptsAreRecorded'
<1>. DEFINE Recorded(e) == attemptRows'[e] > 0 \/ endpoint'[EndpointOf[e]] = "deleted"
<1>. SUFFICES ASSUME ~AuditMayFail, NEW f \in Dispatchers, pc'[f] = "resolve"
              PROVE  Recorded(job'[f])
  BY DEF AttemptsAreRecorded, EndpointExists
<1>0. attemptRows \in [Events -> Nat] /\ attemptRows' \in [Events -> Nat]
  BY StepKeepsTypes DEF PipelineInv, TypeOK, StoreTypeOK
<1>1. ASSUME pc[f] = "resolve", job'[f] = job[f]
      PROVE  Recorded(job'[f])
  <2>1. job[f] \in Events /\ (attemptRows[job[f]] > 0 \/ ~EndpointExists(job[f]))
    BY <1>1, JobOfHolder DEF HoldsMessage, PipelineInv, RecordsInv, AttemptsAreRecorded
  <2>. QED  BY <1>0, <1>1, <2>1, TablesOnlyGrow DEF Kept
<1>2. CASE UNCHANGED dispatcherVars
  BY <1>1, <1>2 DEF dispatcherVars, jobVars
<1>3. ASSUME RecordAttempt(f)
      PROVE  Recorded(job'[f])
  <2>1. /\ job[f] \in Events /\ job' = job /\ pc[f] = "record"
        /\ InsertAttempt(job[f])
    BY <1>3, WriteIsStatement DEF Writes, RecordAttempt, jobVars
  <2>2. EventExists(job[f]) \/ ~EndpointExists(job[f])
    BY <2>1 DEF RecordsInv, JobsAreKnown, LockedCalls
  <2>. QED  BY <1>0, <2>1, <2>2 DEF InsertAttempt, EndpointExists
<1>4. ASSUME NEW d \in Dispatchers, DispatcherStep(d) \/ StopDispatcher(d),
             f # d => pc'[f] = pc[f] /\ job'[f] = job[f]
      PROVE  Recorded(job'[f])
  BY <1>1, <1>3, <1>4, DispatcherMoves
<1>. QED  BY <1>2, <1>4, OthersStay

\* The history of acknowledged POSTs only grows.
LEMMA AckedOnlyGrows ==
    ASSUME PipelineInv, [Next]_vars, NEW e \in Events
    PROVE  acked[e] \in Nat /\ acked'[e] \in Nat /\ acked[e] <= acked'[e]
<1>1. acked \in [Events -> Nat] /\ acked' \in [Events -> Nat]
  BY StepKeepsTypes DEF PipelineInv, TypeOK, DispatcherTypeOK
<1>2. CASE UNCHANGED acked
  BY <1>1, <1>2
<1>3. ASSUME NEW d \in Dispatchers, Deliver(d)
      PROVE  acked[e] <= acked'[e]
  BY <1>1, <1>3 DEF Deliver
<1>4. ASSUME NEW d \in Dispatchers, DispatcherStep(d) \/ StopDispatcher(d), ~Deliver(d)
      PROVE  UNCHANGED acked
  BY <1>4 DEF DispatcherStep, StopDispatcher, FetchMessage, GetEvent, Acquire, BreakerAllow,
              GetCached, GetEndpoint, PutCached, RecordAttempt, ResolveAttempt, CreateDeadLetter,
              MarkFailed, ReleaseGet, ReleaseDelete, CommitMessage, StartDispatcher, Return,
              Forget, historyVars
<1>5. UNCHANGED dispatcherVars => UNCHANGED acked
  BY DEF dispatcherVars, historyVars
<1>. QED  BY <1>1, <1>2, <1>3, <1>4, <1>5, OthersStay

\* AcknowledgedIsAcked is kept: only Deliver comes to "ok", and it counts.
LEMMA StepKeepsAcknowledged ==
    ASSUME PipelineInv, RecordsInv, [Next]_vars
    PROVE  AcknowledgedIsAcked'
<1>. SUFFICES ASSUME NEW f \in Dispatchers, outcome'[f] = "ok"
              PROVE  acked'[job'[f]] > 0
  BY DEF AcknowledgedIsAcked
<1>0. /\ outcome \in [Dispatchers -> Outcomes]
      /\ pc \in [Dispatchers -> Calls \cup {"down"}]
      /\ endpoint \in [Endpoints -> EndpointStates]
      /\ cached \in [Endpoints -> {"none", "active", "inactive"}]
  BY DEF PipelineInv, TypeOK, StoreTypeOK, RedisTypeOK, DispatcherTypeOK
<1>1. ASSUME outcome[f] = "ok", job'[f] = job[f]
      PROVE  acked'[job'[f]] > 0
  <2>1. pc[f] \notin {"fetch", "down"}
    BY <1>1 DEF PipelineInv, OutcomeIsFresh, Unposted
  <2>2. job[f] \in Events /\ acked[job[f]] > 0
    BY <1>1, <2>1, JobOfHolder DEF HoldsMessage, PipelineInv, RecordsInv, AcknowledgedIsAcked
  <2>. QED  BY <1>1, <2>2, AckedOnlyGrows
<1>2. CASE UNCHANGED dispatcherVars
  BY <1>1, <1>2 DEF dispatcherVars, jobVars
<1>3. ASSUME Deliver(f)
      PROVE  acked'[job'[f]] > 0
  <2>1. job[f] \in Events /\ acked \in [Events -> Nat]
    BY <1>3, JobOfHolder DEF Deliver, HoldsMessage, PipelineInv, TypeOK, DispatcherTypeOK
  <2>2. acked' = [acked EXCEPT ![job[f]] = @ + 1] /\ job' = job
    BY <1>0, <1>3 DEF Deliver, Result, jobVars
  <2>. QED  BY <2>1, <2>2
<1>4. ASSUME DispatcherStep(f) \/ StopDispatcher(f), ~Deliver(f)
      PROVE  outcome[f] = "ok" /\ job'[f] = job[f]
  <2>1. CASE GetCached(f)
    BY <1>0, <2>1 DEF GetCached, Found, Result, jobVars
  <2>2. CASE GetEndpoint(f)
    <3>1. endpoint[EndpointOf[job[f]]] \in EndpointStates
      BY <1>0, <2>2, JobOfHolder, StoreAssumption DEF GetEndpoint, HoldsMessage, PipelineInv
    <3>. QED  BY <1>0, <2>2, <3>1 DEF GetEndpoint, Found, Result, jobVars, EndpointStates
  <2>3. CASE CommitMessage(f) \/ StopDispatcher(f)
    BY <1>0, <2>3 DEF CommitMessage, StopDispatcher, Forget
  <2>4. CASE FetchMessage(f)
    BY <2>4 DEF FetchMessage, PipelineInv, OutcomeIsFresh, Unposted
  <2>5. CASE GetEvent(f) \/ Acquire(f) \/ ReleaseGet(f) \/ ReleaseDelete(f)
    BY <2>5 DEF GetEvent, Acquire, ReleaseGet, ReleaseDelete, Return, jobVars
  <2>6. CASE BreakerAllow(f) \/ PutCached(f) \/ RecordAttempt(f) \/ ResolveAttempt(f)
             \/ CreateDeadLetter(f) \/ MarkFailed(f) \/ StartDispatcher(f)
    BY <2>6 DEF BreakerAllow, PutCached, RecordAttempt, ResolveAttempt, CreateDeadLetter,
                MarkFailed, StartDispatcher, jobVars
  <2>. QED  BY <1>4, <2>1, <2>2, <2>3, <2>4, <2>5, <2>6 DEF DispatcherStep
<1>5. ASSUME NEW d \in Dispatchers, DispatcherStep(d) \/ StopDispatcher(d),
             f # d => outcome'[f] = outcome[f] /\ job'[f] = job[f]
      PROVE  acked'[job'[f]] > 0
  BY <1>1, <1>3, <1>4, <1>5
<1>. QED  BY <1>2, <1>5, OthersStay

\* HoldersOwnPartition is kept: a message is handed to the owner, and a partition that
\* is free has no holder of a message left.
LEMMA StepKeepsHoldersOwn ==
    ASSUME PipelineInv, RecordsInv, [Next]_vars
    PROVE  HoldersOwnPartition'
<1>. USE DEF HoldsMessage
<1>. SUFFICES ASSUME rebalances' = 0, NEW f \in Dispatchers, pc'[f] \notin {"fetch", "down"}
              PROVE  owner' = f
  BY DEF HoldersOwnPartition
<1>0. /\ rebalances \in Nat /\ ~\E d \in Dispatchers : Rebalance(d)
      /\ pc \in [Dispatchers -> Calls \cup {"down"}]
      /\ NoOne \notin Dispatchers
  BY TopicAssumption DEF Rebalance, PipelineInv, TypeOK, DispatcherTypeOK
<1>1. rebalances = 0
  BY <1>0 DEF Next, vars, IntakeStep, IntakeCrash, SchedulerStep, SchedulerCrash, DispatcherStep,
              DispatcherCrash, Assign, RetryDue, LockTimeout, CacheTimeout, Edit, Crash,
              budgetVars
<1>2. ASSUME pc[f] \notin {"fetch", "down"}
      PROVE  owner = f
  BY <1>1, <1>2 DEF RecordsInv, HoldersOwnPartition
<1>3. ASSUME UNCHANGED pc, UNCHANGED owner
      PROVE  owner' = f
  BY <1>2, <1>3
<1>4. ASSUME NEW d \in Dispatchers, DispatcherStep(d)
      PROVE  owner' = f
  <2>1. CASE FetchMessage(d)
    BY <1>0, <1>2, <2>1 DEF FetchMessage, Goto
  <2>2. CASE StartDispatcher(d) \/ CommitMessage(d)
    <3>1. UNCHANGED owner /\ f # d
      BY <1>0, <2>2 DEF StartDispatcher, CommitMessage, CommitOffset, topicVars, Goto
    <3>. QED  BY <1>2, <1>4, <3>1, DispatcherLocality
  <2>3. CASE ~(FetchMessage(d) \/ StartDispatcher(d) \/ CommitMessage(d))
    <3>1. UNCHANGED owner /\ pc[d] \notin {"fetch", "down"}
      BY <1>4, <2>3 DEF DispatcherStep, GetEvent, Acquire, BreakerAllow, GetCached, GetEndpoint,
              PutCached, Deliver, RecordAttempt, ResolveAttempt, CreateDeadLetter, MarkFailed,
              ReleaseGet, ReleaseDelete, topicVars
    <3>. QED  BY <1>2, <1>4, <3>1, DispatcherLocality
  <2>. QED  BY <2>1, <2>2, <2>3
<1>5. ASSUME NEW d \in Dispatchers, DispatcherCrash(d)
      PROVE  owner' = f
  <2>1. f # d /\ owner' = (IF owner = d THEN NoOne ELSE owner) /\ pc'[f] = pc[f]
    BY <1>0, <1>5 DEF DispatcherCrash, StopDispatcher, Goto
  <2>. QED  BY <1>2, <2>1
<1>6. ASSUME NEW d \in Dispatchers, Assign(d)
      PROVE  owner' = f
  BY <1>0, <1>2, <1>6 DEF Assign, dispatcherVars
<1>7. ASSUME ~\E d \in Dispatchers : DispatcherStep(d) \/ DispatcherCrash(d) \/ Assign(d)
      PROVE  UNCHANGED <<pc, owner>>
  BY <1>0, <1>7 DEF Next, vars, IntakeStep, IntakeCrash, AcceptRequest, RejectRequest, CreateEvent,
              PublishCreated, MarkCreatedQueued, AbandonRequest, Publish, PublishFails,
              SchedulerStep, SchedulerCrash, FindRetryable, Republish, MarkRetryQueued,
              RestartScheduler, RetryDue, LockTimeout, CacheTimeout, Edit, topicVars,
              dispatcherVars
<1>. QED  BY <1>3, <1>4, <1>5, <1>6, <1>7

\* SnapshotsAreCurrent is kept: the only holder is the only one to write a count.
LEMMA StepKeepsSnapshotsCurrent ==
    ASSUME PipelineInv, RecordsInv, [Next]_vars
    PROVE  SnapshotsAreCurrent'
<1>. SUFFICES ASSUME rebalances' = 0, NEW f \in Dispatchers, pc'[f] \in BeforeResolved
              PROVE  attemptCount'[job'[f]] <= snap'[f]
  BY DEF SnapshotsAreCurrent
<1>0. /\ rebalances = 0
      /\ attemptCount \in [Events -> Nat] /\ snap \in [Dispatchers -> Nat]
      /\ pc \in [Dispatchers -> Calls \cup {"down"}]
      /\ BeforeResolved \subseteq LockedCalls \cup {"acquire"}
  <2>1. rebalances \in Nat
    BY DEF PipelineInv, TypeOK
  <2>. QED  BY <2>1 DEF Next, vars, IntakeStep, IntakeCrash, SchedulerStep, SchedulerCrash,
              DispatcherStep, DispatcherCrash, Assign, Rebalance, RetryDue, LockTimeout,
              CacheTimeout, Edit, Crash, budgetVars, PipelineInv, TypeOK, StoreTypeOK,
              DispatcherTypeOK, BeforeResolved, LockedCalls
<1>1. /\ job'[f] = job[f] /\ job[f] \in Events /\ snap'[f] \in Nat
      /\ attemptCount[job[f]] <= snap'[f]
      /\ pc[f] \in BeforeResolved \/ GetEvent(f)
  <2>1. ASSUME pc[f] \in BeforeResolved
        PROVE  job[f] \in Events /\ attemptCount[job[f]] <= snap[f]
    BY <1>0, <2>1, JobOfHolder
       DEF HoldsMessage, BeforeResolved, PipelineInv, RecordsInv, SnapshotsAreCurrent
  <2>2. CASE UNCHANGED dispatcherVars
    BY <1>0, <2>1, <2>2 DEF dispatcherVars, jobVars
  <2>3. ASSUME NEW d \in Dispatchers, DispatcherStep(d) \/ StopDispatcher(d),
               f # d => pc'[f] = pc[f] /\ job'[f] = job[f] /\ snap'[f] = snap[f]
        PROVE  /\ job'[f] = job[f] /\ job[f] \in Events /\ snap'[f] \in Nat
               /\ attemptCount[job[f]] <= snap'[f]
               /\ pc[f] \in BeforeResolved \/ GetEvent(f)
    BY <1>0, <2>1, <2>3, DispatcherMoves
  <2>. QED  BY <2>2, <2>3, OthersStay
<1>2. ASSUME NEW d \in Dispatchers, ResolveAttempt(d), DispatcherStep(d)
      PROVE  FALSE
  <2>1. pc[f] \notin {"fetch", "down"} /\ pc[d] = "resolve"
    BY <1>1, <1>2 DEF BeforeResolved, GetEvent, ResolveAttempt
  <2>2. f = d
    BY <1>0, <2>1 DEF RecordsInv, HoldersOwnPartition, HoldsMessage
  <2>3. pc'[d] = "release"
    BY <1>0, <1>2 DEF ResolveAttempt, Goto
  <2>. QED  BY <2>2, <2>3 DEF BeforeResolved
<1>. QED  BY <1>0, <1>1, <1>2, CountChanges

\* FailedHasDeadLetter and DeliveredIsAudited are kept: a status is written last, and
\* what came with it stays.
LEMMA StepKeepsStatusesBacked ==
    ASSUME PipelineInv, RecordsInv, [Next]_vars
    PROVE  FailedHasDeadLetter' /\ DeliveredIsAudited'
<1>. USE DEF EventExists, EndpointExists
<1>0. /\ status \in [Events -> Statuses \cup {"absent"}]
      /\ attemptRows \in [Events -> Nat] /\ attemptRows' \in [Events -> Nat]
  BY StepKeepsTypes DEF PipelineInv, TypeOK, StoreTypeOK
<1>1. ASSUME NEW e \in Events, status'[e] \in Resolved
      PROVE  \/ status'[e] = status[e]
             \/ \E d \in Dispatchers : /\ job[d] = e /\ EventExists(e)
                                       /\ \/ MarkFailed(d) /\ status'[e] = "failed"
                                          \/ /\ ResolveAttempt(d) /\ outcome[d] = "ok"
                                             /\ status'[e] = "delivered"
  <2>1. CASE UNCHANGED storeVars
    BY <2>1 DEF storeVars
  <2>2. CASE StoreStep
    BY <1>0, <1>1, <2>1, <2>2
       DEF StoreStep, InsertEvent, UpdateStatus, RetryComesDue, UpdateEndpoint, DeleteEndpoint,
           eventRow, Resolved
  <2>3. ASSUME NEW d \in Dispatchers, Writes(d), status'[e] # status[e]
        PROVE  /\ job[d] = e /\ EventExists(e)
               /\ \/ MarkFailed(d) /\ status'[e] = "failed"
                  \/ ResolveAttempt(d) /\ outcome[d] = "ok" /\ status'[e] = "delivered"
    BY <1>0, <1>1, <2>3, WriteIsStatement
       DEF InsertAttempt, UpdateStatus, UpdateForRetry, InsertDeadLetter, eventRow, Resolved
  <2>. QED  BY <2>1, <2>2, <2>3, StepOnTables
<1>2. ASSUME NEW e \in Events, status'[e] \in Resolved
      PROVE  EndpointExists(e) /\ endpoint'[EndpointOf[e]] # "deleted"
  <2>1. status'[e] # "absent"
    BY <1>2 DEF Resolved
  <2>. QED  BY <2>1, TablesOnlyGrow, StepKeepsForeignKeys DEF Kept, ForeignKeys
<1>3. ASSUME NEW e \in Events, "postgres" \notin Faults, status'[e] = "failed"
      PROVE  \E r \in Reasons : deadLetters'[e][r] > 0
  <2>1. DeadLettered(e)
    BY <1>1, <1>2, <1>3
       DEF RecordsInv, FailedHasDeadLetter, FailedAreBuried, MarkFailed, Resolved
  <2>. QED  BY <1>2, <1>3, <2>1, TablesOnlyGrow DEF Kept, Resolved
<1>4. ASSUME NEW e \in Events, status'[e] = "delivered"
      PROVE  acked'[e] > 0
  <2>1. acked[e] > 0
    BY <1>1, <1>4 DEF RecordsInv, DeliveredIsAudited, AcknowledgedIsAcked, Resolved
  <2>. QED  BY <2>1, AckedOnlyGrows
<1>5. ASSUME NEW e \in Events, ~AuditMayFail, status'[e] = "delivered"
      PROVE  attemptRows'[e] > 0
  <2>1. attemptRows[e] > 0
    BY <1>1, <1>2, <1>5
       DEF RecordsInv, DeliveredIsAudited, AttemptsAreRecorded, ResolveAttempt, Resolved
  <2>. QED  BY <1>0, <1>2, <1>5, <2>1, TablesOnlyGrow DEF Kept, Resolved
<1>6. FailedHasDeadLetter'
  BY <1>3 DEF FailedHasDeadLetter, DeadLettered
<1>7. DeliveredIsAudited'
  BY <1>4, <1>5 DEF DeliveredIsAudited
<1>. QED  BY <1>6, <1>7

\* Nothing is on record when nothing has been accepted.
LEMMA InitRecords == Init => RecordsInv
<1>. SUFFICES ASSUME Init PROVE RecordsInv
  OBVIOUS
<1>. USE DEF Init, StoreInit, IntakeInit, DispatcherInit
<1>1. ForeignKeys /\ RequestsAreUnstored
  BY DEF ForeignKeys, RequestsAreUnstored, EventExists
<1>2. JobsAreKnown /\ FailedAreBuried /\ AttemptsAreRecorded /\ AcknowledgedIsAcked
  BY DEF JobsAreKnown, FailedAreBuried, AttemptsAreRecorded, AcknowledgedIsAcked, LockedCalls
<1>3. HoldersOwnPartition /\ SnapshotsAreCurrent
  BY DEF HoldersOwnPartition, SnapshotsAreCurrent, HoldsMessage, BeforeResolved
<1>4. FailedHasDeadLetter /\ DeliveredIsAudited
  BY DEF FailedHasDeadLetter, DeliveredIsAudited
<1>. QED  BY <1>1, <1>2, <1>3, <1>4 DEF RecordsInv

(***************************************************************************)
(* Part 3: every conjunct of EffectsInv is kept by every step.             *)
(***************************************************************************)

\* Whose message a step may publish, and how the log grows by it.
LEMMA LogChanges ==
    ASSUME PipelineInv, [Next]_vars
    PROVE  \/ UNCHANGED log
           \/ \E e \in Events :
                 /\ intake[e] = "inserted" \/ \E s \in Schedulers : e \in batch[s]
                 /\ log' \in {Append(log, e), Append(Append(log, e), e)}
                 /\ UNCHANGED dispatcherVars
<1>1. CASE UNCHANGED vars
  BY <1>1 DEF vars, topicVars
<1>2. ASSUME NEW e \in Events, IntakeStep(e) \/ IntakeCrash(e), log' # log
      PROVE  intake[e] = "inserted" /\ log' \in {Append(log, e), Append(Append(log, e), e)}
             /\ UNCHANGED dispatcherVars
  BY <1>2 DEF IntakeStep, IntakeCrash, AcceptRequest, RejectRequest, CreateEvent, PublishCreated,
              MarkCreatedQueued, AbandonRequest, Stage, Publish, PublishFails, topicVars
<1>3. ASSUME NEW s \in Schedulers, SchedulerStep(s) \/ SchedulerCrash(s), log' # log
      PROVE  /\ \E e \in batch[s] : log' \in {Append(log, e), Append(Append(log, e), e)}
             /\ UNCHANGED dispatcherVars
  BY <1>3 DEF SchedulerStep, SchedulerCrash, FindRetryable, Republish, MarkRetryQueued,
              RestartScheduler, Publish, PublishFails, topicVars
<1>4. ASSUME NEW d \in Dispatchers, DispatcherStep(d) \/ DispatcherCrash(d)
      PROVE  UNCHANGED log
  BY <1>4, DispatcherLocality DEF DispatcherCrash
<1>5. ASSUME NEW d \in Dispatchers, Assign(d) \/ Rebalance(d)
      PROVE  UNCHANGED log
  BY <1>5 DEF Assign, Rebalance, AssignTo
<1>6. ASSUME NEW e \in Events, RetryDue(e) \/ LockTimeout(e)
      PROVE  UNCHANGED log
  BY <1>6 DEF RetryDue, LockTimeout, topicVars
<1>7. ASSUME NEW p \in Endpoints, CacheTimeout(p) \/ Edit(p)
      PROVE  UNCHANGED log
  BY <1>7 DEF CacheTimeout, Edit, topicVars
<1>8. \A s \in Schedulers : batch[s] \subseteq Events
  BY DEF PipelineInv, TypeOK, SchedulerTypeOK
<1>. QED  BY <1>1, <1>2, <1>3, <1>4, <1>5, <1>6, <1>7, <1>8 DEF Next

\* What appending one message, or two, does to the others.
LEMMA AppendKeeps ==
    ASSUME log \in Seq(Events), NEW e \in Events,
           NEW longer \in {Append(log, e), Append(Append(log, e), e)}
    PROVE  /\ \A i \in 1..Len(log) : i \in 1..Len(longer) /\ longer[i] = log[i]
           /\ \A i \in 1..Len(longer) : i \in 1..Len(log) \/ longer[i] = e
<1>. DEFINE once == Append(log, e)
<1>1. /\ once \in Seq(Events) /\ Len(once) = Len(log) + 1 /\ Len(log) \in Nat
      /\ \A i \in 1..Len(log) : once[i] = log[i]
      /\ once[Len(log) + 1] = e
  OBVIOUS
<1>. HIDE DEF once
<1>2. /\ Len(Append(once, e)) = Len(once) + 1
      /\ \A i \in 1..Len(once) : Append(once, e)[i] = once[i]
      /\ Append(once, e)[Len(once) + 1] = e
  BY <1>1
<1>3. CASE longer = once
  BY <1>1, <1>3
<1>4. CASE longer = Append(once, e)
  BY <1>1, <1>2, <1>4
<1>. QED  BY <1>3, <1>4 DEF once

\* A message of the log stays where it is.
LEMMA LogKeepsMessages ==
    ASSUME PipelineInv, [Next]_vars
    PROVE  \A i \in 1..Len(log) : i \in 1..Len(log') /\ log'[i] = log[i]
<1>1. log \in Seq(Events)
  BY DEF PipelineInv, TypeOK, TopicTypeOK
<1>. QED  BY <1>1, LogChanges, AppendKeeps

\* What of its message a dispatcher's step keeps.
LEMMA MessageMoves ==
    ASSUME PipelineInv, NEW d \in Dispatchers, DispatcherStep(d) \/ StopDispatcher(d)
    PROVE  \/ /\ FetchMessage(d) /\ position[d] + 1 \in 1..Len(log)
              /\ job'[d] = log[position[d] + 1] /\ offset'[d] = position[d] + 1
           \/ job'[d] = NoEvent /\ pc'[d] \in {"fetch", "down"}
           \/ job'[d] = job[d] /\ offset'[d] = offset[d] /\ (HoldsMessage(d)' => HoldsMessage(d))
<1>0. /\ pc \in [Dispatchers -> Calls \cup {"down"}]
      /\ job \in [Dispatchers -> Events \cup {NoEvent}]
      /\ offset \in [Dispatchers -> 0..Len(log)]
      /\ position \in [Dispatchers -> 0..Len(log)]
      /\ Len(log) \in Nat
  BY DEF PipelineInv, TypeOK, TopicTypeOK, DispatcherTypeOK
<1>1. CASE FetchMessage(d)
  <2>1. /\ job'[d] = log[position[d] + 1] /\ offset'[d] = position[d] + 1
        /\ position[d] < Len(log) /\ position[d] \in Nat
    BY <1>0, <1>1 DEF FetchMessage
  <2>. QED  BY <1>0, <1>1, <2>1
<1>2. CASE CommitMessage(d) \/ StopDispatcher(d)
  BY <1>0, <1>2 DEF CommitMessage, StopDispatcher, Forget, Goto
<1>3. CASE StartDispatcher(d)
  BY <1>0, <1>3 DEF StartDispatcher, Goto, HoldsMessage, jobVars
<1>4. CASE GetEvent(d) \/ Acquire(d) \/ ReleaseGet(d) \/ ReleaseDelete(d)
  BY <1>4 DEF GetEvent, Acquire, ReleaseGet, ReleaseDelete, Return, HoldsMessage, jobVars
<1>5. CASE BreakerAllow(d) \/ GetCached(d) \/ GetEndpoint(d) \/ PutCached(d) \/ Deliver(d)
           \/ RecordAttempt(d) \/ ResolveAttempt(d) \/ CreateDeadLetter(d) \/ MarkFailed(d)
  BY <1>5 DEF BreakerAllow, GetCached, GetEndpoint, PutCached, Deliver, RecordAttempt,
              ResolveAttempt, CreateDeadLetter, MarkFailed, HoldsMessage, jobVars
<1>. QED  BY <1>1, <1>2, <1>3, <1>4, <1>5 DEF DispatcherStep

\* JobIsMessage is kept.
LEMMA StepKeepsJobIsMessage ==
    ASSUME PipelineInv, EffectsInv, [Next]_vars
    PROVE  JobIsMessage'
<1>. SUFFICES ASSUME NEW f \in Dispatchers, pc'[f] \notin {"fetch", "down"}
              PROVE  job'[f] = log'[offset'[f]]
  BY DEF JobIsMessage, HoldsMessage
<1>1. ASSUME HoldsMessage(f), job'[f] = job[f], offset'[f] = offset[f]
      PROVE  job'[f] = log'[offset'[f]]
  BY <1>1, LogKeepsMessages DEF EffectsInv, JobIsMessage, PipelineInv, LocalsAreSet
<1>2. CASE UNCHANGED dispatcherVars
  BY <1>1, <1>2 DEF dispatcherVars, jobVars, HoldsMessage
<1>3. ASSUME NEW d \in Dispatchers, DispatcherStep(d) \/ StopDispatcher(d)
      PROVE  job'[f] = log'[offset'[f]]
  <2>1. CASE f # d
    BY <1>1, <1>3, <2>1, DispatcherLocality DEF HoldsMessage
  <2>2. CASE f = d
    <3>1. log' = log
      BY <1>3, DispatcherLocality
    <3>. QED  BY <1>1, <1>3, <2>2, <3>1, MessageMoves DEF HoldsMessage
  <2>. QED  BY <2>1, <2>2
<1>. QED  BY <1>2, <1>3, OthersStay

\* Only Deliver counts a POST, and only RecordAttempt adds to delivery_attempts.
LEMMA CountsOfOthers ==
    ASSUME PipelineInv, [Next]_vars, NEW e \in Events
    PROVE  /\ \/ UNCHANGED <<acked[e], refused[e]>>
              \/ \E d \in Dispatchers : Deliver(d) /\ DispatcherStep(d) /\ job[d] = e
           /\ \/ UNCHANGED attemptRows[e]
              \/ attemptRows'[e] = 0 /\ status'[e] = "absent"
              \/ \E d \in Dispatchers :
                    RecordAttempt(d) /\ DispatcherStep(d) /\ job[d] = e /\ EventExists(e)
<1>0. /\ acked \in [Events -> Nat] /\ refused \in [Events -> Nat]
      /\ attemptRows \in [Events -> Nat] /\ status \in [Events -> Statuses \cup {"absent"}]
  BY DEF PipelineInv, TypeOK, StoreTypeOK, DispatcherTypeOK
<1>1. ASSUME NEW d \in Dispatchers, Deliver(d), job[d] # e
      PROVE  UNCHANGED <<acked[e], refused[e]>>
  BY <1>0, <1>1 DEF Deliver
<1>2. ASSUME NEW d \in Dispatchers, DispatcherStep(d) \/ StopDispatcher(d), ~Deliver(d)
      PROVE  UNCHANGED <<acked, refused>>
  BY <1>2 DEF DispatcherStep, StopDispatcher, FetchMessage, GetEvent, Acquire, BreakerAllow,
              GetCached, GetEndpoint, PutCached, RecordAttempt, ResolveAttempt, CreateDeadLetter,
              MarkFailed, ReleaseGet, ReleaseDelete, CommitMessage, StartDispatcher, Return,
              Forget, historyVars
<1>3. UNCHANGED dispatcherVars => UNCHANGED <<acked, refused>>
  BY DEF dispatcherVars, historyVars
<1>4. ASSUME NEW d \in Dispatchers, Deliver(d)
      PROVE  DispatcherStep(d) \/ UNCHANGED <<acked[e], refused[e]>>
  <2>1. \/ DispatcherStep(d)
        \/ UNCHANGED dispatcherVars
        \/ \E f \in Dispatchers : (DispatcherStep(f) \/ StopDispatcher(f)) /\ f # d
        \/ StopDispatcher(d)
    BY OthersStay
  <2>2. pc'[d] = "record" /\ pc[d] = "deliver"
    BY <1>4 DEF Deliver, Goto, PipelineInv, TypeOK, DispatcherTypeOK
  <2>3. ~StopDispatcher(d)
    BY <2>2 DEF StopDispatcher, Goto, PipelineInv, TypeOK, DispatcherTypeOK
  <2>4. \A f \in Dispatchers : (DispatcherStep(f) \/ StopDispatcher(f)) => f = d
    BY <2>2, DispatcherLocality
  <2>. QED  BY <1>3, <2>1, <2>3, <2>4
<1>5. \/ UNCHANGED <<acked[e], refused[e]>>
      \/ \E d \in Dispatchers : Deliver(d) /\ DispatcherStep(d) /\ job[d] = e
  BY <1>1, <1>2, <1>3, <1>4, OthersStay
<1>6. CASE UNCHANGED storeVars
  BY <1>5, <1>6 DEF storeVars
<1>7. CASE StoreStep
  <2>1. UNCHANGED attemptRows[e] \/ (attemptRows'[e] = 0 /\ status'[e] = "absent")
    BY <1>0, <1>6, <1>7 DEF StoreStep, InsertEvent, UpdateStatus, RetryComesDue, UpdateEndpoint,
                            DeleteEndpoint, storeVars
  <2>. QED  BY <1>5, <2>1
<1>8. ASSUME NEW d \in Dispatchers, DispatcherStep(d), Writes(d)
      PROVE  \/ UNCHANGED attemptRows[e]
             \/ RecordAttempt(d) /\ job[d] = e /\ EventExists(e)
  BY <1>0, <1>8, WriteIsStatement DEF InsertAttempt, UpdateStatus, UpdateForRetry, InsertDeadLetter
<1>. QED  BY <1>5, <1>6, <1>7, <1>8, StepOnTables

\* UncreatedIsUntouched is kept: messages, batches, jobs and counts come of events that
\* have been inserted.
LEMMA StepKeepsUncreatedUntouched ==
    ASSUME PipelineInv, RecordsInv, EffectsInv, [Next]_vars
    PROVE  UncreatedIsUntouched'
<1>. SUFFICES ASSUME NEW e \in Events, intake'[e] \in {"new", "validated"}
              PROVE  /\ \A i \in 1..Len(log') : log'[i] # e
                     /\ \A d \in Dispatchers : job'[d] # e
                     /\ \A s \in Schedulers : e \notin batch'[s]
                     /\ acked'[e] = 0 /\ refused'[e] = 0 /\ attemptRows'[e] = 0
  BY DEF UncreatedIsUntouched
<1>1. /\ intake[e] \in {"new", "validated"}
      /\ \A i \in 1..Len(log) : log[i] # e
      /\ \A d \in Dispatchers : job[d] # e
      /\ \A s \in Schedulers : e \notin batch[s]
      /\ acked[e] = 0 /\ refused[e] = 0 /\ attemptRows[e] = 0
  BY RequestsGoOn DEF EffectsInv, UncreatedIsUntouched
<1>2. status[e] = "absent"
  BY <1>1 DEF RecordsInv, RequestsAreUnstored, EventExists
<1>3. \A i \in 1..Len(log') : log'[i] # e
  <2>1. log \in Seq(Events)
    BY DEF PipelineInv, TypeOK, TopicTypeOK
  <2>2. ASSUME NEW f \in Events, f # e, log' \in {Append(log, f), Append(Append(log, f), f)}
        PROVE  \A i \in 1..Len(log') : log'[i] # e
    <3>1. \A i \in 1..Len(log') : i \in 1..Len(log) \/ log'[i] = f
      BY <2>1, <2>2, AppendKeeps
    <3>2. \A i \in 1..Len(log) : log'[i] = log[i]
      BY <2>1, <2>2, AppendKeeps
    <3>. QED  BY <1>1, <2>2, <3>1, <3>2
  <2>. QED  BY <1>1, <2>2, LogChanges
<1>4. \A d \in Dispatchers : job'[d] # e
  <2>1. NoEvent # e
    BY StoreAssumption
  <2>2. CASE UNCHANGED dispatcherVars
    BY <1>1, <2>2 DEF dispatcherVars, jobVars
  <2>3. ASSUME NEW d \in Dispatchers, DispatcherStep(d) \/ StopDispatcher(d)
        PROVE  \A f \in Dispatchers : job'[f] # e
    <3>1. job'[d] # e
      BY <1>1, <2>1, <2>3, MessageMoves
    <3>. QED  BY <1>1, <2>3, <3>1, DispatcherLocality
  <2>. QED  BY <2>2, <2>3, OthersStay
<1>5. \A s \in Schedulers : e \notin batch'[s]
  <2>0. batch \in [Schedulers -> SUBSET Events]
    BY DEF PipelineInv, TypeOK, SchedulerTypeOK
  <2>1. CASE UNCHANGED schedulerVars
    BY <1>1, <2>1 DEF schedulerVars
  <2>2. ASSUME NEW s \in Schedulers, SchedulerStep(s) \/ SchedulerCrash(s)
        PROVE  \A t \in Schedulers : e \notin batch'[t]
    <3>1. CASE FindRetryable(s)
      <4>1. e \notin Selectable
        BY <1>2 DEF Selectable, Retryable
      <4>. QED  BY <1>1, <2>0, <3>1, <4>1 DEF FindRetryable
    <3>2. CASE Republish(s) \/ RestartScheduler(s)
      BY <1>1, <2>0, <3>2 DEF Republish, RestartScheduler
    <3>3. CASE MarkRetryQueued(s)
      BY <1>1, <3>3 DEF MarkRetryQueued
    <3>. QED  BY <2>2, <3>1, <3>2, <3>3 DEF SchedulerStep, SchedulerCrash
  <2>. QED  BY <2>1, <2>2
            DEF Next, vars, IntakeStep, IntakeCrash, DispatcherStep, DispatcherCrash, Assign,
                Rebalance, RetryDue, LockTimeout, CacheTimeout, Edit
<1>6. acked'[e] = 0 /\ refused'[e] = 0 /\ attemptRows'[e] = 0
  BY <1>1, CountsOfOthers
<1>. QED  BY <1>3, <1>4, <1>5, <1>6

\* Who is between its POST and the row for it.
LEMMA RecordingChanges ==
    ASSUME PipelineInv, [Next]_vars, NEW e \in Events
    PROVE  \/ Recording(e)' = Recording(e)
           \/ \E d \in Dispatchers : /\ Deliver(d) /\ job[d] = e /\ d \notin Recording(e)
                                     /\ Recording(e)' = Recording(e) \cup {d}
           \/ \E d \in Dispatchers : /\ RecordAttempt(d) \/ DispatcherCrash(d)
                                     /\ job[d] = e /\ d \in Recording(e)
                                     /\ Recording(e)' = Recording(e) \ {d}
<1>0. pc \in [Dispatchers -> Calls \cup {"down"}]
  BY DEF PipelineInv, TypeOK, DispatcherTypeOK
<1>1. CASE UNCHANGED dispatcherVars
  BY <1>1 DEF dispatcherVars, jobVars, Recording
<1>2. ASSUME NEW d \in Dispatchers, DispatcherStep(d) \/ DispatcherCrash(d)
      PROVE  \/ Recording(e)' = Recording(e)
             \/ /\ Deliver(d) /\ job[d] = e /\ d \notin Recording(e)
                /\ Recording(e)' = Recording(e) \cup {d}
             \/ /\ RecordAttempt(d) \/ DispatcherCrash(d)
                /\ job[d] = e /\ d \in Recording(e)
                /\ Recording(e)' = Recording(e) \ {d}
  <2>1. \A f \in Dispatchers \ {d} : pc'[f] = pc[f] /\ job'[f] = job[f]
    BY <1>2, DispatcherLocality DEF DispatcherCrash
  <2>2. Recording(e)' = {f \in Dispatchers : pc'[f] = "record" /\ job'[f] = e}
    BY DEF Recording
  <2>3. CASE pc[d] # "record" /\ pc'[d] # "record"
    BY <2>1, <2>2, <2>3 DEF Recording
  <2>4. CASE pc'[d] = "record"
    <3>1. Deliver(d)
      BY <1>0, <1>2, <2>4
         DEF DispatcherStep, DispatcherCrash, StopDispatcher, FetchMessage, GetEvent, Acquire,
             BreakerAllow, GetCached, GetEndpoint, PutCached, RecordAttempt, ResolveAttempt,
             CreateDeadLetter, MarkFailed, ReleaseGet, ReleaseDelete, CommitMessage,
             StartDispatcher, Return, Found, Goto
    <3>2. pc[d] = "deliver" /\ job'[d] = job[d]
      BY <3>1 DEF Deliver, jobVars
    <3>3. CASE job[d] = e
      BY <2>1, <2>2, <2>4, <3>1, <3>2, <3>3 DEF Recording
    <3>4. CASE job[d] # e
      BY <2>1, <2>2, <3>2, <3>4 DEF Recording
    <3>. QED  BY <3>3, <3>4
  <2>5. CASE pc[d] = "record" /\ pc'[d] # "record"
    <3>1. RecordAttempt(d) \/ DispatcherCrash(d)
      BY <1>2, <2>5
         DEF DispatcherStep, FetchMessage, GetEvent, Acquire, BreakerAllow, GetCached,
             GetEndpoint, PutCached, Deliver, ResolveAttempt, CreateDeadLetter, MarkFailed,
             ReleaseGet, ReleaseDelete, CommitMessage, StartDispatcher
    <3>2. CASE job[d] = e
      BY <2>1, <2>2, <2>5, <3>1, <3>2 DEF Recording
    <3>3. CASE job[d] # e
      BY <2>1, <2>2, <2>5, <3>3 DEF Recording
    <3>. QED  BY <3>2, <3>3
  <2>. QED  BY <2>3, <2>4, <2>5
<1>. QED  BY <1>1, <1>2, StepOfDispatcherOrNot

\* A row of events that was not there has been inserted by its request.
LEMMA NewRowIsInserted ==
    ASSUME PipelineInv, [Next]_vars, NEW e \in Events, ~EventExists(e), status'[e] # "absent"
    PROVE  intake[e] = "validated"
<1>1. status \in [Events -> Statuses \cup {"absent"}]
  BY DEF PipelineInv, TypeOK, StoreTypeOK
<1>. USE DEF EventExists
<1>2. CASE UNCHANGED storeVars
  BY <1>2 DEF storeVars
<1>3. CASE StoreStep
  BY <1>1, <1>2, <1>3
     DEF StoreStep, InsertEvent, UpdateStatus, RetryComesDue, UpdateEndpoint, DeleteEndpoint,
         eventRow
<1>4. ASSUME NEW d \in Dispatchers, Writes(d)
      PROVE  FALSE
  BY <1>1, <1>4, WriteIsStatement
     DEF InsertAttempt, UpdateStatus, UpdateForRetry, InsertDeadLetter, eventRow
<1>. QED  BY <1>2, <1>3, <1>4, StepOnTables

\* A POST adds its dispatcher, and the row for it takes it out again.
LEMMA DeliverIsRecording ==
    ASSUME PipelineInv, NEW d \in Dispatchers, NEW e \in Events, job[d] = e
    PROVE  /\ Deliver(d) => /\ d \notin Recording(e)
                            /\ Recording(e)' = Recording(e) \cup {d}
           /\ RecordAttempt(d) => /\ d \in Recording(e)
                                  /\ Recording(e)' = Recording(e) \ {d}
<1>1. pc \in [Dispatchers -> Calls \cup {"down"}]
  BY DEF PipelineInv, TypeOK, DispatcherTypeOK
<1>2. Recording(e)' = {f \in Dispatchers : pc'[f] = "record" /\ job'[f] = e}
  BY DEF Recording
<1>3. CASE Deliver(d)
  BY <1>1, <1>2, <1>3 DEF Deliver, Goto, Recording, jobVars, RecordAttempt
<1>4. CASE RecordAttempt(d)
  <2>1. /\ pc[d] = "record" /\ UNCHANGED job /\ pc'[d] # "record"
        /\ \A f \in Dispatchers \ {d} : pc'[f] = pc[f]
    BY <1>1, <1>4 DEF RecordAttempt, Goto, jobVars
  <2>. QED  BY <1>2, <1>4, <2>1 DEF Recording, Deliver
<1>. QED  BY <1>3, <1>4

\* RecordingIsFinite and EveryPostIsRecorded are kept: a POST is counted together with
\* its row, or else with the dispatcher that still has to insert it.
LEMMA StepKeepsPostsRecorded ==
    ASSUME PipelineInv, RecordsInv, EffectsInv, [Next]_vars
    PROVE  RecordingIsFinite' /\ EveryPostIsRecorded'
<1>. SUFFICES ASSUME NEW e \in Events
              PROVE  /\ IsFiniteSet(Recording(e)')
                     /\ crashes' = 0 /\ ~AuditMayFail /\ status'[e] # "absent" =>
                          attemptRows'[e] + Cardinality(Recording(e)') = acked'[e] + refused'[e]
  BY DEF RecordingIsFinite, EveryPostIsRecorded, EventExists
<1>0. /\ acked[e] \in Nat /\ refused[e] \in Nat /\ attemptRows[e] \in Nat
      /\ crashes \in Nat
  BY DEF PipelineInv, TypeOK, StoreTypeOK, DispatcherTypeOK
<1>1. IsFiniteSet(Recording(e)) /\ Cardinality(Recording(e)) \in Nat
  BY FS_CardinalityType DEF EffectsInv, RecordingIsFinite
<1>2. \A d : /\ IsFiniteSet(Recording(e) \cup {d}) /\ IsFiniteSet(Recording(e) \ {d})
             /\ d \notin Recording(e) =>
                  Cardinality(Recording(e) \cup {d}) = Cardinality(Recording(e)) + 1
             /\ d \in Recording(e) =>
                  Cardinality(Recording(e) \ {d}) = Cardinality(Recording(e)) - 1
  BY <1>1, FS_AddElement, FS_RemoveElement
<1>3. IsFiniteSet(Recording(e)')
  BY <1>1, <1>2, RecordingChanges
<1>4. ASSUME crashes' = 0, ~AuditMayFail, status'[e] # "absent"
      PROVE  attemptRows'[e] + Cardinality(Recording(e)') = acked'[e] + refused'[e]
  <2>1. crashes = 0 /\ ~\E d \in Dispatchers : DispatcherCrash(d)
    BY <1>0, <1>4
       DEF Next, vars, IntakeStep, IntakeCrash, SchedulerStep, SchedulerCrash, DispatcherStep,
           DispatcherCrash, Assign, Rebalance, RetryDue, LockTimeout, CacheTimeout, Edit, Crash,
           budgetVars
  <2>2. attemptRows[e] + Cardinality(Recording(e)) = acked[e] + refused[e]
    <3>1. CASE EventExists(e)
      BY <1>4, <2>1, <3>1 DEF EffectsInv, EveryPostIsRecorded
    <3>2. CASE ~EventExists(e)
      <4>1. intake[e] = "validated"
        BY <1>4, <3>2, NewRowIsInserted
      <4>2. acked[e] = 0 /\ refused[e] = 0 /\ attemptRows[e] = 0 /\ Recording(e) = {}
        BY <4>1 DEF EffectsInv, UncreatedIsUntouched, Recording
      <4>. QED  BY <4>2, FS_EmptySet
    <3>. QED  BY <3>1, <3>2
  <2>3. ASSUME NEW d \in Dispatchers, Deliver(d), job[d] = e
        PROVE  /\ attemptRows'[e] = attemptRows[e]
               /\ acked'[e] + refused'[e] = acked[e] + refused[e] + 1
    BY <1>0, <2>3 DEF Deliver, storeVars, PipelineInv, TypeOK, DispatcherTypeOK
  <2>4. ASSUME NEW d \in Dispatchers, RecordAttempt(d), job[d] = e
        PROVE  /\ attemptRows'[e] = attemptRows[e] + 1
               /\ acked'[e] = acked[e] /\ refused'[e] = refused[e]
    <3>1. EventExists(e)
      BY <1>4, <2>4 DEF RecordAttempt, InsertAttempt, EventExists, eventRow
    <3>. QED  BY <1>4, <2>4, <3>1
              DEF RecordAttempt, InsertAttempt, historyVars, PipelineInv, TypeOK, StoreTypeOK
  <2>5. CASE ~\E d \in Dispatchers : (Deliver(d) \/ RecordAttempt(d)) /\ job[d] = e
    <3>1. Recording(e)' = Recording(e)
      BY <2>1, <2>5, RecordingChanges
    <3>2. UNCHANGED <<acked[e], refused[e], attemptRows[e]>>
      BY <1>4, <2>5, CountsOfOthers
    <3>. QED  BY <2>2, <3>1, <3>2
  <2>6. ASSUME NEW d \in Dispatchers, Deliver(d), job[d] = e
        PROVE  attemptRows'[e] + Cardinality(Recording(e)') = acked'[e] + refused'[e]
    <3>1. Cardinality(Recording(e)') = Cardinality(Recording(e)) + 1
      BY <1>2, <2>1, <2>6, DeliverIsRecording
    <3>. QED  BY <1>0, <1>1, <2>2, <2>3, <2>6, <3>1
  <2>7. ASSUME NEW d \in Dispatchers, RecordAttempt(d), job[d] = e
        PROVE  attemptRows'[e] + Cardinality(Recording(e)') = acked'[e] + refused'[e]
    <3>1. Cardinality(Recording(e)') = Cardinality(Recording(e)) - 1
      BY <1>2, <2>1, <2>7, DeliverIsRecording
    <3>. QED  BY <1>0, <1>1, <2>2, <2>4, <2>7, <3>1
  <2>. QED  BY <2>5, <2>6, <2>7
<1>. QED  BY <1>3, <1>4

\* No death is undone, and quiet times are undisturbed.
LEMMA UndisturbedBefore ==
    ASSUME PipelineInv, [Next]_vars, Undisturbed'
    PROVE  Undisturbed /\ ~\E d \in Dispatchers : DispatcherCrash(d)
<1>1. crashes' = 0 /\ crashes \in Nat /\ "redis" \notin Faults
  BY DEF Undisturbed, PipelineInv, TypeOK
<1>. QED  BY <1>1
          DEF Undisturbed, Next, vars, IntakeStep, IntakeCrash, SchedulerStep, SchedulerCrash,
              DispatcherStep, DispatcherCrash, Assign, Rebalance, RetryDue, LockTimeout,
              CacheTimeout, Edit, Crash, budgetVars

LEMMA QuietBefore ==
    ASSUME PipelineInv, [Next]_vars, Quiet'
    PROVE  Quiet /\ Undisturbed /\ ~\E d \in Dispatchers : DispatcherCrash(d)
  BY UndisturbedBefore DEF Quiet, Undisturbed

\* A dispatcher leaves the locked calls through its Release only.
LEMMA LeavesByRelease ==
    ASSUME PipelineInv, NEW d \in Dispatchers, DispatcherStep(d),
           pc[d] \in LockedCalls, pc'[d] \notin LockedCalls
    PROVE  (ReleaseGet(d) /\ Return(d)) \/ ReleaseDelete(d)
<1>1. pc \in [Dispatchers -> Calls \cup {"down"}]
  BY DEF PipelineInv, TypeOK, DispatcherTypeOK
<1>. USE DEF LockedCalls
<1>2. ReleaseGet(d) \/ ReleaseDelete(d)
  BY <1>1 DEF DispatcherStep, FetchMessage, GetEvent, Acquire, BreakerAllow, GetCached,
              GetEndpoint, PutCached, Deliver, RecordAttempt, ResolveAttempt, CreateDeadLetter,
              MarkFailed, CommitMessage, StartDispatcher, Return, Found, Goto
<1>. QED  BY <1>1, <1>2 DEF ReleaseGet, Goto

\* The steps of the others take no lock.
LEMMA LockOfOthers ==
    ASSUME [Next]_vars, UNCHANGED dispatcherVars
    PROVE  \/ UNCHANGED lock
           \/ \E e \in Events : ExpireLock(e)
           \/ \E d \in Dispatchers : DispatcherStep(d)
BY DEF Next, vars, IntakeStep, IntakeCrash, SchedulerStep, SchedulerCrash, DispatcherCrash,
       StopDispatcher, Assign, Rebalance, RetryDue, LockTimeout, CacheTimeout, Edit, redisVars,
       ExpireCache

\* At "acquire", a dispatcher's step is Acquire.
LEMMA AcquireIsAcquire ==
    ASSUME NEW d \in Dispatchers, DispatcherStep(d), pc[d] = "acquire"
    PROVE  Acquire(d)
BY DEF DispatcherStep, FetchMessage, GetEvent, BreakerAllow, GetCached, GetEndpoint, PutCached,
       Deliver, RecordAttempt, ResolveAttempt, CreateDeadLetter, MarkFailed, ReleaseGet,
       ReleaseDelete, CommitMessage, StartDispatcher

\* LocksAreLive is kept: Release takes the key away before its holder lets go.
LEMMA StepKeepsLocksLive ==
    ASSUME PipelineInv, EffectsInv, [Next]_vars
    PROVE  LocksAreLive'
<1>. SUFFICES ASSUME Undisturbed', NEW e \in Events, lock'[e] # NoOne
              PROVE  pc'[lock'[e]] \in LockedCalls /\ job'[lock'[e]] = e
  BY DEF LocksAreLive, Working
<1>0. /\ lock \in [Events -> Dispatchers \cup {NoOne}]
      /\ pc \in [Dispatchers -> Calls \cup {"down"}]
      /\ job \in [Dispatchers -> Events \cup {NoEvent}]
      /\ Undisturbed /\ "redis" \notin Faults /\ ~\E d \in Dispatchers : DispatcherCrash(d)
  BY UndisturbedBefore DEF PipelineInv, TypeOK, RedisTypeOK, DispatcherTypeOK, Undisturbed
<1>1. lock[e] # NoOne => pc[lock[e]] \in LockedCalls /\ job[lock[e]] = e /\ lock[e] \in Dispatchers
  BY <1>0 DEF EffectsInv, LocksAreLive, Working
<1>2. CASE UNCHANGED dispatcherVars /\ ~\E d \in Dispatchers : DispatcherStep(d)
  <2>1. lock'[e] = lock[e]
    <3>1. UNCHANGED lock \/ \E f \in Events : ExpireLock(f)
      BY <1>0, <1>2, LockOfOthers
    <3>. QED  BY <1>0, <3>1 DEF ExpireLock
  <2>. QED  BY <1>1, <1>2, <2>1 DEF dispatcherVars, jobVars
<1>3. ASSUME NEW d \in Dispatchers, DispatcherStep(d)
      PROVE  pc'[lock'[e]] \in LockedCalls /\ job'[lock'[e]] = e
  <2>1. CASE Acquire(d) /\ AcquireLock(d, job[d])
    <3>1. /\ lock' = [lock EXCEPT ![job[d]] = d] /\ lock[job[d]] = NoOne
          /\ pc[d] = "acquire" /\ pc'[d] \in {"allow", "commit"} /\ job' = job
      BY <1>0, <2>1 DEF Acquire, AcquireLock, Goto, Return, jobVars
    <3>2. pc'[d] = "allow"
      BY <1>0, <2>1 DEF Acquire, AcquireLock, AcquireRefused, Goto
    <3>3. \A f \in Dispatchers \ {d} : pc'[f] = pc[f] /\ job'[f] = job[f]
      BY <1>3, DispatcherLocality
    <3>4. CASE e = job[d]
      BY <1>0, <3>1, <3>2, <3>4 DEF LockedCalls
    <3>5. CASE e # job[d]
      <4>1. lock'[e] = lock[e] /\ lock[e] # d
        BY <1>0, <1>1, <3>1, <3>5
      <4>. QED  BY <1>1, <3>3, <4>1
    <3>. QED  BY <3>4, <3>5
  <2>2. CASE ~(Acquire(d) /\ AcquireLock(d, job[d]))
    <3>1. lock'[e] = lock[e]
      <4>1. UNCHANGED redisVars => lock' = lock
        BY DEF redisVars
      <4>2. job[d] \in Events /\ pc[d] = "delete" /\ DeleteLock(job[d]) => lock'[e] = lock[e]
        BY <1>0 DEF DeleteLock
      <4>3. ASSUME pc[d] = "acquire", job[d] \in Events, AcquireRefused(d, job[d])
            PROVE  lock' = lock
        BY <1>0, <4>3 DEF AcquireRefused
      <4>4. ASSUME pc[d] = "acquire", job[d] \in Events, AcquireLock(d, job[d])
            PROVE  FALSE
        BY <1>3, <2>2, <4>4, AcquireIsAcquire
      <4>5. \A flag \in {"active", "inactive"} : SetCache(EndpointOf[job[d]], flag) => lock' = lock
        BY DEF SetCache
      <4>. QED  BY <1>3, <4>1, <4>2, <4>3, <4>4, <4>5, DispatcherRedis
    <3>2. CASE lock[e] # d
      BY <1>1, <1>3, <3>1, <3>2, DispatcherLocality
    <3>3. CASE lock[e] = d
      <4>1. pc[d] \in LockedCalls /\ job[d] = e /\ lock[e] = d
        BY <1>1, <3>1, <3>3
      <4>2. pc'[d] \in LockedCalls
        <5>1. ~(ReleaseGet(d) /\ Return(d))
          BY <1>0, <4>1 DEF ReleaseGet, Return, Goto
        <5>2. ~ReleaseDelete(d)
          BY <1>0, <3>1, <4>1 DEF ReleaseDelete, DeleteLock
        <5>. QED  BY <1>3, <4>1, <5>1, <5>2, LeavesByRelease
      <4>3. job'[d] = job[d]
        BY <1>3, <4>2, DispatcherMoves
      <4>. QED  BY <3>1, <4>1, <4>2, <4>3
    <3>. QED  BY <3>2, <3>3
  <2>. QED  BY <2>1, <2>2
<1>. QED  BY <1>0, <1>2, <1>3, StepOfDispatcherOrNot

\* The history of POSTs only grows.
LEMMA PostsOnlyGrow ==
    ASSUME PipelineInv, [Next]_vars, NEW e \in Events, acked[e] + refused[e] > 0
    PROVE  acked'[e] + refused'[e] > 0
<1>1. /\ acked \in [Events -> Nat] /\ acked' \in [Events -> Nat]
      /\ refused \in [Events -> Nat] /\ refused' \in [Events -> Nat]
  BY StepKeepsTypes DEF PipelineInv, TypeOK, DispatcherTypeOK
<1>2. refused[e] <= refused'[e]
  <2>1. UNCHANGED dispatcherVars => refused' = refused
    BY DEF dispatcherVars, historyVars
  <2>. QED  BY <1>1, <2>1, DispatcherLocality, OthersStay
<1>. QED  BY <1>1, <1>2, AckedOnlyGrows

\* What was attempted stays so: the cascade takes the event with its dead letters, and
\* does not give it back.
LEMMA AttemptedStays ==
    ASSUME PipelineInv, RecordsInv, [Next]_vars, NEW e \in Events,
           Attempted(e), intake[e] \notin {"new", "validated"}
    PROVE  \/ acked'[e] + refused'[e] > 0
           \/ \E r \in Reasons : deadLetters'[e][r] > 0
           \/ status'[e] = "absent"
<1>1. CASE acked[e] + refused[e] > 0
  BY <1>1, PostsOnlyGrow
<1>2. CASE ~EventExists(e)
  BY <1>2, NewRowIsInserted
<1>3. CASE DeadLettered(e) /\ endpoint'[EndpointOf[e]] # "deleted"
  BY <1>3, TablesOnlyGrow DEF Kept
<1>4. CASE endpoint'[EndpointOf[e]] = "deleted"
  BY <1>4, StepKeepsForeignKeys DEF ForeignKeys, EventExists, EndpointExists
<1>. QED  BY <1>1, <1>2, <1>3, <1>4 DEF Attempted

\* PostsAreMade is kept: whoever is to record a POST has made one, and POSTs are not
\* forgotten.
LEMMA StepKeepsPostsMade ==
    ASSUME PipelineInv, EffectsInv, [Next]_vars
    PROVE  PostsAreMade'
<1>. SUFFICES ASSUME NEW f \in Dispatchers, pc'[f] \in {"record", "resolve"}
              PROVE  acked'[job'[f]] + refused'[job'[f]] > 0
  BY DEF PostsAreMade
<1>0. /\ acked \in [Events -> Nat] /\ refused \in [Events -> Nat]
      /\ pc \in [Dispatchers -> Calls \cup {"down"}]
  BY DEF PipelineInv, TypeOK, DispatcherTypeOK
<1>1. ASSUME pc[f] \in {"record", "resolve"}, job'[f] = job[f]
      PROVE  acked'[job'[f]] + refused'[job'[f]] > 0
  <2>1. job[f] \in Events /\ acked[job[f]] + refused[job[f]] > 0
    BY <1>1, JobOfHolder DEF HoldsMessage, PipelineInv, EffectsInv, PostsAreMade
  <2>. QED  BY <1>1, <2>1, PostsOnlyGrow
<1>2. CASE UNCHANGED dispatcherVars
  BY <1>1, <1>2 DEF dispatcherVars, jobVars
<1>3. ASSUME Deliver(f)
      PROVE  acked'[job'[f]] + refused'[job'[f]] > 0
  <2>1. job[f] \in Events /\ job' = job
    BY <1>3, JobOfHolder DEF Deliver, HoldsMessage, PipelineInv, jobVars
  <2>. QED  BY <1>0, <1>3, <2>1 DEF Deliver
<1>4. ASSUME DispatcherStep(f) \/ StopDispatcher(f), ~Deliver(f)
      PROVE  pc[f] \in {"record", "resolve"} /\ job'[f] = job[f]
  <2>1. RecordAttempt(f)
    BY <1>0, <1>4
       DEF DispatcherStep, StopDispatcher, FetchMessage, GetEvent, Acquire, BreakerAllow,
           GetCached, GetEndpoint, PutCached, ResolveAttempt, CreateDeadLetter, MarkFailed,
           ReleaseGet, ReleaseDelete, CommitMessage, StartDispatcher, Return, Found, Goto
  <2>. QED  BY <2>1 DEF RecordAttempt, jobVars
<1>5. ASSUME NEW d \in Dispatchers, DispatcherStep(d) \/ StopDispatcher(d),
             f # d => pc'[f] = pc[f] /\ job'[f] = job[f]
      PROVE  acked'[job'[f]] + refused'[job'[f]] > 0
  BY <1>1, <1>3, <1>4, <1>5
<1>. QED  BY <1>2, <1>5, OthersStay

\* LeavesAttempted is kept: Release comes after a POST or after MarkFailed.
LEMMA StepKeepsLeavesAttempted ==
    ASSUME PipelineInv, RecordsInv, EffectsInv, [Next]_vars
    PROVE  LeavesAttempted'
<1>. SUFFICES ASSUME Quiet', NEW f \in Dispatchers, pc'[f] \in {"release", "delete"}
              PROVE  Attempted(job[f])' /\ job'[f] = job[f]
  BY DEF LeavesAttempted, Attempted, DeadLettered, EventExists
<1>0. /\ acked \in [Events -> Nat] /\ refused \in [Events -> Nat]
      /\ pc \in [Dispatchers -> Calls \cup {"down"}]
      /\ Quiet /\ Faults = {} /\ BreakerAnswers = {TRUE}
  BY QuietBefore DEF Quiet, PipelineInv, TypeOK, DispatcherTypeOK
<1>1. /\ job'[f] = job[f] /\ job[f] \in Events
      /\ pc[f] \in {"resolve", "markFailed", "release", "delete"}
  <2>1. CASE UNCHANGED dispatcherVars
    BY <2>1, JobOfHolder DEF dispatcherVars, jobVars, HoldsMessage, PipelineInv
  <2>2. ASSUME NEW d \in Dispatchers, DispatcherStep(d) \/ StopDispatcher(d), f # d
        PROVE  job'[f] = job[f] /\ job[f] \in Events /\ pc[f] \in {"release", "delete"}
    BY <2>2, DispatcherLocality, JobOfHolder DEF HoldsMessage, PipelineInv
  <2>3. ASSUME DispatcherStep(f) \/ StopDispatcher(f)
        PROVE  /\ job'[f] = job[f] /\ job[f] \in Events
               /\ pc[f] \in {"resolve", "markFailed", "release", "delete"}
    <3>1. job'[f] = job[f] /\ job[f] \in Events
      BY <2>3, DispatcherMoves DEF LockedCalls
    <3>2. ResolveAttempt(f) \/ MarkFailed(f) \/ ReleaseGet(f)
      BY <1>0, <2>3
         DEF DispatcherStep, StopDispatcher, FetchMessage, GetEvent, Acquire, BreakerAllow,
             GetCached, GetEndpoint, PutCached, Deliver, RecordAttempt, CreateDeadLetter,
             ReleaseDelete, CommitMessage, StartDispatcher, Return, Found, Goto
    <3>. QED  BY <3>1, <3>2 DEF ResolveAttempt, MarkFailed, ReleaseGet
  <2>. QED  BY <2>1, <2>2, <2>3, OthersStay
<1>2. Attempted(job[f])
  <2>1. CASE pc[f] = "resolve"
    BY <2>1 DEF EffectsInv, PostsAreMade, Attempted
  <2>2. CASE pc[f] = "markFailed"
    BY <1>0, <1>1, <2>2 DEF RecordsInv, FailedAreBuried, ForeignKeys, Attempted
  <2>3. CASE pc[f] \in {"release", "delete"}
    BY <1>0, <2>3 DEF EffectsInv, LeavesAttempted
  <2>. QED  BY <1>1, <2>1, <2>2, <2>3
<1>3. intake[job[f]] \notin {"new", "validated"}
  BY <1>1 DEF EffectsInv, UncreatedIsUntouched
<1>4. Attempted(job[f])'
  <2>. DEFINE e == job[f]
  <2>1. e \in Events /\ Attempted(e) /\ intake[e] \notin {"new", "validated"} /\ job'[f] = e
    BY <1>1, <1>2, <1>3
  <2>. HIDE DEF e
  <2>2. \/ acked'[e] + refused'[e] > 0
        \/ \E r \in Reasons : deadLetters'[e][r] > 0
        \/ status'[e] = "absent"
    BY <2>1, AttemptedStays
  <2>. QED  BY <2>1, <2>2 DEF Attempted, DeadLettered, EventExists
<1>. QED  BY <1>1, <1>4

\* Undisturbed, a dispatcher that is refused the lock leaves the event to another one.
LEMMA SkipIsJustified ==
    ASSUME PipelineInv, EffectsInv, Undisturbed, NEW d \in Dispatchers, Acquire(d),
           pc'[d] = "commit"
    PROVE  \E f \in Dispatchers \ {d} : Working(f, job[d])
<1>1. /\ pc \in [Dispatchers -> Calls \cup {"down"}]
      /\ lock \in [Events -> Dispatchers \cup {NoOne}]
      /\ "redis" \notin Faults
  BY DEF PipelineInv, TypeOK, RedisTypeOK, DispatcherTypeOK, Undisturbed
<1>2. pc[d] = "acquire" /\ job[d] \in Events
  BY JobOfHolder DEF Acquire, HoldsMessage, PipelineInv
<1>3. lock[job[d]] # NoOne
  BY <1>1 DEF Acquire, AcquireRefused, Goto
<1>4. Working(lock[job[d]], job[d]) /\ lock[job[d]] \in Dispatchers
  BY <1>1, <1>2, <1>3 DEF EffectsInv, LocksAreLive
<1>5. lock[job[d]] # d
  BY <1>2, <1>4 DEF Working, LockedCalls
<1>. QED  BY <1>4, <1>5

\* In quiet times processMessage returns only when its event was attempted, or when some
\* other dispatcher is at work on it.
LEMMA ReturnIsJustified ==
    ASSUME PipelineInv, RecordsInv, EffectsInv, [Next]_vars, Quiet, NEW d \in Dispatchers,
           DispatcherStep(d), Return(d)
    PROVE  \/ Attempted(job[d])
           \/ \E f \in Dispatchers \ {d} : Working(f, job[d])
<1>0. /\ pc \in [Dispatchers -> Calls \cup {"down"}]
      /\ Faults = {} /\ pc'[d] = "commit"
  BY DEF PipelineInv, TypeOK, DispatcherTypeOK, Quiet, Return, Goto
<1>1. GetEvent(d) \/ Acquire(d) \/ ReleaseGet(d) \/ ReleaseDelete(d)
  BY <1>0 DEF DispatcherStep, FetchMessage, BreakerAllow, GetCached, GetEndpoint, PutCached,
              Deliver, RecordAttempt, ResolveAttempt, CreateDeadLetter, MarkFailed,
              CommitMessage, StartDispatcher, Found, Goto
<1>2. job[d] \in Events
  BY <1>1, JobOfHolder
     DEF GetEvent, Acquire, ReleaseGet, ReleaseDelete, HoldsMessage, PipelineInv
<1>3. CASE GetEvent(d)
  <2>1. status[job[d]] \in {"absent", "delivered", "failed"}
    BY <1>0, <1>3 DEF GetEvent, Goto, Resolved
  <2>2. acked \in [Events -> Nat] /\ refused \in [Events -> Nat]
    BY DEF PipelineInv, TypeOK, DispatcherTypeOK
  <2>3. CASE status[job[d]] = "absent"
    BY <2>3 DEF Attempted, EventExists
  <2>4. CASE status[job[d]] = "delivered"
    <3>1. acked[job[d]] > 0
      BY <1>2, <2>4 DEF RecordsInv, DeliveredIsAudited
    <3>. QED  BY <1>2, <2>2, <3>1 DEF Attempted
  <2>5. CASE status[job[d]] = "failed"
    BY <1>0, <1>2, <2>5 DEF RecordsInv, FailedHasDeadLetter, Attempted
  <2>. QED  BY <2>1, <2>3, <2>4, <2>5
<1>4. CASE Acquire(d)
  <2>1. Undisturbed
    BY DEF Quiet, Undisturbed
  <2>. QED  BY <1>0, <1>4, <2>1, SkipIsJustified
<1>5. CASE ReleaseGet(d) \/ ReleaseDelete(d)
  BY <1>5 DEF ReleaseGet, ReleaseDelete, EffectsInv, LeavesAttempted
<1>. QED  BY <1>1, <1>3, <1>4, <1>5

\* Only Return adds to the processed messages.
LEMMA ProcessedChanges ==
    ASSUME PipelineInv, [Next]_vars, NEW i \in processed', i \notin processed
    PROVE  \E d \in Dispatchers : DispatcherStep(d) /\ Return(d) /\ i = offset[d] /\ HoldsMessage(d)
<1>1. UNCHANGED dispatcherVars => processed' = processed
  BY DEF dispatcherVars, historyVars
<1>2. ASSUME NEW d \in Dispatchers, DispatcherStep(d) \/ StopDispatcher(d), processed' # processed
      PROVE  DispatcherStep(d) /\ Return(d) /\ i = offset[d] /\ HoldsMessage(d)
  <2>1. Return(d) /\ (GetEvent(d) \/ Acquire(d) \/ ReleaseGet(d) \/ ReleaseDelete(d))
    BY <1>2 DEF DispatcherStep, StopDispatcher, FetchMessage, GetEvent, Acquire, BreakerAllow,
                GetCached, GetEndpoint, PutCached, Deliver, RecordAttempt, ResolveAttempt,
                CreateDeadLetter, MarkFailed, ReleaseGet, ReleaseDelete, CommitMessage,
                StartDispatcher, Forget, historyVars
  <2>2. HoldsMessage(d)
    BY <2>1 DEF GetEvent, Acquire, ReleaseGet, ReleaseDelete, HoldsMessage
  <2>3. DispatcherStep(d)
    BY <1>2 DEF StopDispatcher, Forget, historyVars
  <2>4. i = offset[d]
    BY <2>1 DEF Return
  <2>. QED  BY <2>1, <2>2, <2>3, <2>4
<1>. QED  BY <1>1, <1>2, OthersStay

\* ProcessedNotForgotten is kept.
LEMMA StepKeepsProcessed ==
    ASSUME PipelineInv, RecordsInv, EffectsInv, [Next]_vars
    PROVE  ProcessedNotForgotten'
<1>. DEFINE Done(e) == \/ acked'[e] + refused'[e] > 0
                       \/ \E r \in Reasons : deadLetters'[e][r] > 0
                       \/ status'[e] = "absent"
            Handled(e) == Done(e) \/ \E d \in Dispatchers : pc'[d] \in LockedCalls /\ job'[d] = e
<1>. SUFFICES ASSUME Quiet', NEW i \in processed'
              PROVE  Handled(log'[i])
  BY DEF ProcessedNotForgotten, Attempted, DeadLettered, EventExists, Working
<1>0. /\ Quiet /\ ~\E d \in Dispatchers : DispatcherCrash(d)
      /\ log \in Seq(Events)
      /\ processed \subseteq 1..Len(log)
  BY QuietBefore DEF PipelineInv, TypeOK, TopicTypeOK, DispatcherTypeOK
<1>1. ASSUME NEW e \in Events, Attempted(e), \E j \in 1..Len(log) : log[j] = e
      PROVE  Handled(e)
  <2>1. intake[e] \notin {"new", "validated"}
    BY <1>1 DEF EffectsInv, UncreatedIsUntouched
  <2>. QED  BY <1>1, <2>1, AttemptedStays
<1>2. ASSUME NEW e \in Events, NEW f \in Dispatchers, Working(f, e), \E j \in 1..Len(log) : log[j] = e
      PROVE  Handled(e)
  <2>1. CASE pc'[f] \in LockedCalls /\ job'[f] = e
    BY <2>1
  <2>2. CASE UNCHANGED dispatcherVars
    BY <1>2, <2>2 DEF dispatcherVars, jobVars, Working
  <2>3. ASSUME NEW d \in Dispatchers, DispatcherStep(d)
        PROVE  Handled(e)
    <3>1. CASE f # d
      BY <1>2, <2>3, <3>1, DispatcherLocality DEF Working
    <3>2. CASE f = d /\ pc'[d] \in LockedCalls
      BY <1>2, <2>3, <3>2, DispatcherMoves DEF Working
    <3>3. CASE f = d /\ pc'[d] \notin LockedCalls
      <4>1. pc[d] \in {"release", "delete"} /\ job[d] = e
        BY <1>2, <2>3, <3>3, LeavesByRelease DEF Working, ReleaseGet, ReleaseDelete
      <4>2. Attempted(e)
        BY <1>0, <4>1 DEF EffectsInv, LeavesAttempted
      <4>. QED  BY <1>1, <1>2, <4>2
    <3>. QED  BY <3>1, <3>2, <3>3
  <2>. QED  BY <1>0, <2>2, <2>3, StepOfDispatcherOrNot
<1>3. CASE i \in processed
  <2>1. log'[i] = log[i] /\ log[i] \in Events /\ i \in 1..Len(log)
    BY <1>0, <1>3, LogKeepsMessages
  <2>2. Attempted(log[i]) \/ \E d \in Dispatchers : Working(d, log[i])
    BY <1>0, <1>3 DEF EffectsInv, ProcessedNotForgotten
  <2>. QED  BY <1>1, <1>2, <2>1, <2>2
<1>4. CASE i \notin processed
  <2>1. PICK d \in Dispatchers : DispatcherStep(d) /\ Return(d) /\ i = offset[d] /\ HoldsMessage(d)
    BY <1>4, ProcessedChanges
  <2>2. job[d] = log[i] /\ i \in 1..Len(log) /\ log'[i] = log[i] /\ log[i] \in Events
    BY <1>0, <2>1, LogKeepsMessages DEF EffectsInv, JobIsMessage, PipelineInv, LocalsAreSet
  <2>3. Attempted(log[i]) \/ \E f \in Dispatchers : Working(f, log[i])
    BY <1>0, <2>1, <2>2, ReturnIsJustified
  <2>. QED  BY <1>1, <1>2, <2>2, <2>3
<1>. QED  BY <1>3, <1>4

\* Nothing has had an effect when nothing has been accepted.
LEMMA InitEffects == Init => EffectsInv
<1>. SUFFICES ASSUME Init PROVE EffectsInv
  OBVIOUS
<1>. USE DEF Init, StoreInit, TopicInit, RedisInit, IntakeInit, SchedulerInit, DispatcherInit
<1>1. Len(log) = 0
  OBVIOUS
<1>2. UncreatedIsUntouched /\ JobIsMessage /\ PostsAreMade
  BY <1>1, StoreAssumption DEF UncreatedIsUntouched, JobIsMessage, HoldsMessage, PostsAreMade
<1>3. \A e \in Events : Recording(e) = {}
  BY DEF Recording
<1>4. RecordingIsFinite /\ EveryPostIsRecorded
  BY <1>3, FS_EmptySet DEF RecordingIsFinite, EveryPostIsRecorded
<1>5. LocksAreLive /\ LeavesAttempted /\ ProcessedNotForgotten
  BY DEF LocksAreLive, LeavesAttempted, ProcessedNotForgotten
<1>. QED  BY <1>2, <1>4, <1>5 DEF EffectsInv

(***************************************************************************)
(* Part 4: the theorems.                                                   *)
(***************************************************************************)

\* On top of PipelineInv, RecordsInv holds throughout every behaviour of the pipeline.
THEOREM RecordsInvariant == Spec => []RecordsInv
<1>1. Init => RecordsInv
  BY InitRecords
<1>2. PipelineInv /\ RecordsInv /\ [Next]_vars => RecordsInv'
  <2>. SUFFICES ASSUME PipelineInv, RecordsInv, [Next]_vars PROVE RecordsInv'
    OBVIOUS
  <2>1. ForeignKeys' /\ RequestsAreUnstored' /\ JobsAreKnown'
    BY StepKeepsForeignKeys, StepKeepsRequestsUnstored, StepKeepsJobsKnown
  <2>2. FailedAreBuried' /\ AttemptsAreRecorded' /\ AcknowledgedIsAcked'
    BY StepKeepsFailedBuried, StepKeepsAttemptsRecorded, StepKeepsAcknowledged
  <2>3. HoldersOwnPartition' /\ SnapshotsAreCurrent'
    BY StepKeepsHoldersOwn, StepKeepsSnapshotsCurrent
  <2>4. FailedHasDeadLetter' /\ DeliveredIsAudited'
    BY StepKeepsStatusesBacked
  <2>. QED  BY <2>1, <2>2, <2>3, <2>4 DEF RecordsInv
<1>. QED  BY <1>1, <1>2, PipelineInvariant, PTL DEF Spec

\* While PostgreSQL answers, no event is failed without a dead letter.
THEOREM FailuresAreInTheQueue == Spec => []FailedHasDeadLetter
<1>1. RecordsInv => FailedHasDeadLetter
  BY DEF RecordsInv
<1>. QED  BY <1>1, RecordsInvariant, PTL

\* No event is delivered without an acknowledged POST and, while PostgreSQL answers, a
\* row in delivery_attempts.
THEOREM DeliveriesAreAudited == Spec => []DeliveredIsAudited
<1>1. RecordsInv => DeliveredIsAudited
  BY DEF RecordsInv
<1>. QED  BY <1>1, RecordsInvariant, PTL

\* On top of the other two, EffectsInv holds throughout every behaviour.
THEOREM EffectsInvariant == Spec => []EffectsInv
<1>1. Init => EffectsInv
  BY InitEffects
<1>2. PipelineInv /\ RecordsInv /\ EffectsInv /\ [Next]_vars => EffectsInv'
  <2>. SUFFICES ASSUME PipelineInv, RecordsInv, EffectsInv, [Next]_vars PROVE EffectsInv'
    OBVIOUS
  <2>1. UncreatedIsUntouched' /\ JobIsMessage'
    BY StepKeepsUncreatedUntouched, StepKeepsJobIsMessage
  <2>2. RecordingIsFinite' /\ EveryPostIsRecorded' /\ PostsAreMade'
    BY StepKeepsPostsRecorded, StepKeepsPostsMade
  <2>3. LocksAreLive' /\ LeavesAttempted' /\ ProcessedNotForgotten'
    BY StepKeepsLocksLive, StepKeepsLeavesAttempted, StepKeepsProcessed
  <2>. QED  BY <2>1, <2>2, <2>3 DEF EffectsInv
<1>. QED  BY <1>1, <1>2, PipelineInvariant, RecordsInvariant, PTL DEF Spec

\* While nobody dies and PostgreSQL answers, delivery_attempts is a complete audit trail.
THEOREM AuditTrailIsComplete == Spec => []EveryPostIsRecorded
<1>1. EffectsInv => EveryPostIsRecorded
  BY DEF EffectsInv
<1>. QED  BY <1>1, EffectsInvariant, PTL

\* An event is skipped for its lock only while another dispatcher works on it.
THEOREM SkipsAreJustified == Spec => SkipsAreCovered
<1>1. PipelineInv /\ EffectsInv /\ [Next]_vars =>
        [Undisturbed => \A d \in Dispatchers : pc[d] = "acquire" /\ pc'[d] = "commit" =>
            \E f \in Dispatchers \ {d} : Working(f, job[d])]_vars
  <2>. SUFFICES ASSUME PipelineInv, EffectsInv, [Next]_vars, Undisturbed, NEW d \in Dispatchers,
                       pc[d] = "acquire", pc'[d] = "commit"
                PROVE  \E f \in Dispatchers \ {d} : Working(f, job[d])
    OBVIOUS
  <2>1. DispatcherStep(d)
    <3>1. ASSUME NEW f \in Dispatchers, DispatcherStep(f) PROVE f = d
      BY <3>1, DispatcherLocality
    <3>2. ASSUME NEW f \in Dispatchers, DispatcherCrash(f) PROVE FALSE
      <4>1. pc \in [Dispatchers -> Calls \cup {"down"}]
        BY DEF PipelineInv, TypeOK, DispatcherTypeOK
      <4>. QED  BY <3>2, <4>1 DEF DispatcherCrash, StopDispatcher, Goto
    <3>3. ~UNCHANGED dispatcherVars
      BY DEF dispatcherVars
    <3>. QED  BY <3>1, <3>2, <3>3, StepOfDispatcherOrNot
  <2>. QED  BY <2>1, AcquireIsAcquire, SkipIsJustified
<1>. QED  BY <1>1, PipelineInvariant, EffectsInvariant, PTL DEF Spec, SkipsAreCovered

\* In quiet times the skip of a locked event loses nothing, however often the partition
\* moves and however long the holders take.
THEOREM NothingIsForgotten == Spec => []CommittedNotForgotten
<1>1. PipelineInv /\ EffectsInv => CommittedNotForgotten
  BY DEF PipelineInv, CommittedAreProcessed, EffectsInv, ProcessedNotForgotten, Quiet,
         CommittedNotForgotten
<1>. QED  BY <1>1, PipelineInvariant, EffectsInvariant, PTL

\* Until the partition is taken from a live dispatcher, no write of attempt_count, made
\* from a count read before the lock was taken, lowers it.
THEOREM CountsNeverFall == Spec => AttemptCountNeverFalls
<1>1. PipelineInv /\ RecordsInv /\ [Next]_vars =>
        [rebalances = 0 => \A e \in Events :
            status'[e] # "absent" => attemptCount'[e] >= attemptCount[e]]_vars
  <2>. SUFFICES ASSUME PipelineInv, RecordsInv, [Next]_vars, rebalances = 0,
                       NEW e \in Events, status'[e] # "absent"
                PROVE  attemptCount'[e] >= attemptCount[e]
    OBVIOUS
  <2>1. attemptCount[e] \in Nat
    BY DEF PipelineInv, TypeOK, StoreTypeOK
  <2>2. CASE intake[e] = "validated" /\ attemptCount'[e] = 0
    BY <2>2 DEF RecordsInv, RequestsAreUnstored
  <2>3. ASSUME NEW d \in Dispatchers, ResolveAttempt(d), job[d] = e,
               attemptCount'[e] = snap[d] + 1
        PROVE  attemptCount'[e] >= attemptCount[e]
    <3>1. attemptCount[e] <= snap[d] /\ snap[d] \in Nat
      BY <2>3 DEF ResolveAttempt, RecordsInv, SnapshotsAreCurrent, BeforeResolved, PipelineInv,
                  TypeOK, DispatcherTypeOK
    <3>. QED  BY <2>1, <2>3, <3>1
  <2>. QED  BY <2>1, <2>2, <2>3, CountChanges
<1>. QED  BY <1>1, PipelineInvariant, RecordsInvariant, PTL DEF Spec, AttemptCountNeverFalls

\* What a dispatcher's step does to an endpoint that is retired: nothing.
LEMMA DispatcherLeavesRetired ==
    ASSUME PipelineInv, NEW p \in Endpoints, Retired(p), endpoint'[p] # "active",
           NEW d \in Dispatchers, DispatcherStep(d) \/ StopDispatcher(d)
    PROVE  /\ Retired(p)'
           /\ \A e \in Events : EndpointOf[e] = p => UNCHANGED <<acked[e], refused[e]>>
<1>0. /\ pc \in [Dispatchers -> Calls \cup {"down"}]
      /\ outcome \in [Dispatchers -> Outcomes]
      /\ cached \in [Endpoints -> {"none", "active", "inactive"}]
      /\ acked \in [Events -> Nat] /\ refused \in [Events -> Nat]
      /\ HoldsMessage(d) => job[d] \in Events
      /\ \A e \in Events : EndpointOf[e] \in Endpoints
  BY JobOfHolder, StoreAssumption
     DEF PipelineInv, TypeOK, DispatcherTypeOK, RedisTypeOK
<1>1. HoldsMessage(d) /\ EndpointOf[job[d]] = p =>
        pc[d] # "deliver" /\ ~(pc[d] = "cacheSet" /\ outcome[d] = "active")
  BY DEF Retired
<1>2. cached'[p] # "active"
  <2>1. CASE PutCached(d)
    BY <1>0, <1>1, <2>1 DEF PutCached, SetCache, HoldsMessage, Retired
  <2>2. CASE ~PutCached(d)
    <3>1. UNCHANGED cached
      BY <2>2 DEF DispatcherStep, StopDispatcher, FetchMessage, GetEvent, Acquire, BreakerAllow,
              GetCached, GetEndpoint, Deliver, RecordAttempt, ResolveAttempt, CreateDeadLetter,
              MarkFailed, ReleaseGet, ReleaseDelete, CommitMessage, StartDispatcher, redisVars,
              AcquireLock, AcquireRefused, DeleteLock
    <3>. QED  BY <3>1 DEF Retired
  <2>. QED  BY <2>1, <2>2
<1>3. \A e \in Events : EndpointOf[e] = p => UNCHANGED <<acked[e], refused[e]>>
  <2>1. CASE Deliver(d)
    BY <1>0, <1>1, <2>1 DEF Deliver, HoldsMessage
  <2>2. CASE ~Deliver(d)
    BY <2>2 DEF DispatcherStep, StopDispatcher, FetchMessage, GetEvent, Acquire, BreakerAllow,
              GetCached, GetEndpoint, PutCached, RecordAttempt, ResolveAttempt, CreateDeadLetter,
              MarkFailed, ReleaseGet, ReleaseDelete, CommitMessage, StartDispatcher, Return,
              Forget, historyVars
  <2>. QED  BY <2>1, <2>2
<1>4. ASSUME pc'[d] \in {"deliver", "cacheSet"}, EndpointOf[job'[d]] = p
      PROVE  pc'[d] = "cacheSet" /\ outcome'[d] # "active"
  <2>1. GetCached(d) \/ GetEndpoint(d) \/ PutCached(d)
    BY <1>0, <1>4 DEF DispatcherStep, StopDispatcher, FetchMessage, GetEvent, Acquire,
              BreakerAllow, Deliver, RecordAttempt, ResolveAttempt, CreateDeadLetter, MarkFailed,
              ReleaseGet, ReleaseDelete, CommitMessage, StartDispatcher, Return, Goto
  <2>2. job' = job /\ HoldsMessage(d) /\ EndpointOf[job[d]] = p
    BY <1>4, <2>1 DEF GetCached, GetEndpoint, PutCached, jobVars, HoldsMessage
  <2>3. CASE GetCached(d)
    BY <1>0, <1>4, <2>2, <2>3 DEF GetCached, Found, Goto, Retired
  <2>4. CASE GetEndpoint(d)
    BY <1>0, <1>4, <2>2, <2>4 DEF GetEndpoint, Found, Goto, Result, Retired
  <2>5. CASE PutCached(d)
    BY <1>0, <1>1, <1>4, <2>2, <2>5 DEF PutCached, Goto
  <2>. QED  BY <2>1, <2>3, <2>4, <2>5
<1>5. \A f \in Dispatchers \ {d} :
         pc'[f] = pc[f] /\ job'[f] = job[f] /\ outcome'[f] = outcome[f]
  BY DispatcherLocality
<1>6. Retired(p)'
  <2>. SUFFICES ASSUME NEW f \in Dispatchers, EndpointOf[job'[f]] = p
                PROVE  pc'[f] # "deliver" /\ ~(pc'[f] = "cacheSet" /\ outcome'[f] = "active")
    BY <1>2 DEF Retired
  <2>1. CASE f = d
    BY <1>4, <2>1
  <2>2. CASE f # d
    BY <1>5, <2>2 DEF Retired, HoldsMessage
  <2>. QED  BY <2>1, <2>2
<1>. QED  BY <1>3, <1>6

\* No POST reaches an endpoint that is switched off, once its active row has left the
\* cache and the hands of the dispatchers.
THEOREM RetiredGetNothing == Spec => RetiredIsLeftAlone
<1>1. PipelineInv /\ [Next]_vars =>
        [\A p \in Endpoints : Retired(p) /\ endpoint'[p] # "active" =>
            /\ Retired(p)'
            /\ \A e \in Events : EndpointOf[e] = p => UNCHANGED <<acked[e], refused[e]>>]_vars
  <2>. SUFFICES ASSUME PipelineInv, [Next]_vars, NEW p \in Endpoints, Retired(p),
                       endpoint'[p] # "active"
                PROVE  /\ Retired(p)'
                       /\ \A e \in Events : EndpointOf[e] = p => UNCHANGED <<acked[e], refused[e]>>
    OBVIOUS
  <2>1. CASE \E d \in Dispatchers : DispatcherStep(d) \/ DispatcherCrash(d)
    BY <2>1, DispatcherLeavesRetired DEF DispatcherCrash
  <2>2. CASE ~\E d \in Dispatchers : DispatcherStep(d) \/ DispatcherCrash(d)
    <3>1. UNCHANGED <<pc, job, outcome, acked, refused>>
      BY <2>2, StepOfDispatcherOrNot DEF dispatcherVars, jobVars, historyVars
    <3>2. cached'[p] # "active"
      <4>1. cached \in [Endpoints -> {"none", "active", "inactive"}]
        BY DEF PipelineInv, TypeOK, RedisTypeOK
      <4>. QED  BY <2>2, <4>1 DEF Next, vars, IntakeStep, IntakeCrash, SchedulerStep,
                  SchedulerCrash, Assign, Rebalance, RetryDue, LockTimeout, CacheTimeout, Edit,
                  redisVars, ExpireLock, ExpireCache, Retired
    <3>. QED  BY <3>1, <3>2 DEF Retired, HoldsMessage
  <2>. QED  BY <2>1, <2>2
<1>. QED  BY <1>1, PipelineInvariant, PTL DEF Spec, RetiredIsLeftAlone

(***************************************************************************)
(* Part 5: the POSTs of an event.  Each step of each process moves an      *)
(* event on without adding to what is and may still be POSTed, but for the *)
(* deaths, which the bound counts.                                         *)
(***************************************************************************)

\* Multiplication, for the provers.
LEMMA TimesIsMonotone ==
    ASSUME NEW s \in Nat, NEW a \in Nat, NEW b \in Nat, a <= b
    PROVE  /\ s * a \in Nat /\ s * b \in Nat
           /\ s * a <= s * b
           /\ a < b => s * a + s <= s * b
<1>1. s * a \in Nat /\ s * b \in Nat
  OBVIOUS
<1>2. PICK c \in Nat : b = a + c
  <2>1. b - a \in Nat /\ b = a + (b - a)
    OBVIOUS
  <2>. QED  BY <2>1
<1>3. s * b = s * a + s * c
  BY <1>2
<1>4. s * c \in Nat
  OBVIOUS
<1>5. s * a <= s * b
  BY <1>1, <1>3, <1>4
<1>6. ASSUME a < b PROVE s * a + s <= s * b
  <2>1. PICK k \in Nat : c = k + 1
    <3>1. c - 1 \in Nat /\ c = (c - 1) + 1
      BY <1>2, <1>6
    <3>. QED  BY <3>1
  <2>2. s * c = s * k + s
    BY <2>1
  <2>3. s * k \in Nat
    OBVIOUS
  <2>. QED  BY <1>1, <1>3, <2>2, <2>3
<1>. QED  BY <1>1, <1>5, <1>6

\* The sets that are counted are finite, and all counts are natural numbers.
LEMMA CountsAreNat ==
    ASSUME PipelineInv, RetriesAreBelowLimit, NEW e \in Events
    PROVE  /\ acked[e] \in Nat /\ refused[e] \in Nat /\ crashes \in Nat
           /\ Cardinality(Schedulers) \in Nat /\ MostPosts \in Nat
           /\ IsFiniteSet(Copies(e)) /\ Cardinality(Copies(e)) \in Nat
           /\ IsFiniteSet(Chances(e)) /\ Cardinality(Chances(e)) \in Nat
           /\ ChancesLeft(e) \in Nat
<1>1. /\ acked[e] \in Nat /\ refused[e] \in Nat /\ crashes \in Nat
      /\ attemptCount[e] \in Nat /\ attemptCount[e] < MaxAttempts /\ MaxAttempts \in Nat
      /\ log \in Seq(Events)
  BY StoreAssumption DEF PipelineInv, TypeOK, StoreTypeOK, TopicTypeOK, DispatcherTypeOK,
     RetriesAreBelowLimit
<1>2. Cardinality(Schedulers) \in Nat
  BY SchedulerAssumption, FS_CardinalityType
<1>3. IsFiniteSet(Copies(e))
  <2>1. 1 \in Int /\ Len(log) \in Int
    BY <1>1
  <2>2. IsFiniteSet(1..Len(log))
    BY <2>1, FS_Interval
  <2>. QED  BY <2>2, FS_Subset DEF Copies
<1>4. IsFiniteSet(Chances(e))
  BY SchedulerAssumption, FS_Subset DEF Chances
<1>5. ChancesLeft(e) \in Nat
  <2>1. MaxAttempts - 1 - attemptCount[e] \in Nat
    BY <1>1
  <2>. QED  BY <1>2, <2>1, TimesIsMonotone DEF ChancesLeft
<1>6. MostPosts \in Nat
  <2>1. MaxAttempts - 1 \in Nat
    BY <1>1
  <2>2. Cardinality(Schedulers) * (MaxAttempts - 1) \in Nat
    BY <1>2, <2>1, TimesIsMonotone
  <2>. QED  BY <2>2 DEF MostPosts
<1>. QED  BY <1>1, <1>2, <1>3, <1>4, <1>5, <1>6, FS_CardinalityType

\* What a step has to show of an event.
Within(e) == acked[e] + refused[e] + PostsToCome(e) <= MostPosts + crashes

\* Times were steady before if they are now.
LEMMA SteadyBefore ==
    ASSUME PipelineInv, [Next]_vars, Steady'
    PROVE  Steady /\ ~\E d \in Dispatchers : Rebalance(d)
<1>1. rebalances' = 0 /\ rebalances \in Nat
  BY DEF Steady, PipelineInv, TypeOK
<1>2. ~\E d \in Dispatchers : Rebalance(d)
  BY <1>1 DEF Rebalance
<1>3. rebalances = 0
  BY <1>1, <1>2 DEF Next, vars, IntakeStep, IntakeCrash, SchedulerStep, SchedulerCrash,
         DispatcherStep, DispatcherCrash, Assign, RetryDue, LockTimeout, CacheTimeout, Edit,
         Crash, budgetVars
<1>. QED  BY <1>2, <1>3 DEF Steady

\* A retry is scheduled below the limit only, so the counts stay there.
LEMMA StepKeepsBelowLimit ==
    ASSUME PipelineInv, RecordsInv, RetriesAreBelowLimit, [Next]_vars
    PROVE  RetriesAreBelowLimit'
<1>0. /\ MaxAttempts \in Nat \ {0}
      /\ snap \in [Dispatchers -> Nat]
      /\ pc \in [Dispatchers -> Calls \cup {"down"}]
  BY StoreAssumption DEF PipelineInv, TypeOK, DispatcherTypeOK
<1>1. ASSUME NEW e \in Events PROVE attemptCount'[e] < MaxAttempts
  <2>1. ASSUME NEW d \in Dispatchers, ResolveAttempt(d), attemptCount'[e] = snap[d] + 1,
               attemptCount'[e] # attemptCount[e]
        PROVE  attemptCount'[e] < MaxAttempts
    <3>1. outcome[d] = "failed" /\ pc[d] = "resolve"
      BY <2>1 DEF ResolveAttempt, UpdateStatus
    <3>. QED  BY <2>1, <3>1 DEF RetriesAreBelowLimit
  <2>2. attemptCount[e] < MaxAttempts
    BY DEF RetriesAreBelowLimit
  <2>. QED  BY <1>0, <2>1, <2>2, CountChanges
<1>2. ASSUME NEW f \in Dispatchers, pc'[f] = "resolve", outcome'[f] = "failed"
      PROVE  snap'[f] + 1 < MaxAttempts
  <2>1. CASE pc'[f] = pc[f] /\ outcome'[f] = outcome[f] /\ snap'[f] = snap[f]
    BY <1>2, <2>1 DEF RetriesAreBelowLimit
  <2>2. ASSUME RecordAttempt(f) PROVE snap'[f] + 1 < MaxAttempts
    BY <1>0, <1>2, <2>2 DEF RecordAttempt, Goto, jobVars
  <2>. QED  BY <1>2, <2>1, <2>2, OthersStay, DispatcherMoves DEF dispatcherVars, jobVars
<1>. QED  BY <1>1, <1>2 DEF RetriesAreBelowLimit

\* The chances that failures may still give never grow, and a failure that is scheduled
\* again uses up one for each scheduler.
LEMMA ChancesLeftFall ==
    ASSUME PipelineInv, RecordsInv, RetriesAreBelowLimit, Steady, [Next]_vars, NEW e \in Events
    PROVE  /\ ChancesLeft(e)' \in Nat
           /\ ChancesLeft(e)' <= ChancesLeft(e)
           /\ \A d \in Dispatchers :
                 ResolveAttempt(d) /\ job[d] = e /\ attemptCount'[e] = snap[d] + 1
                 /\ status[e] # "absent" =>
                     ChancesLeft(e)' + Cardinality(Schedulers) <= ChancesLeft(e)
<1>. DEFINE Gone == status[e] = "absent" /\ intake[e] \notin {"new", "validated"}
            Left == MaxAttempts - 1 - attemptCount[e]
<1>0. /\ attemptCount[e] \in Nat /\ attemptCount'[e] \in Nat /\ MaxAttempts \in Nat
      /\ attemptCount[e] < MaxAttempts /\ attemptCount'[e] < MaxAttempts
      /\ Cardinality(Schedulers) \in Nat /\ ChancesLeft(e) \in Nat
  BY StepKeepsTypes, StepKeepsBelowLimit, StoreAssumption, CountsAreNat
     DEF PipelineInv, TypeOK, StoreTypeOK, RetriesAreBelowLimit
<1>1. Left \in Nat /\ Left' \in Nat
  BY <1>0
<1>2. /\ ChancesLeft(e) = IF Gone THEN 0 ELSE Cardinality(Schedulers) * Left
      /\ ChancesLeft(e)' = IF Gone' THEN 0 ELSE Cardinality(Schedulers) * Left'
  BY DEF ChancesLeft
<1>3. ~Gone' => ~Gone
  BY RequestsGoOn, NewRowIsInserted DEF EventExists
<1>4. ASSUME NEW d \in Dispatchers, ResolveAttempt(d), job[d] = e
      PROVE  attemptCount[e] <= snap[d] /\ snap[d] \in Nat
  BY <1>4 DEF ResolveAttempt, RecordsInv, SnapshotsAreCurrent, BeforeResolved, Steady,
     PipelineInv, TypeOK, DispatcherTypeOK
<1>5. ~Gone' => attemptCount[e] <= attemptCount'[e]
  <2>1. CASE intake'[e] \in {"new", "validated"}
    BY <1>0, <2>1, RequestsGoOn DEF RecordsInv, RequestsAreUnstored
  <2>2. CASE intake[e] = "validated"
    BY <1>0, <2>2 DEF RecordsInv, RequestsAreUnstored
  <2>. QED  BY <1>0, <1>4, <2>1, <2>2, CountChanges
<1>6. ChancesLeft(e)' \in Nat
  BY <1>0, <1>1, <1>2, TimesIsMonotone
<1>7. ChancesLeft(e)' <= ChancesLeft(e)
  <2>1. CASE Gone'
    BY <1>0, <1>2, <2>1
  <2>2. CASE ~Gone'
    <3>1. Left' <= Left
      BY <1>0, <1>5, <2>2
    <3>2. Cardinality(Schedulers) * Left' <= Cardinality(Schedulers) * Left
      BY <1>0, <1>1, <3>1, TimesIsMonotone
    <3>. QED  BY <1>2, <1>3, <2>2, <3>2
  <2>. QED  BY <2>1, <2>2
<1>8. ASSUME NEW d \in Dispatchers, ResolveAttempt(d), job[d] = e,
             attemptCount'[e] = snap[d] + 1, status[e] # "absent"
      PROVE  ChancesLeft(e)' + Cardinality(Schedulers) <= ChancesLeft(e)
  <2>1. Left' < Left
    BY <1>0, <1>4, <1>8
  <2>2. Cardinality(Schedulers) * Left' + Cardinality(Schedulers) <= Cardinality(Schedulers) * Left
    BY <1>0, <1>1, <2>1, TimesIsMonotone
  <2>3. ~Gone
    BY <1>8
  <2>4. 0 + Cardinality(Schedulers) <= Cardinality(Schedulers) * Left
    <3>1. 0 < Left
      BY <1>0, <1>1, <2>1
    <3>2. Cardinality(Schedulers) * 0 + Cardinality(Schedulers) <= Cardinality(Schedulers) * Left
      BY <1>0, <1>1, <3>1, TimesIsMonotone
    <3>. QED  BY <1>0, <3>2
  <2>. QED  BY <1>2, <2>2, <2>3, <2>4
<1>. QED  BY <1>6, <1>7, <1>8

\* Counting: a part of a set is no larger, and one more element counts one.
LEMMA CountsOfParts ==
    ASSUME NEW S, IsFiniteSet(S), NEW T, NEW x, T \subseteq S \cup {x}
    PROVE  /\ Cardinality(T) \in Nat
           /\ Cardinality(T) <= Cardinality(S) + 1
           /\ T \subseteq S => Cardinality(T) <= Cardinality(S)
           /\ T \subseteq S \ {x} /\ x \in S => Cardinality(T) + 1 <= Cardinality(S)
<1>1. /\ IsFiniteSet(S \cup {x}) /\ IsFiniteSet(S \ {x})
      /\ Cardinality(S) \in Nat
      /\ Cardinality(S \cup {x}) \in Nat /\ Cardinality(S \cup {x}) <= Cardinality(S) + 1
      /\ Cardinality(S \ {x}) \in Nat
      /\ x \in S => Cardinality(S \ {x}) = Cardinality(S) - 1
  <2>1. /\ IsFiniteSet(S \cup {x})
        /\ Cardinality(S \cup {x}) = IF x \in S THEN Cardinality(S) ELSE Cardinality(S) + 1
    BY FS_AddElement
  <2>2. /\ IsFiniteSet(S \ {x})
        /\ Cardinality(S \ {x}) = IF x \in S THEN Cardinality(S) - 1 ELSE Cardinality(S)
    BY FS_RemoveElement
  <2>3. Cardinality(S) \in Nat /\ Cardinality(S \cup {x}) \in Nat /\ Cardinality(S \ {x}) \in Nat
    BY <2>1, <2>2, FS_CardinalityType
  <2>. QED  BY <2>1, <2>2, <2>3
<1>2. Cardinality(T) \in Nat /\ Cardinality(T) <= Cardinality(S \cup {x})
  BY <1>1, FS_Subset, FS_CardinalityType
<1>3. T \subseteq S => Cardinality(T) <= Cardinality(S)
  BY FS_Subset
<1>4. T \subseteq S \ {x} => Cardinality(T) <= Cardinality(S \ {x})
  BY <1>1, FS_Subset
<1>. QED  BY <1>1, <1>2, <1>3, <1>4

\* A step that neither POSTs the event nor adds to its prospects.
LEMMA NothingGrows ==
    ASSUME PipelineInv, RecordsInv, RetriesAreBelowLimit, Steady, [Next]_vars,
           NEW e \in Events, Within(e),
           crashes' \in Nat, crashes <= crashes',
           acked'[e] + refused'[e] = acked[e] + refused[e],
           Requested(e)' => Requested(e),
           Copies(e)' \subseteq Copies(e),
           InHand(e)' => InHand(e),
           Chances(e)' \subseteq Chances(e)
    PROVE  Within(e)'
<1>1. /\ Cardinality(Copies(e)') \in Nat /\ Cardinality(Copies(e)') <= Cardinality(Copies(e))
      /\ Cardinality(Chances(e)') \in Nat /\ Cardinality(Chances(e)') <= Cardinality(Chances(e))
  BY CountsAreNat, FS_Subset, FS_CardinalityType
<1>2. ChancesLeft(e)' \in Nat /\ ChancesLeft(e)' <= ChancesLeft(e)
  BY ChancesLeftFall
<1>3. (IF Requested(e) THEN 1 ELSE 0) \in Nat /\ (IF Requested(e)' THEN 1 ELSE 0) \in Nat
      /\ (IF Requested(e)' THEN 1 ELSE 0) <= (IF Requested(e) THEN 1 ELSE 0)
  OBVIOUS
<1>4. (IF InHand(e) THEN 1 ELSE 0) \in Nat /\ (IF InHand(e)' THEN 1 ELSE 0) \in Nat
      /\ (IF InHand(e)' THEN 1 ELSE 0) <= (IF InHand(e) THEN 1 ELSE 0)
  OBVIOUS
<1>. QED
  BY <1>1, <1>2, <1>3, <1>4, CountsAreNat DEF Within, PostsToCome, MostPosts

\* A step that turns one prospect of the event into another, or whose growth is a death.
LEMMA OneForAnother ==
    ASSUME PipelineInv, RecordsInv, RetriesAreBelowLimit, Steady, [Next]_vars,
           NEW e \in Events, Within(e),
           acked'[e] \in Nat, refused'[e] \in Nat, crashes' \in Nat,
           Cardinality(Copies(e)') \in Nat, Cardinality(Chances(e)') \in Nat,
           acked'[e] + refused'[e] + (IF Requested(e)' THEN 1 ELSE 0) + Cardinality(Copies(e)')
               + (IF InHand(e)' THEN 1 ELSE 0) + Cardinality(Chances(e)') + ChancesLeft(e)'
             <= acked[e] + refused[e] + (IF Requested(e) THEN 1 ELSE 0) + Cardinality(Copies(e))
               + (IF InHand(e) THEN 1 ELSE 0) + Cardinality(Chances(e)) + ChancesLeft(e)
               + (crashes' - crashes)
    PROVE  Within(e)'
<1>1. ChancesLeft(e)' \in Nat
  BY ChancesLeftFall
<1>2. /\ (IF Requested(e) THEN 1 ELSE 0) \in Nat /\ (IF Requested(e)' THEN 1 ELSE 0) \in Nat
      /\ (IF InHand(e) THEN 1 ELSE 0) \in Nat /\ (IF InHand(e)' THEN 1 ELSE 0) \in Nat
  OBVIOUS
<1>. QED
  BY <1>1, <1>2, CountsAreNat DEF Within, PostsToCome, MostPosts

\* Where nobody appends, fetches or is assigned the partition, the copies stay.
LEMMA CopiesStay ==
    ASSUME NEW e, UNCHANGED <<log, owner, position>>, committed' = committed \/ owner # NoOne
    PROVE  Copies(e)' = Copies(e)
<1>1. \A i : Unread(i)' <=> Unread(i)
  BY DEF Unread
<1>. QED  BY <1>1 DEF Copies

\* What a publisher appends.
LEMMA CopiesGrow ==
    ASSUME PipelineInv, NEW f \in Events, log' = Append(log, f),
           UNCHANGED <<committed, owner, position>>,
           NEW e \in Events
    PROVE  /\ e # f => Copies(e)' = Copies(e)
           /\ Copies(f)' \subseteq Copies(f) \cup {Len(log) + 1}
<1>1. log \in Seq(Events) /\ Len(log) \in Nat
  BY DEF PipelineInv, TypeOK, TopicTypeOK
<1>2. Len(log') = Len(log) + 1
  BY <1>1
<1>3. \A i \in 1..Len(log) : log'[i] = log[i]
  BY <1>1
<1>4. log'[Len(log) + 1] = f
  BY <1>1
<1>5. \A i \in 1..Len(log') : i \in 1..Len(log) \/ i = Len(log) + 1
  BY <1>1, <1>2
<1>6. \A i : Unread(i)' <=> Unread(i)
  BY DEF Unread
<1>7. 1..Len(log) \subseteq 1..Len(log')
  BY <1>1, <1>2
<1>. QED
  BY <1>3, <1>4, <1>5, <1>6, <1>7 DEF Copies

\* The message that is fetched is taken from the copies of its event.
LEMMA CopiesFetched ==
    ASSUME PipelineInv, NEW d \in Dispatchers, FetchMessage(d), NEW e \in Events
    PROVE  /\ job'[d] \in Events
           /\ position[d] + 1 \in Copies(job'[d])
           /\ Copies(e)' = Copies(e) \ {position[d] + 1}
<1>1. /\ log \in Seq(Events) /\ Len(log) \in Nat
      /\ position \in [Dispatchers -> 0..Len(log)] /\ position[d] \in Nat
      /\ job \in [Dispatchers -> Events \cup {NoEvent}]
  BY DEF PipelineInv, TypeOK, TopicTypeOK, DispatcherTypeOK
<1>2. /\ owner = d /\ UNCHANGED <<log, owner>> /\ position'[d] = position[d] + 1
      /\ position[d] + 1 \in 1..Len(log) /\ job'[d] = log[position[d] + 1]
  BY <1>1 DEF FetchMessage
<1>3. d # NoOne
  BY TopicAssumption
<1>4. \A i \in 1..Len(log) : Unread(i) <=> position[d] < i
  BY <1>2, <1>3 DEF Unread
<1>5. \A i \in 1..Len(log) : Unread(i)' <=> position[d] + 1 < i
  BY <1>2, <1>3 DEF Unread
<1>6. \A i \in 1..Len(log) : position[d] + 1 < i <=> position[d] < i /\ i # position[d] + 1
  BY <1>1
<1>. QED
  BY <1>1, <1>2, <1>4, <1>5, <1>6 DEF Copies

\* What a scheduler may still take up does not grow while it selects nothing and the
\* event is not scheduled again.
LEMMA ChancesStay ==
    ASSUME NEW e \in Events, UNCHANGED <<batch, marking>>,
           status'[e] = "retrying" => status[e] = "retrying"
    PROVE  Chances(e)' \subseteq Chances(e)
  BY DEF Chances

LEMMA InHandStays ==
    ASSUME NEW e \in Events, UNCHANGED <<pc, job>>
    PROVE  InHand(e)' = InHand(e)
  BY DEF InHand

\* The step of a publisher adds a copy, and uses up what made it publish.
LEMMA PublishIsPaid ==
    ASSUME PipelineInv, RecordsInv, RetriesAreBelowLimit, Steady, [Next]_vars,
           NEW e \in Events, Within(e),
           UNCHANGED <<acked, refused, crashes, pc, job>>,
           NEW x, Copies(e)' \subseteq Copies(e) \cup {x},
           \/ /\ Requested(e) /\ ~Requested(e)'
              /\ Chances(e)' \subseteq Chances(e)
           \/ /\ Requested(e)' = Requested(e)
              /\ \E s \in Chances(e) : Chances(e)' \subseteq Chances(e) \ {s}
    PROVE  Within(e)'
<1>0. /\ acked[e] \in Nat /\ refused[e] \in Nat /\ crashes \in Nat
      /\ IsFiniteSet(Copies(e)) /\ Cardinality(Copies(e)) \in Nat
      /\ IsFiniteSet(Chances(e)) /\ Cardinality(Chances(e)) \in Nat /\ ChancesLeft(e) \in Nat
  BY CountsAreNat
<1>1. Cardinality(Copies(e)') \in Nat /\ Cardinality(Copies(e)') <= Cardinality(Copies(e)) + 1
  BY <1>0, CountsOfParts
<1>2. ChancesLeft(e)' \in Nat /\ ChancesLeft(e)' <= ChancesLeft(e)
  BY ChancesLeftFall
<1>3. InHand(e)' = InHand(e)
  BY InHandStays
<1>4. CASE Requested(e) /\ ~Requested(e)' /\ Chances(e)' \subseteq Chances(e)
  <2>1. Cardinality(Chances(e)') \in Nat /\ Cardinality(Chances(e)') <= Cardinality(Chances(e))
    BY <1>0, <1>4, FS_Subset, FS_CardinalityType
  <2>. QED  BY <1>0, <1>1, <1>2, <1>3, <1>4, <2>1, OneForAnother
<1>5. ASSUME Requested(e)' = Requested(e), NEW s \in Chances(e), Chances(e)' \subseteq Chances(e) \ {s}
      PROVE  Within(e)'
  <2>1. Cardinality(Chances(e)') \in Nat /\ Cardinality(Chances(e)') + 1 <= Cardinality(Chances(e))
    BY <1>0, <1>5, CountsOfParts
  <2>. QED  BY <1>0, <1>1, <1>2, <1>3, <1>5, <2>1, OneForAnother
<1>. QED  BY <1>4, <1>5

\* The steps of a request.
LEMMA IntakeKeepsBound ==
    ASSUME PipelineInv, RecordsInv, RetriesAreBelowLimit, Steady, [Next]_vars,
           NEW f \in Events, IntakeStep(f), NEW e \in Events, Within(e)
    PROVE  Within(e)'
<1>0. /\ intake \in [Events -> IntakeStages]
      /\ status \in [Events -> Statuses \cup {"absent"}]
      /\ crashes \in Nat
      /\ "postgres" \notin Faults /\ "kafka" \notin Faults
      /\ UNCHANGED <<pc, job, acked, refused, batch, marking, crashes>>
  BY DEF PipelineInv, TypeOK, StoreTypeOK, IntakeTypeOK, Steady, IntakeStep, schedulerVars,
         dispatcherVars, jobVars, historyVars, budgetVars
<1>1. ASSUME Requested(e)' => Requested(e), Copies(e)' \subseteq Copies(e),
             status'[e] = "retrying" => status[e] = "retrying"
      PROVE  Within(e)'
  <2>1. Chances(e)' \subseteq Chances(e) /\ InHand(e)' = InHand(e)
    BY <1>0, <1>1, ChancesStay, InHandStays
  <2>. QED  BY <1>0, <1>1, <2>1, NothingGrows
<1>2. CASE PublishCreated(f)
  <2>1. /\ log' = Append(log, f) /\ UNCHANGED <<committed, owner, position, status>>
        /\ intake[f] = "inserted" /\ intake' = [intake EXCEPT ![f] = "published"]
    BY <1>0, <1>2 DEF PublishCreated, Publish, PublishFails, Stage, storeVars
  <2>2. CASE e # f
    <3>1. Copies(e)' = Copies(e) /\ Requested(e)' = Requested(e)
      BY <1>0, <2>1, <2>2, CopiesGrow DEF Requested
    <3>. QED  BY <1>1, <2>1, <3>1
  <2>3. CASE e = f
    <3>1. Requested(e) /\ ~Requested(e)'
      BY <1>0, <2>1, <2>3 DEF Requested
    <3>2. Copies(e)' \subseteq Copies(e) \cup {Len(log) + 1}
      BY <2>1, <2>3, CopiesGrow
    <3>3. Chances(e)' \subseteq Chances(e)
      BY <1>0, <2>1, ChancesStay
    <3>. QED  BY <1>0, <3>1, <3>2, <3>3, PublishIsPaid
  <2>. QED  BY <2>2, <2>3
<1>3. CASE ~PublishCreated(f)
  <2>1. Copies(e)' = Copies(e)
    <3>1. UNCHANGED <<log, committed, owner, position>>
      BY <1>3 DEF IntakeStep, AcceptRequest, RejectRequest, CreateEvent, MarkCreatedQueued, topicVars
    <3>. QED  BY <3>1, CopiesStay
  <2>2. Requested(e)' => Requested(e)
    BY <1>0, <1>3 DEF IntakeStep, AcceptRequest, RejectRequest, CreateEvent, MarkCreatedQueued,
           Stage, Requested
  <2>3. status'[e] = "retrying" => status[e] = "retrying"
    BY <1>0, <1>3 DEF IntakeStep, AcceptRequest, RejectRequest, CreateEvent, MarkCreatedQueued,
           InsertEvent, InsertEventFails, UpdateStatus, storeVars
  <2>. QED  BY <1>1, <2>1, <2>2, <2>3
<1>. QED  BY <1>2, <1>3

\* The steps of a scheduler: what it selects was its chance already, and a publication
\* is that chance taken.
LEMMA SchedulerKeepsBound ==
    ASSUME PipelineInv, RecordsInv, RetriesAreBelowLimit, Steady, [Next]_vars,
           NEW s \in Schedulers, SchedulerStep(s), NEW e \in Events, Within(e)
    PROVE  Within(e)'
<1>0. /\ batch \in [Schedulers -> SUBSET Events] /\ marking \in [Schedulers -> Events \cup {NoEvent}]
      /\ status \in [Events -> Statuses \cup {"absent"}]
      /\ crashes \in Nat /\ NoEvent # e
      /\ "postgres" \notin Faults /\ "kafka" \notin Faults
      /\ UNCHANGED <<pc, job, acked, refused, intake, crashes>>
      /\ Requested(e)' = Requested(e) /\ InHand(e)' = InHand(e)
  BY StoreAssumption
     DEF PipelineInv, TypeOK, StoreTypeOK, SchedulerTypeOK, Steady, SchedulerStep, dispatcherVars,
         jobVars, historyVars, budgetVars, Requested, InHand
<1>1. ASSUME Copies(e)' = Copies(e), Chances(e)' \subseteq Chances(e)
      PROVE  Within(e)'
  BY <1>0, <1>1, NothingGrows
<1>2. CASE FindRetryable(s)
  <2>1. /\ UNCHANGED <<status, topicVars, marking>>
        /\ marking[s] = NoEvent
    BY <1>2 DEF FindRetryable, storeVars, Idle
  <2>2. \A r \in Schedulers : e \in batch'[r] => e \in batch[r] \/ (r = s /\ status[e] = "retrying")
    BY <1>0, <1>2 DEF FindRetryable, Selectable, Retryable
  <2>3. Chances(e)' \subseteq Chances(e)
    BY <1>0, <2>1, <2>2 DEF Chances
  <2>. QED  BY <1>1, <2>1, <2>3, CopiesStay DEF topicVars
<1>3. CASE Republish(s)
  <2>1. PICK f \in batch[s] :
           /\ log' = Append(log, f) /\ UNCHANGED <<committed, owner, position, status>>
           /\ batch' = [batch EXCEPT ![s] = @ \ {f}] /\ marking' = [marking EXCEPT ![s] = f]
           /\ marking[s] = NoEvent
    BY <1>0, <1>3 DEF Republish, Publish, PublishFails, storeVars
  <2>2. f \in Events
    BY <1>0, <2>1
  <2>3. CASE e # f
    <3>1. Copies(e)' = Copies(e)
      BY <2>1, <2>2, <2>3, CopiesGrow
    <3>2. \A r \in Schedulers : /\ e \in batch'[r] <=> e \in batch[r]
                                /\ marking'[r] = e <=> marking[r] = e
      BY <1>0, <2>1, <2>3
    <3>3. Chances(e)' \subseteq Chances(e)
      BY <2>1, <3>2 DEF Chances
    <3>. QED  BY <1>1, <3>1, <3>3
  <2>4. CASE e = f
    <3>1. Copies(e)' \subseteq Copies(e) \cup {Len(log) + 1}
      BY <2>1, <2>2, <2>4, CopiesGrow
    <3>2. s \in Chances(e)
      BY <2>1, <2>4 DEF Chances
    <3>3. /\ e \notin batch'[s] /\ marking'[s] = e
          /\ \A r \in Schedulers \ {s} : batch'[r] = batch[r] /\ marking'[r] = marking[r]
      BY <1>0, <2>1, <2>4
    <3>4. Chances(e)' \subseteq Chances(e) \ {s}
      BY <2>1, <3>3 DEF Chances
    <3>. QED  BY <1>0, <3>1, <3>2, <3>4, PublishIsPaid
  <2>. QED  BY <2>3, <2>4
<1>4. CASE MarkRetryQueued(s)
  <2>1. /\ marking[s] \in Events /\ UpdateStatus(marking[s], "queued")
        /\ UNCHANGED <<topicVars, batch>>
        /\ marking' = [marking EXCEPT ![s] = NoEvent]
    BY <1>0, <1>4 DEF MarkRetryQueued
  <2>2. status'[e] = "retrying" => status[e] = "retrying" /\ e # marking[s]
    BY <1>0, <2>1 DEF UpdateStatus, EventExists
  <2>3. \A r \in Schedulers : marking[r] = e => marking'[r] = e \/ marking[s] = e
    BY <1>0, <2>1
  <2>4. Chances(e)' \subseteq Chances(e)
    BY <2>1, <2>2, <2>3 DEF Chances
  <2>. QED  BY <1>1, <2>1, <2>4, CopiesStay DEF topicVars
<1>. QED  BY <1>2, <1>3, <1>4 DEF SchedulerStep


\* A death is allowed one POST more: for the message or the selection that is taken up
\* again.
LEMMA DeathIsPaid ==
    ASSUME PipelineInv, RecordsInv, RetriesAreBelowLimit, Steady, [Next]_vars,
           NEW e \in Events, Within(e),
           UNCHANGED <<acked, refused>>, crashes' = crashes + 1,
           Requested(e)' => Requested(e), InHand(e)' => InHand(e),
           NEW x,
           \/ Copies(e)' \subseteq Copies(e) \cup {x} /\ Chances(e)' \subseteq Chances(e)
           \/ Copies(e)' \subseteq Copies(e) /\ Chances(e)' \subseteq Chances(e) \cup {x}
    PROVE  Within(e)'
<1>0. /\ acked[e] \in Nat /\ refused[e] \in Nat /\ crashes \in Nat /\ crashes' \in Nat
      /\ IsFiniteSet(Copies(e)) /\ Cardinality(Copies(e)) \in Nat
      /\ IsFiniteSet(Chances(e)) /\ Cardinality(Chances(e)) \in Nat /\ ChancesLeft(e) \in Nat
  BY CountsAreNat
<1>1. /\ Cardinality(Copies(e)') \in Nat /\ Cardinality(Chances(e)') \in Nat
      /\ Cardinality(Copies(e)') + Cardinality(Chances(e)')
           <= Cardinality(Copies(e)) + Cardinality(Chances(e)) + 1
  <2>1. CASE Copies(e)' \subseteq Copies(e) \cup {x} /\ Chances(e)' \subseteq Chances(e)
    <3>1. Cardinality(Copies(e)') \in Nat /\ Cardinality(Copies(e)') <= Cardinality(Copies(e)) + 1
      BY <1>0, <2>1, CountsOfParts
    <3>2. Cardinality(Chances(e)') \in Nat /\ Cardinality(Chances(e)') <= Cardinality(Chances(e))
      BY <1>0, <2>1, FS_Subset, FS_CardinalityType
    <3>. QED  BY <1>0, <3>1, <3>2
  <2>2. CASE Copies(e)' \subseteq Copies(e) /\ Chances(e)' \subseteq Chances(e) \cup {x}
    <3>1. Cardinality(Chances(e)') \in Nat /\ Cardinality(Chances(e)') <= Cardinality(Chances(e)) + 1
      BY <1>0, <2>2, CountsOfParts
    <3>2. Cardinality(Copies(e)') \in Nat /\ Cardinality(Copies(e)') <= Cardinality(Copies(e))
      BY <1>0, <2>2, FS_Subset, FS_CardinalityType
    <3>. QED  BY <1>0, <3>1, <3>2
  <2>. QED  BY <2>1, <2>2
<1>2. ChancesLeft(e)' \in Nat /\ ChancesLeft(e)' <= ChancesLeft(e)
  BY ChancesLeftFall
<1>3. /\ (IF Requested(e)' THEN 1 ELSE 0) <= (IF Requested(e) THEN 1 ELSE 0)
      /\ (IF InHand(e)' THEN 1 ELSE 0) <= (IF InHand(e) THEN 1 ELSE 0)
      /\ (IF Requested(e) THEN 1 ELSE 0) \in Nat /\ (IF Requested(e)' THEN 1 ELSE 0) \in Nat
      /\ (IF InHand(e) THEN 1 ELSE 0) \in Nat /\ (IF InHand(e)' THEN 1 ELSE 0) \in Nat
  OBVIOUS
<1>. QED  BY <1>0, <1>1, <1>2, <1>3, OneForAnother

\* The death of a scheduler: it may select again what it had just published.
LEMMA SchedulerCrashKeepsBound ==
    ASSUME PipelineInv, RecordsInv, RetriesAreBelowLimit, Steady, [Next]_vars,
           NEW s \in Schedulers, SchedulerCrash(s), NEW e \in Events, Within(e)
    PROVE  Within(e)'
<1>1. /\ UNCHANGED <<acked, refused, pc, job, intake, status>> /\ crashes' = crashes + 1
      /\ UNCHANGED topicVars
      /\ batch' = [batch EXCEPT ![s] = {}] /\ marking' = [marking EXCEPT ![s] = NoEvent]
  BY DEF SchedulerCrash, RestartScheduler, Crash, dispatcherVars, jobVars, historyVars, storeVars
<1>2. batch \in [Schedulers -> SUBSET Events] /\ marking \in [Schedulers -> Events \cup {NoEvent}]
  BY DEF PipelineInv, TypeOK, SchedulerTypeOK
<1>3. \A r \in Schedulers \ {s} : batch'[r] = batch[r] /\ marking'[r] = marking[r]
  BY <1>1, <1>2
<1>4. Chances(e)' \subseteq Chances(e) \cup {s}
  BY <1>1, <1>3 DEF Chances
<1>5. Copies(e)' = Copies(e) /\ Requested(e)' = Requested(e) /\ InHand(e)' = InHand(e)
  BY <1>1, CopiesStay, InHandStays DEF topicVars, Requested
<1>. QED  BY <1>1, <1>4, <1>5, DeathIsPaid

\* The death of a dispatcher: the message it held is handed out again.
LEMMA DispatcherCrashKeepsBound ==
    ASSUME PipelineInv, RecordsInv, RetriesAreBelowLimit, Steady, ReaderIsCurrent, [Next]_vars,
           NEW d \in Dispatchers, DispatcherCrash(d), NEW e \in Events, Within(e)
    PROVE  Within(e)'
<1>1. /\ UNCHANGED <<acked, refused, intake, batch, marking, status, log, committed>>
      /\ crashes' = crashes + 1
      /\ owner' = IF owner = d THEN NoOne ELSE owner
      /\ position' = [position EXCEPT ![d] = 0]
      /\ pc' = [pc EXCEPT ![d] = "down"] /\ job' = [job EXCEPT ![d] = NoEvent]
  BY DEF DispatcherCrash, StopDispatcher, Crash, Goto, Forget, schedulerVars, historyVars, storeVars
<1>2. /\ log \in Seq(Events) /\ Len(log) \in Nat /\ committed \in Nat
      /\ owner \in Dispatchers \cup {NoOne} /\ NoOne \notin Dispatchers
      /\ position \in [Dispatchers -> 0..Len(log)]
      /\ pc \in [Dispatchers -> Calls \cup {"down"}]
      /\ job \in [Dispatchers -> Events \cup {NoEvent}]
  BY TopicAssumption DEF PipelineInv, TypeOK, TopicTypeOK, DispatcherTypeOK
<1>3. Copies(e)' \subseteq Copies(e) \cup {committed + 1}
  <2>1. CASE owner = d
    <3>1. position[d] \in {committed, committed + 1}
      BY <2>1 DEF ReaderIsCurrent
    <3>2. \A i \in 1..Len(log) : Unread(i)' => Unread(i) \/ i = committed + 1
      BY <1>1, <1>2, <2>1, <3>1 DEF Unread
    <3>. QED  BY <1>1, <3>2 DEF Copies
  <2>2. CASE owner # d
    <3>1. owner' = owner /\ (owner # NoOne => position'[owner] = position[owner])
      BY <1>1, <1>2, <2>2
    <3>2. \A i \in 1..Len(log) : Unread(i)' => Unread(i)
      BY <1>1, <3>1 DEF Unread
    <3>. QED  BY <1>1, <3>2 DEF Copies
  <2>. QED  BY <2>1, <2>2
<1>4. InHand(e)' => InHand(e)
  <2>1. \A f \in Dispatchers : pc'[f] \in BeforePost => pc'[f] = pc[f] /\ job'[f] = job[f]
    BY <1>1, <1>2 DEF BeforePost
  <2>. QED  BY <2>1 DEF InHand
<1>5. Chances(e)' \subseteq Chances(e) /\ Requested(e)' = Requested(e)
  BY <1>1, ChancesStay DEF Requested
<1>. QED  BY <1>1, <1>3, <1>4, <1>5, DeathIsPaid

\* The steps of the surroundings, and the death of a request.
LEMMA SurroundingsKeepBound ==
    ASSUME PipelineInv, RecordsInv, RetriesAreBelowLimit, Steady, [Next]_vars,
           NEW e \in Events, Within(e),
           \/ UNCHANGED vars
           \/ \E f \in Events : IntakeCrash(f) \/ RetryDue(f) \/ LockTimeout(f)
           \/ \E d \in Dispatchers : Assign(d)
           \/ \E p \in Endpoints : CacheTimeout(p) \/ Edit(p)
    PROVE  Within(e)'
<1>0. /\ status \in [Events -> Statuses \cup {"absent"}] /\ intake \in [Events -> IntakeStages]
      /\ position \in [Dispatchers -> 0..Len(log)] /\ crashes \in Nat
      /\ owner \in Dispatchers \cup {NoOne} /\ NoOne \notin Dispatchers
  BY TopicAssumption
     DEF PipelineInv, TypeOK, StoreTypeOK, IntakeTypeOK, TopicTypeOK
<1>1. /\ UNCHANGED <<acked, refused, pc, job, batch, marking>>
      /\ crashes' \in Nat /\ crashes <= crashes'
  BY <1>0 DEF vars, IntakeCrash, RetryDue, LockTimeout, Assign, CacheTimeout, Edit, Crash,
         dispatcherVars, jobVars, historyVars, schedulerVars, budgetVars
<1>2. Requested(e)' => Requested(e)
  BY <1>0 DEF vars, IntakeCrash, AbandonRequest, RetryDue, LockTimeout, Assign, CacheTimeout,
         Edit, Requested
<1>3. status'[e] = "retrying" => status[e] = "retrying"
  BY <1>0 DEF vars, IntakeCrash, AbandonRequest, RetryDue, RetryComesDue, LockTimeout, Assign,
         CacheTimeout, Edit, UpdateEndpoint, DeleteEndpoint, eventRow, storeVars
<1>4. Copies(e)' = Copies(e)
  <2>1. CASE UNCHANGED topicVars
    BY <2>1, CopiesStay DEF topicVars
  <2>2. ASSUME NEW d \in Dispatchers, Assign(d)
        PROVE  Copies(e)' = Copies(e)
    <3>1. log' = log /\ owner = NoOne /\ owner' = d /\ position'[d] = committed /\ d # NoOne
      BY <1>0, <2>2 DEF Assign, AssignTo
    <3>2. \A i : Unread(i)' <=> Unread(i)
      BY <3>1 DEF Unread
    <3>. QED  BY <3>1, <3>2 DEF Copies
  <2>3. UNCHANGED topicVars \/ \E d \in Dispatchers : Assign(d)
    BY DEF vars, IntakeCrash, AbandonRequest, RetryDue, LockTimeout, CacheTimeout, Edit
  <2>. QED  BY <2>1, <2>2, <2>3
<1>5. Chances(e)' \subseteq Chances(e) /\ InHand(e)' = InHand(e)
  BY <1>1, <1>3, ChancesStay, InHandStays
<1>. QED  BY <1>1, <1>2, <1>4, <1>5, NothingGrows

\* The one holder of a message.
LEMMA OneHolder ==
    ASSUME RecordsInv, Steady, NEW d \in Dispatchers, NEW f \in Dispatchers,
           HoldsMessage(d), HoldsMessage(f)
    PROVE  d = f /\ owner = d
  BY DEF RecordsInv, HoldersOwnPartition, Steady

\* A dispatcher is about to POST what it has fetched, until it has.
LEMMA HandsMove ==
    ASSUME PipelineInv, NEW d \in Dispatchers, DispatcherStep(d), ~FetchMessage(d),
           NEW e \in Events
    PROVE  InHand(e)' => InHand(e)
<1>0. /\ pc \in [Dispatchers -> Calls \cup {"down"}]
      /\ job \in [Dispatchers -> Events \cup {NoEvent}]
  BY DEF PipelineInv, TypeOK, DispatcherTypeOK
<1>1. ASSUME pc'[d] \in BeforePost
      PROVE  pc[d] \in BeforePost /\ job'[d] = job[d]
  <2>1. CASE GetEvent(d) \/ Acquire(d) \/ ReleaseGet(d) \/ ReleaseDelete(d)
    BY <1>0, <1>1, <2>1 DEF GetEvent, Acquire, ReleaseGet, ReleaseDelete, Return, Goto,
           BeforePost, jobVars
  <2>2. CASE BreakerAllow(d) \/ GetCached(d) \/ GetEndpoint(d) \/ PutCached(d) \/ Deliver(d)
    BY <1>0, <1>1, <2>2 DEF BreakerAllow, GetCached, GetEndpoint, PutCached, Deliver, Found, Goto,
           BeforePost, jobVars
  <2>3. CASE RecordAttempt(d) \/ ResolveAttempt(d) \/ CreateDeadLetter(d) \/ MarkFailed(d)
    BY <1>0, <1>1, <2>3 DEF RecordAttempt, ResolveAttempt, CreateDeadLetter, MarkFailed, Goto,
           BeforePost, jobVars
  <2>4. CASE CommitMessage(d) \/ StartDispatcher(d)
    BY <1>0, <1>1, <2>4 DEF CommitMessage, StartDispatcher, Goto, BeforePost
  <2>. QED  BY <2>1, <2>2, <2>3, <2>4 DEF DispatcherStep
<1>2. \A f \in Dispatchers : pc'[f] \in BeforePost => pc[f] \in BeforePost /\ job'[f] = job[f]
  BY <1>1, DispatcherLocality
<1>. QED  BY <1>2 DEF InHand

\* A dispatcher schedules a retry in ResolveAttempt only, with one more on the count.
LEMMA RetryIsScheduled ==
    ASSUME PipelineInv, NEW d \in Dispatchers, DispatcherStep(d), NEW e \in Events,
           status'[e] = "retrying"
    PROVE  \/ status[e] = "retrying"
           \/ /\ ResolveAttempt(d) /\ job[d] = e /\ status[e] # "absent"
              /\ attemptCount'[e] = snap[d] + 1
<1>0. /\ status \in [Events -> Statuses \cup {"absent"}] /\ attemptCount \in [Events -> Nat]
  BY DEF PipelineInv, TypeOK, StoreTypeOK
<1>1. CASE ~Writes(d)
  BY <1>1, OtherStepsWriteNothing DEF storeVars
<1>2. CASE Writes(d) /\ status[e] # "retrying"
  <2>1. /\ job[d] \in Events /\ ResolveAttempt(d) /\ UpdateForRetry(job[d], snap[d] + 1)
    BY <1>0, <1>2, WriteIsStatement
       DEF InsertAttempt, UpdateStatus, InsertDeadLetter, eventRow, EventExists
  <2>. QED  BY <1>0, <1>2, <2>1 DEF UpdateForRetry, eventRow, EventExists
<1>. QED  BY <1>1, <1>2

\* The steps of a dispatcher: it fetches a copy, POSTs what it has in hand, and schedules
\* retries, for which the count goes up.
LEMMA DispatcherKeepsBound ==
    ASSUME PipelineInv, RecordsInv, RetriesAreBelowLimit, Steady, ReaderIsCurrent, [Next]_vars,
           NEW d \in Dispatchers, DispatcherStep(d), NEW e \in Events, Within(e)
    PROVE  Within(e)'
<1>0. /\ acked[e] \in Nat /\ refused[e] \in Nat /\ crashes \in Nat
      /\ IsFiniteSet(Copies(e)) /\ Cardinality(Copies(e)) \in Nat
      /\ IsFiniteSet(Chances(e)) /\ Cardinality(Chances(e)) \in Nat /\ ChancesLeft(e) \in Nat
      /\ Cardinality(Schedulers) \in Nat
  BY CountsAreNat
<1>1. /\ UNCHANGED <<intake, batch, marking, crashes>> /\ Requested(e)' = Requested(e)
      /\ pc \in [Dispatchers -> Calls \cup {"down"}]
      /\ job \in [Dispatchers -> Events \cup {NoEvent}]
      /\ acked \in [Events -> Nat] /\ refused \in [Events -> Nat]
      /\ owner \in Dispatchers \cup {NoOne} /\ NoOne \notin Dispatchers
  BY TopicAssumption
     DEF DispatcherStep, schedulerVars, budgetVars, Requested, PipelineInv, TypeOK, TopicTypeOK,
         DispatcherTypeOK
<1>2. ChancesLeft(e)' \in Nat /\ ChancesLeft(e)' <= ChancesLeft(e)
  BY ChancesLeftFall
<1>3. CASE FetchMessage(d)
  <2>1. /\ UNCHANGED <<status, acked, refused>>
        /\ pc' = [pc EXCEPT ![d] = "getEvent"]
        /\ job' = [job EXCEPT ![d] = log[position[d] + 1]]
    BY <1>3 DEF FetchMessage, Goto, storeVars, historyVars
  <2>2. /\ position[d] + 1 \in Copies(job'[d])
        /\ Copies(e)' = Copies(e) \ {position[d] + 1}
    BY <1>3, CopiesFetched
  <2>3. Chances(e)' \subseteq Chances(e)
    BY <1>1, <2>1, ChancesStay
  <2>4. CASE e = job'[d]
    <3>1. /\ Cardinality(Copies(e)') \in Nat
          /\ Cardinality(Copies(e)') + 1 <= Cardinality(Copies(e))
      BY <1>0, <2>2, <2>4, CountsOfParts
    <3>2. /\ Cardinality(Chances(e)') \in Nat
          /\ Cardinality(Chances(e)') <= Cardinality(Chances(e))
      BY <1>0, <2>3, FS_Subset, FS_CardinalityType
    <3>. QED  BY <1>0, <1>1, <1>2, <2>1, <3>1, <3>2, OneForAnother
  <2>5. CASE e # job'[d]
    <3>1. \A f \in Dispatchers : pc'[f] \in BeforePost /\ job'[f] = e =>
             pc[f] \in BeforePost /\ job[f] = e
      BY <1>1, <2>1, <2>5
    <3>2. InHand(e)' => InHand(e)
      BY <3>1 DEF InHand
    <3>. QED  BY <1>0, <1>1, <2>1, <2>2, <2>3, <3>2, NothingGrows
  <2>. QED  BY <2>4, <2>5
<1>4. ASSUME ~FetchMessage(d)
      PROVE  /\ Copies(e)' = Copies(e)
             /\ InHand(e)' => InHand(e)
  <2>1. UNCHANGED <<log, owner, position>> /\ (committed' = committed \/ owner # NoOne)
    <3>1. CASE UNCHANGED topicVars
      BY <3>1 DEF topicVars
    <3>2. CASE CommitMessage(d)
      <4>1. HoldsMessage(d) /\ UNCHANGED <<log, owner, position>>
        BY <3>2 DEF CommitMessage, CommitOffset, HoldsMessage
      <4>2. owner = d
        BY <4>1, OneHolder
      <4>. QED  BY <1>1, <4>1, <4>2
    <3>. QED  BY <1>4, <3>1, <3>2, DispatcherTopic
  <2>2. InHand(e)' => InHand(e)
    BY <1>4, HandsMove
  <2>. QED  BY <2>1, <2>2, CopiesStay
<1>5. CASE Deliver(d) /\ job[d] = e
  <2>1. /\ pc[d] = "deliver" /\ pc'[d] = "record" /\ ~FetchMessage(d)
        /\ UNCHANGED status
        /\ acked'[e] \in Nat /\ refused'[e] \in Nat
        /\ acked'[e] + refused'[e] = acked[e] + refused[e] + 1
    BY <1>1, <1>5 DEF Deliver, FetchMessage, Goto, storeVars
  <2>2. InHand(e)
    BY <1>5, <2>1 DEF InHand, BeforePost
  <2>3. ~InHand(e)'
    <3>1. \A f \in Dispatchers \ {d} : pc'[f] = pc[f]
      BY DispatcherLocality
    <3>2. \A f \in Dispatchers \ {d} : pc[f] \notin BeforePost
      BY <2>1, OneHolder DEF HoldsMessage, BeforePost
    <3>. QED  BY <2>1, <3>1, <3>2 DEF InHand, BeforePost
  <2>4. /\ Cardinality(Chances(e)') \in Nat
        /\ Cardinality(Chances(e)') <= Cardinality(Chances(e))
    <3>1. Chances(e)' \subseteq Chances(e)
      BY <1>1, <2>1, ChancesStay
    <3>. QED  BY <1>0, <3>1, FS_Subset, FS_CardinalityType
  <2>5. Copies(e)' = Copies(e)
    BY <1>4, <2>1
  <2>. QED  BY <1>0, <1>1, <1>2, <2>1, <2>2, <2>3, <2>4, <2>5, OneForAnother
<1>6. ASSUME ~Deliver(d) \/ job[d] # e
      PROVE  acked'[e] = acked[e] /\ refused'[e] = refused[e]
  <2>1. CASE Deliver(d)
    BY <1>1, <1>6, <2>1 DEF Deliver
  <2>2. CASE ~Deliver(d)
    BY <2>2 DEF DispatcherStep, FetchMessage, GetEvent, Acquire, BreakerAllow, GetCached,
           GetEndpoint, PutCached, RecordAttempt, ResolveAttempt, CreateDeadLetter, MarkFailed,
           ReleaseGet, ReleaseDelete, CommitMessage, StartDispatcher, Return, Forget, historyVars
  <2>. QED  BY <2>1, <2>2
<1>7. CASE ResolveAttempt(d) /\ job[d] = e /\ status[e] # "absent" /\ attemptCount'[e] = snap[d] + 1
  <2>1. ~FetchMessage(d) /\ ~Deliver(d)
    BY <1>7 DEF ResolveAttempt, FetchMessage, Deliver
  <2>2. ChancesLeft(e)' + Cardinality(Schedulers) <= ChancesLeft(e)
    BY <1>7, ChancesLeftFall
  <2>3. /\ Cardinality(Chances(e)') \in Nat
        /\ Cardinality(Chances(e)') <= Cardinality(Schedulers)
    <3>1. Chances(e)' \subseteq Schedulers
      BY DEF Chances
    <3>. QED  BY <3>1, SchedulerAssumption, FS_Subset, FS_CardinalityType
  <2>4. acked'[e] = acked[e] /\ refused'[e] = refused[e] /\ Copies(e)' = Copies(e)
        /\ (InHand(e)' => InHand(e))
    BY <1>4, <1>6, <2>1
  <2>. QED  BY <1>0, <1>1, <1>2, <2>2, <2>3, <2>4, OneForAnother
<1>8. CASE /\ ~FetchMessage(d) /\ (~Deliver(d) \/ job[d] # e)
           /\ status'[e] = "retrying" => status[e] = "retrying"
  <2>1. Chances(e)' \subseteq Chances(e)
    BY <1>1, <1>8, ChancesStay
  <2>. QED  BY <1>0, <1>1, <1>4, <1>6, <1>8, <2>1, NothingGrows
<1>. QED  BY <1>3, <1>5, <1>7, <1>8, RetryIsScheduled

\* ReaderIsCurrent is kept: the holder of a message is the owner, and commits what its
\* reader has handed out.
LEMMA StepKeepsReaderCurrent ==
    ASSUME PipelineInv, RecordsInv, Steady, ReaderIsCurrent, [Next]_vars,
           ~\E d \in Dispatchers : Rebalance(d)
    PROVE  ReaderIsCurrent'
<1>. SUFFICES ASSUME NEW f \in Dispatchers, owner' = f
              PROVE  IF HoldsMessage(f)' THEN position'[f] = committed' + 1 /\ offset'[f] = position'[f]
                                         ELSE position'[f] = committed'
  BY DEF ReaderIsCurrent
<1>0. /\ position \in [Dispatchers -> 0..Len(log)] /\ offset \in [Dispatchers -> 0..Len(log)]
      /\ pc \in [Dispatchers -> Calls \cup {"down"}] /\ Len(log) \in Nat
      /\ committed \in 0..Len(log) /\ NoOne \notin Dispatchers /\ "kafka" \notin Faults
  BY TopicAssumption DEF PipelineInv, TypeOK, TopicTypeOK, DispatcherTypeOK, Steady
<1>1. ASSUME owner = f, HoldsMessage(f)' = HoldsMessage(f), committed' = committed,
             position'[f] = position[f], HoldsMessage(f) => offset'[f] = offset[f]
      PROVE  IF HoldsMessage(f)' THEN position'[f] = committed' + 1 /\ offset'[f] = position'[f]
                                 ELSE position'[f] = committed'
  BY <1>1 DEF ReaderIsCurrent
<1>2. ASSUME NEW d \in Dispatchers, DispatcherStep(d), d # f
      PROVE  /\ owner = f /\ committed' = committed /\ position'[f] = position[f]
             /\ HoldsMessage(f)' = HoldsMessage(f) /\ offset'[f] = offset[f]
  <2>1. pc'[f] = pc[f] /\ offset'[f] = offset[f]
    BY <1>2, DispatcherLocality
  <2>2. CASE UNCHANGED topicVars
    BY <2>1, <2>2 DEF topicVars, HoldsMessage
  <2>3. CASE FetchMessage(d)
    BY <1>2, <2>3 DEF FetchMessage
  <2>4. CASE CommitMessage(d)
    <3>1. owner' = owner /\ HoldsMessage(d)
      BY <2>4 DEF CommitMessage, CommitOffset, HoldsMessage
    <3>. QED  BY <1>2, <3>1, OneHolder
  <2>. QED  BY <1>2, <2>2, <2>3, <2>4, DispatcherTopic
<1>3. CASE FetchMessage(f)
  BY <1>0, <1>3 DEF FetchMessage, Goto, HoldsMessage, ReaderIsCurrent
<1>4. CASE CommitMessage(f)
  <2>1. /\ owner = f /\ position' = position /\ committed' = offset[f]
        /\ pc[f] = "commit" /\ pc'[f] = "fetch"
    BY <1>0, <1>4 DEF CommitMessage, CommitOffset, Goto
  <2>. QED  BY <2>1 DEF ReaderIsCurrent, HoldsMessage
<1>5. CASE StartDispatcher(f)
  BY <1>0, <1>1, <1>5 DEF StartDispatcher, Goto, HoldsMessage, topicVars
<1>6. CASE DispatcherStep(f) /\ ~FetchMessage(f) /\ ~CommitMessage(f) /\ ~StartDispatcher(f)
  <2>1. UNCHANGED topicVars
    BY <1>6, DispatcherTopic
  <2>2. /\ HoldsMessage(f) /\ HoldsMessage(f)' /\ offset' = offset
    <3>1. CASE GetEvent(f) \/ Acquire(f) \/ ReleaseGet(f) \/ ReleaseDelete(f)
      BY <1>0, <3>1 DEF GetEvent, Acquire, ReleaseGet, ReleaseDelete, Return, Goto, HoldsMessage,
             jobVars
    <3>2. CASE BreakerAllow(f) \/ GetCached(f) \/ GetEndpoint(f) \/ PutCached(f) \/ Deliver(f)
      BY <1>0, <3>2 DEF BreakerAllow, GetCached, GetEndpoint, PutCached, Deliver, Found, Goto,
             HoldsMessage, jobVars
    <3>3. CASE RecordAttempt(f) \/ ResolveAttempt(f) \/ CreateDeadLetter(f) \/ MarkFailed(f)
      BY <1>0, <3>3 DEF RecordAttempt, ResolveAttempt, CreateDeadLetter, MarkFailed, Goto,
             HoldsMessage, jobVars
    <3>. QED  BY <1>6, <3>1, <3>2, <3>3 DEF DispatcherStep
  <2>. QED  BY <1>1, <2>1, <2>2 DEF topicVars
<1>7. ASSUME NEW d \in Dispatchers, DispatcherCrash(d)
      PROVE  /\ owner = f /\ committed' = committed /\ position'[f] = position[f]
             /\ HoldsMessage(f)' = HoldsMessage(f) /\ offset'[f] = offset[f]
  <2>1. owner = f /\ d # f
    BY <1>0, <1>7 DEF DispatcherCrash, StopDispatcher
  <2>. QED
    BY <1>0, <1>7, <2>1 DEF DispatcherCrash, StopDispatcher, Goto, Forget, HoldsMessage
<1>8. ASSUME NEW d \in Dispatchers, Assign(d)
      PROVE  IF HoldsMessage(f)' THEN position'[f] = committed' + 1 /\ offset'[f] = position'[f]
                                 ELSE position'[f] = committed'
  <2>1. /\ d = f /\ owner = NoOne /\ position'[f] = committed /\ committed' = committed /\ pc' = pc
    BY <1>0, <1>8 DEF Assign, AssignTo, dispatcherVars
  <2>2. ~HoldsMessage(f)
    BY <1>0, <2>1, OneHolder
  <2>. QED  BY <2>1, <2>2 DEF HoldsMessage
<1>9. ASSUME ~\E d \in Dispatchers : DispatcherStep(d) \/ DispatcherCrash(d) \/ Assign(d)
      PROVE  UNCHANGED <<pc, offset, owner, committed, position>>
  BY <1>9 DEF Next, vars, IntakeStep, IntakeCrash, AcceptRequest, RejectRequest, CreateEvent,
              PublishCreated, MarkCreatedQueued, AbandonRequest, Publish, PublishFails,
              SchedulerStep, SchedulerCrash, FindRetryable, Republish, MarkRetryQueued,
              RestartScheduler, RetryDue, LockTimeout, CacheTimeout, Edit, topicVars,
              dispatcherVars, jobVars
<1>. QED
  <2>1. CASE \E d \in Dispatchers : DispatcherStep(d) /\ d # f
    BY <1>1, <1>2, <2>1
  <2>2. CASE DispatcherStep(f)
    BY <1>3, <1>4, <1>5, <1>6, <2>2
  <2>3. CASE \E d \in Dispatchers : DispatcherCrash(d)
    BY <1>1, <1>7, <2>3
  <2>4. CASE \E d \in Dispatchers : Assign(d)
    BY <1>8, <2>4
  <2>5. CASE ~\E d \in Dispatchers : DispatcherStep(d) \/ DispatcherCrash(d) \/ Assign(d)
    BY <1>1, <1>9, <2>5 DEF HoldsMessage
  <2>. QED  BY <2>1, <2>2, <2>3, <2>4, <2>5

\* PostsInv is kept.
LEMMA StepKeepsPosts ==
    ASSUME PipelineInv, RecordsInv, PostsInv, [Next]_vars
    PROVE  PostsInv'
<1>1. RetriesAreBelowLimit /\ RetriesAreBelowLimit'
  BY StepKeepsBelowLimit DEF PostsInv
<1>2. ASSUME Steady'
      PROVE  ReaderIsCurrent' /\ \A e \in Events : Within(e)'
  <2>1. /\ Steady /\ ~\E d \in Dispatchers : Rebalance(d)
        /\ ReaderIsCurrent /\ \A e \in Events : Within(e)
    BY <1>2, SteadyBefore DEF PostsInv, Within
  <2>2. ReaderIsCurrent'
    BY <2>1, StepKeepsReaderCurrent
  <2>3. ASSUME NEW e \in Events PROVE Within(e)'
    <3>1. CASE \E f \in Events : IntakeStep(f)
      BY <1>1, <2>1, <3>1, IntakeKeepsBound
    <3>2. CASE \E s \in Schedulers : SchedulerStep(s)
      BY <1>1, <2>1, <3>2, SchedulerKeepsBound
    <3>3. CASE \E s \in Schedulers : SchedulerCrash(s)
      BY <1>1, <2>1, <3>3, SchedulerCrashKeepsBound
    <3>4. CASE \E d \in Dispatchers : DispatcherStep(d)
      BY <1>1, <2>1, <3>4, DispatcherKeepsBound
    <3>5. CASE \E d \in Dispatchers : DispatcherCrash(d)
      BY <1>1, <2>1, <3>5, DispatcherCrashKeepsBound
    <3>6. CASE \/ UNCHANGED vars
               \/ \E f \in Events : IntakeCrash(f) \/ RetryDue(f) \/ LockTimeout(f)
               \/ \E d \in Dispatchers : Assign(d)
               \/ \E p \in Endpoints : CacheTimeout(p) \/ Edit(p)
      BY <1>1, <2>1, <3>6, SurroundingsKeepBound
    <3>. QED  BY <2>1, <3>1, <3>2, <3>3, <3>4, <3>5, <3>6 DEF Next
  <2>. QED  BY <2>2, <2>3
<1>. QED  BY <1>1, <1>2 DEF PostsInv, Within

\* At first there is the request, and all the chances.
LEMMA InitPosts == Init => PostsInv
<1>. SUFFICES ASSUME Init PROVE PostsInv
  OBVIOUS
<1>0. PipelineInv /\ MaxAttempts \in Nat \ {0}
  BY InitInvariant, StoreAssumption
<1>1. RetriesAreBelowLimit
  BY <1>0 DEF RetriesAreBelowLimit, Init, StoreInit, DispatcherInit
<1>2. ReaderIsCurrent
  BY TopicAssumption DEF ReaderIsCurrent, Init, TopicInit
<1>3. ASSUME NEW e \in Events PROVE Within(e)
  <2>1. /\ acked[e] = 0 /\ refused[e] = 0 /\ crashes = 0 /\ Requested(e) /\ ~InHand(e)
    BY DEF Init, StoreInit, IntakeInit, DispatcherInit, Requested, InHand, BeforePost
  <2>2. Copies(e) = {} /\ Chances(e) = {}
    BY DEF Init, StoreInit, TopicInit, SchedulerInit, Copies, Chances
  <2>3. ChancesLeft(e) = Cardinality(Schedulers) * (MaxAttempts - 1)
    <3>1. attemptCount[e] = 0 /\ intake[e] = "new"
      BY DEF Init, StoreInit, IntakeInit
    <3>2. MaxAttempts - 1 - attemptCount[e] = MaxAttempts - 1
      BY <1>0, <3>1
    <3>. QED  BY <3>1, <3>2 DEF ChancesLeft
  <2>4. MostPosts = 1 + ChancesLeft(e)
    BY <2>3 DEF MostPosts
  <2>5. Cardinality(Copies(e)) = 0 /\ Cardinality(Chances(e)) = 0
    BY <2>2, FS_EmptySet
  <2>6. ChancesLeft(e) \in Nat
    BY <1>0, <1>1, CountsAreNat
  <2>. QED  BY <2>1, <2>4, <2>5, <2>6 DEF Within, PostsToCome
<1>. QED  BY <1>1, <1>2, <1>3 DEF PostsInv, Within

\* While the partition stays where it is and PostgreSQL and Kafka answer, what is and may
\* still be POSTed of an event never adds up to more than the bound, for any number of
\* schedulers, dispatchers and deaths.
THEOREM PostsInvariant == Spec => []PostsInv
<1>1. Init => PostsInv
  BY InitPosts
<1>2. PipelineInv /\ RecordsInv /\ PostsInv /\ [Next]_vars => PostsInv'
  BY StepKeepsPosts
<1>. QED
  BY <1>1, <1>2, PipelineInvariant, RecordsInvariant, PTL DEF Spec

\* In such times an event is POSTed once for its request, once per scheduler for each of
\* the MaxAttempts - 1 retries, and once more per death, whatever the status writes of
\* intake and schedulers undo.
THEOREM PostsAreBounded == Spec => []AttemptsAreBounded
<1>1. PipelineInv /\ PostsInv => AttemptsAreBounded
  <2>. SUFFICES ASSUME PipelineInv, PostsInv, Steady, NEW e \in Events
                PROVE  acked[e] + refused[e] <= MostPosts + crashes
    BY DEF AttemptsAreBounded
  <2>1. Within(e) /\ RetriesAreBelowLimit
    BY DEF PostsInv, Within
  <2>2. (IF Requested(e) THEN 1 ELSE 0) \in Nat /\ (IF InHand(e) THEN 1 ELSE 0) \in Nat
    OBVIOUS
  <2>3. /\ acked[e] \in Nat /\ refused[e] \in Nat /\ crashes \in Nat /\ MostPosts \in Nat
        /\ Cardinality(Copies(e)) \in Nat /\ Cardinality(Chances(e)) \in Nat
        /\ ChancesLeft(e) \in Nat
    BY <2>1, CountsAreNat
  <2>. QED  BY <2>1, <2>2, <2>3 DEF Within, PostsToCome
<1>. QED
  BY <1>1, PipelineInvariant, PostsInvariant, PTL
==============================================================================
