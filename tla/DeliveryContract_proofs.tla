------------------------ MODULE DeliveryContract_proofs ------------------------
(***************************************************************************)
(* DeliveryPipeline implements DeliveryContract: for any number of events, *)
(* dispatchers and schedulers, any faults and any bounds, every step of    *)
(* the pipeline is a step of the contract or leaves its variables alone,   *)
(* under the mapping AtWork, LastPosts, acked, refused, Buried.            *)
(*                                                                         *)
(* Only a dispatcher's own steps, its death and the deletion of an         *)
(* endpoint show: the mapping reads nothing that the others write.         *)
(***************************************************************************)
EXTENDS DeliveryPipeline_proofs

\* The mapping reads the dispatchers' variables and the dead letters, nothing else.
LEMMA StutteringStep ==
    ASSUME UNCHANGED <<pc, job, outcome, acked, refused, deadLetters>>
    PROVE  UNCHANGED Contract!vars
BY DEF Contract!vars, AtWork, LastPosts, LastPost, Buried, Working

\* What a dispatcher's own step does to the mapped variables: it changes its own place.
LEMMA OwnPlaceChanges ==
    ASSUME PipelineInv, NEW d \in Dispatchers, DispatcherStep(d) \/ StopDispatcher(d)
    PROVE  /\ AtWork' = [e \in Events |->
                           (AtWork[e] \ {d}) \cup {f \in {d} : Working(d, e)'}]
           /\ LastPosts' = [LastPosts EXCEPT ![d] = LastPost(d)']
<1>1. \A f \in Dispatchers \ {d} :
         pc'[f] = pc[f] /\ job'[f] = job[f] /\ outcome'[f] = outcome[f]
  BY DispatcherLocality
<1>2. ASSUME NEW e \in Events
      PROVE  {f \in Dispatchers : Working(f, e)'}
               = ({f \in Dispatchers : Working(f, e)} \ {d}) \cup {f \in {d} : Working(d, e)'}
  BY <1>1 DEF Working
<1>3. ASSUME NEW f \in Dispatchers \ {d} PROVE LastPost(f)' = LastPost(f)
  BY <1>1 DEF LastPost
<1>4. AtWork' = [e \in Events |-> {f \in Dispatchers : Working(f, e)'}]
  BY DEF AtWork
<1>5. \A e \in Events : AtWork[e] = {f \in Dispatchers : Working(f, e)}
  BY DEF AtWork
<1>6. LastPosts' = [f \in Dispatchers |-> LastPost(f)']
  BY DEF LastPosts
<1>7. LastPosts = [f \in Dispatchers |-> LastPost(f)]
  BY DEF LastPosts
<1>8. AtWork' = [e \in Events |-> (AtWork[e] \ {d}) \cup {f \in {d} : Working(d, e)'}]
  BY <1>2, <1>4, <1>5
<1>9. LastPosts' = [LastPosts EXCEPT ![d] = LastPost(d)']
  BY <1>3, <1>6, <1>7
<1>. QED  BY <1>8, <1>9

\* A step that leaves a dispatcher with the event it had, or without any, moves nobody.
LEMMA SamePlace ==
    ASSUME PipelineInv, NEW d \in Dispatchers, DispatcherStep(d) \/ StopDispatcher(d),
           \A e \in Events : Working(d, e)' <=> Working(d, e)
    PROVE  AtWork' = AtWork
<1>1. \A e \in Events : d \in AtWork[e] <=> Working(d, e)
  BY DEF AtWork
<1>2. \A e \in Events : (AtWork[e] \ {d}) \cup {f \in {d} : Working(d, e)'} = AtWork[e]
  BY <1>1
<1>3. AtWork = [e \in Events |-> AtWork[e]]
  BY DEF AtWork
<1>. QED  BY <1>2, <1>3, OwnPlaceChanges

\* If what its POST came to stays the same as well, the step does not show at all.
LEMMA QuietStep ==
    ASSUME PipelineInv, NEW d \in Dispatchers, DispatcherStep(d) \/ StopDispatcher(d),
           \A e \in Events : Working(d, e)' <=> Working(d, e),
           LastPost(d)' = LastPost(d)
    PROVE  AtWork' = AtWork /\ LastPosts' = LastPosts
<1>1. LastPosts = [f \in Dispatchers |-> LastPosts[f]] /\ LastPosts[d] = LastPost(d)
  BY DEF LastPosts
<1>2. LastPosts' = LastPosts
  BY <1>1, OwnPlaceChanges
<1>. QED  BY <1>2, SamePlace

\* A dispatcher without the lock on any event has made no POST that counts.
LEMMA IdleStep ==
    ASSUME PipelineInv, NEW d \in Dispatchers, DispatcherStep(d) \/ StopDispatcher(d),
           pc[d] \notin LockedCalls, pc'[d] \notin LockedCalls
    PROVE  AtWork' = AtWork /\ LastPosts' = LastPosts
BY QuietStep DEF Working, LastPost

\* The dead letters of a dispatcher's step: one row more, of the event at hand, for the
\* reason it has come to.
LEMMA DispatcherBuries ==
    ASSUME PipelineInv, NEW d \in Dispatchers, DispatcherStep(d)
    PROVE  \/ UNCHANGED Buried
           \/ /\ CreateDeadLetter(d) /\ job[d] \in Events /\ outcome[d] = "failed"
              /\ Buried' = Buried \cup {job[d]}
<1>1. CASE UNCHANGED deadLetters
  BY <1>1 DEF Buried
<1>2. CASE ~UNCHANGED deadLetters
  <2>1. /\ job[d] \in Events /\ pc[d] = "deadLetter" /\ outcome[d] \in Reasons
        /\ InsertDeadLetter(job[d], outcome[d])
    BY <1>2, DispatcherStore DEF storeVars, eventRow, InsertAttempt, UpdateStatus, UpdateForRetry
  <2>2. CreateDeadLetter(d)
    BY <2>1 DEF DispatcherStep, FetchMessage, GetEvent, Acquire, BreakerAllow, GetCached,
                GetEndpoint, PutCached, Deliver, RecordAttempt, ResolveAttempt, MarkFailed,
                ReleaseGet, ReleaseDelete, CommitMessage, StartDispatcher
  <2>3. deadLetters' = [deadLetters EXCEPT ![job[d]][outcome[d]] = @ + 1]
    BY <1>2, <2>1 DEF InsertDeadLetter
  <2>4. deadLetters \in [Events -> [Reasons -> Nat]] /\ "failed" \in Reasons
    BY DEF PipelineInv, TypeOK, StoreTypeOK, Reasons
  <2>5. ASSUME NEW e \in Events
        PROVE  deadLetters'[e]["failed"] =
                 IF e = job[d] /\ outcome[d] = "failed" THEN deadLetters[e]["failed"] + 1
                                                        ELSE deadLetters[e]["failed"]
    <3>1. CASE e # job[d]
      BY <2>1, <2>3, <2>4, <3>1
    <3>2. CASE e = job[d]
      <4>1. deadLetters'[e] = [deadLetters[e] EXCEPT ![outcome[d]] = @ + 1]
        BY <2>1, <2>3, <2>4, <3>2
      <4>. QED  BY <2>1, <2>4, <3>2, <4>1
    <3>. QED  BY <3>1, <3>2
  <2>6. \A e \in Events : deadLetters[e]["failed"] \in Nat
    BY <2>4
  <2>7. CASE outcome[d] = "failed"
    <3>1. \A e \in Events : e \in Buried' <=> e = job[d] \/ e \in Buried
      BY <2>5, <2>6, <2>7 DEF Buried
    <3>. QED  BY <2>1, <2>2, <2>7, <3>1 DEF Buried
  <2>8. CASE outcome[d] # "failed"
    BY <2>5, <2>8 DEF Buried
  <2>. QED  BY <2>7, <2>8
<1>. QED  BY <1>1, <1>2

\* Whoever comes to work on an event is added to those at work on it.
LEMMA Joins ==
    ASSUME PipelineInv, NEW d \in Dispatchers, DispatcherStep(d) \/ StopDispatcher(d),
           NEW taken \in Events, \A e \in Events : Working(d, e)' <=> e = taken,
           \A e \in Events : ~Working(d, e)
    PROVE  AtWork' = [AtWork EXCEPT ![taken] = @ \cup {d}]
<1>1. \A e \in Events : d \notin AtWork[e]
  BY DEF AtWork
<1>2. \A e \in Events : (AtWork[e] \ {d}) \cup {f \in {d} : Working(d, e)'}
                          = IF e = taken THEN AtWork[e] \cup {d} ELSE AtWork[e]
  BY <1>1
<1>3. AtWork = [e \in Events |-> AtWork[e]]
  BY DEF AtWork
<1>4. AtWork' = [e \in Events |-> (AtWork[e] \ {d}) \cup {f \in {d} : Working(d, e)'}]
  BY OwnPlaceChanges
<1>5. AtWork' = [e \in Events |-> IF e = taken THEN AtWork[e] \cup {d} ELSE AtWork[e]]
  BY <1>2, <1>4
<1>. QED  BY ONLY <1>3, <1>5

\* Whoever is through with an event is removed, with what its POST came to.
LEMMA Leaves ==
    ASSUME PipelineInv, NEW d \in Dispatchers, DispatcherStep(d) \/ StopDispatcher(d),
           pc[d] \in LockedCalls, pc'[d] \notin LockedCalls,
           UNCHANGED <<acked, refused, deadLetters>>
    PROVE  job[d] \in Events /\ Contract!End(d, job[d])
<1>1. job[d] \in Events
  BY JobOfHolder DEF HoldsMessage, LockedCalls, PipelineInv
<1>2. \A e \in Events : (Working(d, e) <=> e = job[d]) /\ ~Working(d, e)'
  BY DEF Working
<1>3. \A e \in Events : (AtWork[e] \ {d}) \cup {f \in {d} : Working(d, e)'}
                          = IF e = job[d] THEN AtWork[e] \ {d} ELSE AtWork[e]
  <2>1. \A e \in Events : d \in AtWork[e] <=> e = job[d]
    BY <1>2 DEF AtWork
  <2>. QED  BY <1>2, <2>1
<1>4. AtWork = [e \in Events |-> AtWork[e]] /\ d \in AtWork[job[d]]
  BY <1>1, <1>2 DEF AtWork
<1>5. AtWork' = [e \in Events |-> (AtWork[e] \ {d}) \cup {f \in {d} : Working(d, e)'}]
  BY OwnPlaceChanges
<1>6. AtWork' = [e \in Events |-> IF e = job[d] THEN AtWork[e] \ {d} ELSE AtWork[e]]
  BY <1>3, <1>5
<1>7. AtWork' = [AtWork EXCEPT ![job[d]] = @ \ {d}]
  BY ONLY <1>4, <1>6
<1>8. LastPosts' = [LastPosts EXCEPT ![d] = "none"]
  <2>1. LastPost(d)' = "none"
    BY DEF LastPost
  <2>. QED  BY <2>1, OwnPlaceChanges
<1>9. Buried' = Buried
  BY DEF Buried
<1>. QED  BY <1>1, <1>4, <1>7, <1>8, <1>9 DEF Contract!End

\* Acquire, successful: nobody else is at work on the event, since whoever is has the lock.
LEMMA AcquireBegins ==
    ASSUME PipelineInv, NEW d \in Dispatchers, DispatcherStep(d), Acquire(d),
           pc'[d] \in LockedCalls
    PROVE  job[d] \in Events /\ Contract!Begin(d, job[d])
<1>. USE DEF PipelineInv
<1>1. pc[d] = "acquire" /\ job[d] \in Events
  BY JobOfHolder DEF Acquire, HoldsMessage
<1>2. /\ pc \in [Dispatchers -> Calls \cup {"down"}]
      /\ AcquireLock(d, job[d]) /\ pc' = [pc EXCEPT ![d] = "allow"]
      /\ UNCHANGED <<deadLetters, job, outcome, acked, refused>>
  BY DEF Acquire, Return, Goto, LockedCalls, TypeOK, DispatcherTypeOK, jobVars, historyVars,
         storeVars
<1>3. \A e \in Events : ~Working(d, e)
  BY <1>1 DEF Working, LockedCalls
<1>4. ASSUME ~SlowHolders PROVE AtWork[job[d]] = {}
  <2>1. \A f \in Dispatchers : ~Working(f, job[d])
    BY <1>2, <1>4, TopicAssumption DEF Working, WorkersHoldLock, AcquireLock
  <2>. QED  BY <1>1, <2>1 DEF AtWork
<1>5. \A e \in Events : Working(d, e)' <=> e = job[d]
  BY <1>2 DEF Working, LockedCalls
<1>6. LastPost(d) = "none" /\ LastPost(d)' = "none"
  <2>1. outcome[d] \notin {"ok", "failed"}
    BY <1>1 DEF OutcomeIsFresh, Unposted
  <2>. QED  BY <1>2, <2>1 DEF LastPost
<1>7. AtWork' = [AtWork EXCEPT ![job[d]] = @ \cup {d}]
  BY <1>1, <1>3, <1>5, Joins
<1>8. LastPosts' = LastPosts
  <2>1. LastPosts = [f \in Dispatchers |-> LastPosts[f]] /\ LastPosts[d] = LastPost(d)
    BY DEF LastPosts
  <2>. QED  BY <1>6, <2>1, OwnPlaceChanges
<1>9. Buried' = Buried
  BY <1>2 DEF Buried
<1>10. \A e \in Events : d \notin AtWork[e]
  BY <1>3 DEF AtWork
<1>. QED  BY <1>1, <1>2, <1>4, <1>7, <1>8, <1>9, <1>10 DEF Contract!Begin

\* Deliver: the one POST a dispatcher makes for the event it has.
LEMMA DeliverPosts ==
    ASSUME PipelineInv, NEW d \in Dispatchers, DispatcherStep(d), Deliver(d)
    PROVE  job[d] \in Events /\ Contract!Post(d, job[d])
<1>. USE DEF PipelineInv
<1>1. pc[d] = "deliver" /\ job[d] \in Events
  BY JobOfHolder DEF Deliver, HoldsMessage
<1>2. /\ pc'[d] = "record" /\ job' = job
      /\ UNCHANGED deadLetters
  BY DEF Deliver, Goto, TypeOK, DispatcherTypeOK, jobVars, storeVars
<1>3. d \in AtWork[job[d]]
  BY <1>1 DEF AtWork, Working, LockedCalls
<1>4. LastPosts[d] = "none"
  <2>1. outcome[d] \notin {"ok", "failed"}
    BY <1>1 DEF OutcomeIsFresh, Unposted
  <2>. QED  BY <2>1 DEF LastPosts, LastPost
<1>5. AtWork' = AtWork
  BY <1>1, <1>2, SamePlace DEF Working, LockedCalls
<1>6. Buried' = Buried
  BY <1>2 DEF Buried
<1>7. \A res \in {"ok", "failed"} :
         Result(d, res) => LastPosts' = [LastPosts EXCEPT ![d] = res]
  <2>. SUFFICES ASSUME NEW res \in {"ok", "failed"}, Result(d, res)
                PROVE  LastPosts' = [LastPosts EXCEPT ![d] = res]
    OBVIOUS
  <2>1. outcome'[d] = res
    BY DEF Result, TypeOK, DispatcherTypeOK
  <2>2. LastPost(d)' = res
    BY <1>2, <2>1 DEF LastPost, LockedCalls
  <2>. QED  BY <2>2, OwnPlaceChanges
<1>8. \/ /\ Result(d, "ok") /\ refused' = refused
         /\ acked' = [acked EXCEPT ![job[d]] = @ + 1]
      \/ /\ Result(d, "failed") /\ acked' = acked
         /\ refused' = [refused EXCEPT ![job[d]] = @ + 1]
  BY DEF Deliver
<1>. QED  BY <1>1, <1>3, <1>4, <1>5, <1>6, <1>7, <1>8 DEF Contract!Post

\* CreateDeadLetter: an event that is given up for failing has failed MaxAttempts times.
LEMMA CreateDeadLetterBuries ==
    ASSUME PipelineInv, NEW d \in Dispatchers, DispatcherStep(d), CreateDeadLetter(d)
    PROVE  \/ job[d] \in Events /\ Contract!Bury(d, job[d])
           \/ UNCHANGED Contract!vars
<1>. USE DEF PipelineInv
<1>1. pc[d] = "deadLetter" /\ job[d] \in Events
  BY JobOfHolder DEF CreateDeadLetter, HoldsMessage
<1>2. pc'[d] = "markFailed" /\ UNCHANGED <<job, outcome, acked, refused>>
  BY DEF CreateDeadLetter, Goto, TypeOK, DispatcherTypeOK, jobVars, historyVars
<1>3. AtWork' = AtWork /\ LastPosts' = LastPosts
  <2>1. \A e \in Events : Working(d, e)' <=> Working(d, e)
    BY <1>1, <1>2 DEF Working, LockedCalls
  <2>2. LastPost(d)' = LastPost(d)
    BY <1>1, <1>2 DEF LastPost, LockedCalls
  <2>. QED  BY <2>1, <2>2, QuietStep
<1>4. CASE UNCHANGED Buried
  BY <1>2, <1>3, <1>4 DEF Contract!vars
<1>5. CASE outcome[d] = "failed" /\ Buried' = Buried \cup {job[d]}
  <2>1. d \in AtWork[job[d]]
    BY <1>1 DEF AtWork, Working, LockedCalls
  <2>2. LastPosts[d] = "failed"
    BY <1>1, <1>5 DEF LastPosts, LastPost, LockedCalls
  <2>3. refused[job[d]] >= MaxAttempts
    <3>1. snap[d] + 1 <= refused[job[d]] /\ MaxAttempts <= snap[d] + 1
      BY <1>1, <1>5 DEF CountsAreBacked
    <3>2. snap[d] \in Nat /\ refused[job[d]] \in Nat /\ MaxAttempts \in Nat
      BY <1>1, StoreAssumption DEF TypeOK, DispatcherTypeOK
    <3>. QED  BY <3>1, <3>2
  <2>. QED  BY <1>1, <1>2, <1>3, <1>5, <2>1, <2>2, <2>3 DEF Contract!Bury
<1>. QED  BY <1>4, <1>5, DispatcherBuries

\* Every call of a dispatcher.
LEMMA DispatcherImplements ==
    ASSUME PipelineInv, NEW d \in Dispatchers, DispatcherStep(d)
    PROVE  [Contract!Next]_(Contract!vars)
<1>1. CASE FetchMessage(d) \/ GetEvent(d) \/ CommitMessage(d) \/ StartDispatcher(d)
  <2>1. pc[d] \notin LockedCalls /\ UNCHANGED <<deadLetters, acked, refused>>
    BY <1>1 DEF FetchMessage, GetEvent, CommitMessage, StartDispatcher, Return, Forget,
                LockedCalls, storeVars, historyVars
  <2>2. pc'[d] \notin LockedCalls
    BY <1>1 DEF FetchMessage, GetEvent, CommitMessage, StartDispatcher, Return, Goto,
                LockedCalls, PipelineInv, TypeOK, DispatcherTypeOK
  <2>3. AtWork' = AtWork /\ LastPosts' = LastPosts
    BY <2>1, <2>2, IdleStep
  <2>. QED  BY <2>1, <2>3 DEF Contract!vars, Buried
<1>2. CASE Acquire(d)
  <2>1. CASE pc'[d] \in LockedCalls
    <3>1. job[d] \in Events /\ Contract!Begin(d, job[d])
      BY <1>2, <2>1, AcquireBegins
    <3>. QED  BY <3>1 DEF Contract!Next
  <2>2. CASE pc'[d] \notin LockedCalls
    <3>1. pc[d] \notin LockedCalls /\ UNCHANGED <<deadLetters, acked, refused>>
      BY <1>2 DEF Acquire, Return, LockedCalls, storeVars, historyVars
    <3>2. AtWork' = AtWork /\ LastPosts' = LastPosts
      BY <2>2, <3>1, IdleStep
    <3>. QED  BY <3>1, <3>2 DEF Contract!vars, Buried
  <2>. QED  BY <2>1, <2>2
<1>3. CASE BreakerAllow(d) \/ GetCached(d) \/ GetEndpoint(d) \/ PutCached(d)
  <2>1. /\ pc[d] \in Unposted /\ pc[d] \in LockedCalls
        /\ UNCHANGED <<job, deadLetters, acked, refused>>
    BY <1>3 DEF BreakerAllow, GetCached, GetEndpoint, PutCached, Unposted, LockedCalls,
                storeVars, jobVars, historyVars
  <2>2. pc'[d] \in LockedCalls
    BY <1>3 DEF BreakerAllow, GetCached, GetEndpoint, PutCached, Found, Goto, LockedCalls,
                PipelineInv, TypeOK, DispatcherTypeOK
  <2>3. outcome[d] \notin {"ok", "failed"}
    BY <2>1 DEF PipelineInv, OutcomeIsFresh
  <2>4. outcome'[d] \notin {"ok", "failed"}
    <3>1. CASE UNCHANGED outcome
      BY <2>3, <3>1
    <3>2. CASE GetCached(d) /\ ~UNCHANGED outcome
      BY <3>2 DEF GetCached, Found, Result, PipelineInv, TypeOK, DispatcherTypeOK
    <3>3. CASE GetEndpoint(d) /\ ~UNCHANGED outcome
      <4>1. endpoint[EndpointOf[job[d]]] \in EndpointStates
        BY <3>3, JobOfHolder, StoreAssumption
           DEF GetEndpoint, HoldsMessage, PipelineInv, TypeOK, StoreTypeOK
      <4>. QED  BY <3>3, <4>1
                DEF GetEndpoint, Found, Result, EndpointStates, PipelineInv, TypeOK, DispatcherTypeOK
    <3>. QED  BY <1>3, <3>1, <3>2, <3>3 DEF BreakerAllow, PutCached
  <2>5. AtWork' = AtWork /\ LastPosts' = LastPosts
    BY <2>1, <2>2, <2>3, <2>4, QuietStep DEF Working, LastPost
  <2>. QED  BY <2>1, <2>5 DEF Contract!vars, Buried
<1>4. CASE Deliver(d)
  <2>1. job[d] \in Events /\ Contract!Post(d, job[d])
    BY <1>4, DeliverPosts
  <2>. QED  BY <2>1 DEF Contract!Next
<1>5. CASE RecordAttempt(d) \/ ResolveAttempt(d) \/ MarkFailed(d)
  <2>1. /\ pc[d] \in LockedCalls
        /\ UNCHANGED <<job, outcome, deadLetters, acked, refused>>
    BY <1>5 DEF RecordAttempt, ResolveAttempt, MarkFailed, InsertAttempt, UpdateStatus,
                UpdateForRetry, LockedCalls, jobVars, historyVars
  <2>2. pc'[d] \in LockedCalls
    BY <1>5 DEF RecordAttempt, ResolveAttempt, MarkFailed, Goto, LockedCalls,
                PipelineInv, TypeOK, DispatcherTypeOK
  <2>3. AtWork' = AtWork /\ LastPosts' = LastPosts
    BY <2>1, <2>2, QuietStep DEF Working, LastPost
  <2>. QED  BY <2>1, <2>3 DEF Contract!vars, Buried
<1>6. CASE CreateDeadLetter(d)
  BY <1>6, CreateDeadLetterBuries DEF Contract!Next
<1>7. CASE ReleaseGet(d) \/ ReleaseDelete(d)
  <2>1. /\ pc[d] \in LockedCalls
        /\ UNCHANGED <<job, outcome, deadLetters, acked, refused>>
    BY <1>7 DEF ReleaseGet, ReleaseDelete, Return, LockedCalls, storeVars, jobVars, historyVars
  <2>2. CASE pc'[d] \in LockedCalls
    <3>1. AtWork' = AtWork /\ LastPosts' = LastPosts
      BY <2>1, <2>2, QuietStep DEF Working, LastPost
    <3>. QED  BY <2>1, <3>1 DEF Contract!vars, Buried
  <2>3. CASE pc'[d] \notin LockedCalls
    <3>1. job[d] \in Events /\ Contract!End(d, job[d])
      BY <2>1, <2>3, Leaves
    <3>. QED  BY <3>1 DEF Contract!Next
  <2>. QED  BY <2>2, <2>3
<1>. QED  BY <1>1, <1>2, <1>3, <1>4, <1>5, <1>6, <1>7 DEF DispatcherStep

\* The death of a dispatcher, at work or not.
LEMMA CrashImplements ==
    ASSUME PipelineInv, NEW d \in Dispatchers, DispatcherCrash(d)
    PROVE  [Contract!Next]_(Contract!vars)
<1>1. StopDispatcher(d)
  BY DEF DispatcherCrash
<1>2. UNCHANGED <<deadLetters, acked, refused>>
  BY <1>1 DEF StopDispatcher, Forget, storeVars, historyVars
<1>3. pc'[d] \notin LockedCalls
  BY <1>1 DEF StopDispatcher, Goto, LockedCalls, PipelineInv, TypeOK, DispatcherTypeOK
<1>4. CASE pc[d] \in LockedCalls
  <2>1. job[d] \in Events /\ Contract!End(d, job[d])
    BY <1>1, <1>2, <1>3, <1>4, Leaves
  <2>. QED  BY <2>1 DEF Contract!Next
<1>5. CASE pc[d] \notin LockedCalls
  <2>1. AtWork' = AtWork /\ LastPosts' = LastPosts
    BY <1>1, <1>3, <1>5, IdleStep
  <2>. QED  BY <1>2, <2>1 DEF Contract!vars, Buried
<1>. QED  BY <1>4, <1>5

\* The deletion of an endpoint removes the dead letters of its events.
LEMMA DeletionPurges ==
    ASSUME NEW p \in Endpoints, DeleteEndpoint(p), UNCHANGED dispatcherVars
    PROVE  Contract!Purge({e \in Events : EndpointOf[e] = p})
<1>. DEFINE removed == {e \in Events : EndpointOf[e] = p}
<1>1. UNCHANGED <<pc, job, outcome, acked, refused>>
  BY DEF dispatcherVars, jobVars, historyVars
<1>2. UNCHANGED <<AtWork, LastPosts, acked, refused>>
  BY <1>1 DEF AtWork, LastPosts, LastPost, Working
<1>3. Buried' = Buried \ removed
  <2>1. \A e \in Events : deadLetters'[e] =
           IF EndpointOf[e] = p THEN [r \in Reasons |-> 0] ELSE deadLetters[e]
    BY DEF DeleteEndpoint
  <2>2. \A e \in Events : deadLetters'[e]["failed"] =
           IF EndpointOf[e] = p THEN 0 ELSE deadLetters[e]["failed"]
    BY <2>1 DEF Reasons
  <2>. QED  BY <2>2 DEF Buried
<1>. QED  BY <1>2, <1>3 DEF Contract!Purge

\* Everything else leaves the dispatchers' variables and the dead letters alone.
LEMMA SurroundingsImplement ==
    ASSUME PipelineInv, [Next]_vars,
           ~\E d \in Dispatchers : DispatcherStep(d) \/ DispatcherCrash(d)
    PROVE  [Contract!Next]_(Contract!vars)
<1>1. UNCHANGED dispatcherVars
  BY StepOfDispatcherOrNot
<1>2. \/ UNCHANGED deadLetters
      \/ \E p \in Endpoints : DeleteEndpoint(p)
  <2>1. \/ UNCHANGED storeVars
        \/ \E e \in Events : \/ InsertEvent(e) \/ InsertEventFails(e)
                             \/ UpdateStatus(e, "queued") \/ RetryComesDue(e)
        \/ \E p \in Endpoints : UpdateEndpoint(p) \/ DeleteEndpoint(p)
    BY DEF Next, vars, IntakeStep, IntakeCrash, AcceptRequest, RejectRequest, CreateEvent,
         PublishCreated, MarkCreatedQueued, AbandonRequest, SchedulerStep, SchedulerCrash,
         FindRetryable, Republish, MarkRetryQueued, RestartScheduler,
         RetryDue, LockTimeout, Assign, Rebalance, CacheTimeout, Edit,
         PipelineInv, TypeOK, SchedulerTypeOK
  <2>. QED  BY <2>1 DEF InsertEvent, InsertEventFails, UpdateStatus, RetryComesDue,
                        UpdateEndpoint, storeVars, eventRow
<1>3. CASE UNCHANGED deadLetters
  <2>1. UNCHANGED <<pc, job, outcome, acked, refused, deadLetters>>
    BY <1>1, <1>3 DEF dispatcherVars, jobVars, historyVars
  <2>. QED  BY <2>1, StutteringStep
<1>4. CASE \E p \in Endpoints : DeleteEndpoint(p)
  <2>1. PICK p \in Endpoints : DeleteEndpoint(p)
    BY <1>4
  <2>2. Contract!Purge({e \in Events : EndpointOf[e] = p})
    BY <1>1, <2>1, DeletionPurges
  <2>3. {e \in Events : EndpointOf[e] = p} \in SUBSET Events
    OBVIOUS
  <2>. QED  BY <2>2, <2>3 DEF Contract!Next
<1>. QED  BY <1>2, <1>3, <1>4

\* Nobody is at work, and nothing buried, when nothing has been accepted yet.
LEMMA InitImplements ==
    ASSUME Init
    PROVE  Contract!Init
<1>1. \A d \in Dispatchers : pc[d] \notin LockedCalls
  BY DEF Init, DispatcherInit, LockedCalls
<1>2. AtWork = [e \in Events |-> {}]
  <2>1. \A e \in Events : {d \in Dispatchers : Working(d, e)} = {}
    BY <1>1 DEF Working
  <2>. QED  BY <2>1 DEF AtWork
<1>3. LastPosts = [d \in Dispatchers |-> "none"]
  BY <1>1 DEF LastPosts, LastPost
<1>4. Buried = {}
  <2>1. \A e \in Events : deadLetters[e]["failed"] = 0
    BY DEF Init, StoreInit, Reasons
  <2>. QED  BY <2>1 DEF Buried
<1>5. acked = [e \in Events |-> 0] /\ refused = [e \in Events |-> 0]
  BY DEF Init, DispatcherInit
<1>. QED  BY <1>2, <1>3, <1>4, <1>5 DEF Contract!Init

\* The pipeline implements DeliveryContract, for every value of the constants.
THEOREM PipelineImplementsContract == Spec => ImplementsContract
<1>1. Init => Contract!Init
  BY InitImplements
<1>2. PipelineInv /\ [Next]_vars => [Contract!Next]_(Contract!vars)
  <2>. SUFFICES ASSUME PipelineInv, [Next]_vars PROVE [Contract!Next]_(Contract!vars)
    OBVIOUS
  <2>1. CASE \E d \in Dispatchers : DispatcherStep(d) \/ DispatcherCrash(d)
    BY <2>1, DispatcherImplements, CrashImplements
  <2>2. CASE ~\E d \in Dispatchers : DispatcherStep(d) \/ DispatcherCrash(d)
    BY <2>2, SurroundingsImplement
  <2>. QED  BY <2>1, <2>2
<1>. QED  BY <1>1, <1>2, PipelineInvariant, PTL DEF Spec, ImplementsContract, Contract!Spec
==============================================================================
