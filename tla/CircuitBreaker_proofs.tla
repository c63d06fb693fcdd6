------------------------- MODULE CircuitBreaker_proofs -------------------------
(***************************************************************************)
(* The circuit breaker opens only for a failure that finds it half open, or*)
(* once Threshold failures were reported since a success last cleared the  *)
(* counter, for any number of dispatchers, any threshold and timeout, and  *)
(* with commands that fail, pipelines that are cut off and dispatchers that*)
(* die.  BreakerInv is inductive: the counter and what is still to be      *)
(* counted are backed by reports.  SerialInv is inductive on top of it: as *)
(* long as calls do not overlap and no command fails, one worker at most is*)
(* between two commands, and last_failure is no older than the failure that*)
(* opened the breaker; hence it refuses until the timeout.                 *)
(***************************************************************************)
EXTENDS CircuitBreaker, FiniteSetTheorems, TLAPS

\* UpTo stays in the range of the counter and is monotone in its argument.
LEMMA UpToRange ==
    ASSUME NEW n \in Nat
    PROVE  /\ UpTo(n) \in 0..Threshold
           /\ n >= Threshold => UpTo(n) = Threshold
           /\ n < Threshold => UpTo(n) = n
  BY BreakerAssumption DEF UpTo

\* The breaker starts closed, with nothing counted.
LEMMA BreakerInit == Init => BreakerInv
<1> SUFFICES ASSUME Init PROVE BreakerInv OBVIOUS
<1>1. TypeOK BY BreakerAssumption DEF Init, TypeOK, States, Commands, Ages, Old
<1>2. Uncounted = {} BY DEF Init, Uncounted
<1>3. failures + Cardinality(Uncounted) <= reported BY <1>2, FS_EmptySet DEF Init
<1> QED BY <1>1, <1>3 DEF BreakerInv

\* The set of workers with a failure to count stays finite.
LEMMA UncountedIsFinite ==
    /\ IsFiniteSet(Uncounted) /\ Cardinality(Uncounted) \in Nat
    /\ IsFiniteSet(Uncounted') /\ Cardinality(Uncounted') \in Nat
<1>1. Uncounted \subseteq Workers /\ Uncounted' \subseteq Workers BY DEF Uncounted
<1> QED BY <1>1, FS_Subset, FS_CardinalityType, BreakerAssumption

\* Every command of a worker preserves the types.
LEMMA StepKeepsTypes ==
    ASSUME TypeOK, NEW w \in Workers, UNCHANGED faulty, Step(w) \/ Die(w)
    PROVE  TypeOK'
<1> USE BreakerAssumption DEF TypeOK, States, Commands, Ages, Old, keys, history, Goto, Finish
<1>1. CASE GetState(w) BY <1>1 DEF GetState
<1>2. CASE GetLastFailure(w) BY <1>2 DEF GetLastFailure
<1>3. CASE AllowProbe(w) BY <1>3 DEF AllowProbe
<1>4. CASE Refuse(w) BY <1>4 DEF Refuse
<1>5. CASE Deliver(w) BY <1>5, UpToRange DEF Deliver
<1>6. CASE SetClosed(w) BY <1>6 DEF SetClosed
<1>7. CASE DelFailures(w)
  <2>1. UpTo(Cardinality(Uncounted)) \in 0..Threshold BY UpToRange, UncountedIsFinite
  <2> QED BY <1>7, <2>1 DEF DelFailures
<1>8. CASE GetForFailure(w) BY <1>8 DEF GetForFailure
<1>9. CASE IncrFailures(w) BY <1>9, UpToRange DEF IncrFailures
<1>10. CASE SetOpen(w)
  <2>1. Alone(w) \in BOOLEAN BY DEF Alone
  <2>2. serial' \in BOOLEAN BY <1>10, <2>1 DEF SetOpen
  <2> QED BY <1>10, <2>2 DEF SetOpen
<1>11. CASE SetLastFailure(w)
  <2>1. serial' \in BOOLEAN BY <1>11 DEF SetLastFailure
  <2> QED BY <1>11, <2>1 DEF SetLastFailure
<1>12. CASE Die(w)
  <2>1. serial' \in BOOLEAN BY <1>12 DEF Die
  <2> QED BY <1>12, <2>1 DEF Die
<1> QED BY <1>1, <1>2, <1>3, <1>4, <1>5, <1>6, <1>7, <1>8, <1>9, <1>10, <1>11, <1>12 DEF Step

\* Only a success that clears the counter takes reports back.
LEMMA ReportsGrow ==
    ASSUME TypeOK, NEW w \in Workers, UNCHANGED faulty, Step(w) \/ Die(w), ~DelFailures(w)
    PROVE  reported <= reported' /\ reported' <= Threshold
<1>1. CASE Deliver(w)
  <2>1. reported' \in {reported, UpTo(reported + 1)} BY <1>1 DEF Deliver
  <2>2. UpTo(reported + 1) \in reported..Threshold
    BY BreakerAssumption DEF UpTo, TypeOK
  <2> QED BY <2>1, <2>2, BreakerAssumption DEF TypeOK
<1>2. CASE ~Deliver(w)
  <2>1. reported' = reported
    BY <1>2 DEF Step, Die, GetState, GetLastFailure, AllowProbe, Refuse, SetClosed,
                GetForFailure, IncrFailures, SetOpen, SetLastFailure, history
  <2> QED BY <2>1, BreakerAssumption DEF TypeOK
<1> QED BY <1>1, <1>2

\* A worker's step other than a failed POST adds nothing to what is still to be counted.
LEMMA OthersAddNothing ==
    ASSUME TypeOK, NEW w \in Workers, UNCHANGED faulty, Step(w) \/ Die(w), pc'[w] # "getForFailure"
    PROVE  Uncounted' \subseteq Uncounted
<1> USE DEF TypeOK, Uncounted, Goto, Finish
<1>1. CASE GetState(w) BY <1>1 DEF GetState
<1>2. CASE GetLastFailure(w) BY <1>2 DEF GetLastFailure
<1>3. CASE AllowProbe(w) BY <1>3 DEF AllowProbe
<1>4. CASE Refuse(w) BY <1>4 DEF Refuse
<1>5. CASE Deliver(w) BY <1>5 DEF Deliver
<1>6. CASE SetClosed(w) BY <1>6 DEF SetClosed
<1>7. CASE DelFailures(w) BY <1>7 DEF DelFailures
<1>8. CASE GetForFailure(w) BY <1>8 DEF GetForFailure
<1>9. CASE IncrFailures(w) BY <1>9 DEF IncrFailures
<1>10. CASE SetOpen(w) BY <1>10 DEF SetOpen
<1>11. CASE SetLastFailure(w) BY <1>11 DEF SetLastFailure
<1>12. CASE Die(w) BY <1>12 DEF Die
<1> QED BY <1>1, <1>2, <1>3, <1>4, <1>5, <1>6, <1>7, <1>8, <1>9, <1>10, <1>11, <1>12 DEF Step

\* A failed POST is reported and becomes one failure more to count.
LEMMA FailedPostIsBacked ==
    ASSUME BreakerInv, NEW w \in Workers, Deliver(w), pc'[w] = "getForFailure"
    PROVE  reported' = Threshold \/ failures' + Cardinality(Uncounted') <= reported'
<1>1. w \notin Uncounted /\ Uncounted' = Uncounted \cup {w}
  BY DEF Deliver, Goto, Finish, Uncounted, BreakerInv, TypeOK
<1>2. Cardinality(Uncounted') = Cardinality(Uncounted) + 1
  BY <1>1, UncountedIsFinite, FS_AddElement
<1>3. reported' = UpTo(reported + 1) /\ failures' = failures
  BY DEF Deliver, Goto, Finish, BreakerInv, TypeOK, keys
<1>4. reported \in 0..Threshold /\ failures \in Nat /\ Threshold \in Nat
  BY BreakerAssumption DEF BreakerInv, TypeOK
<1>5. reported = Threshold \/ failures + Cardinality(Uncounted) <= reported BY DEF BreakerInv
<1>6. UpTo(reported + 1) = Threshold \/ UpTo(reported + 1) = reported + 1
  BY DEF UpTo
<1>7. reported = Threshold => UpTo(reported + 1) = Threshold BY <1>4 DEF UpTo
<1> HIDE DEF UpTo
<1> QED BY <1>2, <1>3, <1>4, <1>5, <1>6, <1>7, UncountedIsFinite

\* INCR takes one failure from those to count into the counter, and reaches the
\* threshold only if that many were reported.
LEMMA IncrIsBacked ==
    ASSUME BreakerInv, NEW w \in Workers, IncrFailures(w)
    PROVE  /\ reported' = reported
           /\ reported' = Threshold \/ failures' + Cardinality(Uncounted') <= reported'
           /\ pc'[w] = "setOpen" => reported = Threshold
<1>1. w \in Uncounted /\ Uncounted' = Uncounted \ {w}
  BY DEF IncrFailures, Goto, Finish, Uncounted, BreakerInv, TypeOK
<1>2. Cardinality(Uncounted') = Cardinality(Uncounted) - 1
  BY <1>1, UncountedIsFinite, FS_RemoveElement
<1>3. failures' \in {failures, UpTo(failures + 1)} /\ reported' = reported
  BY DEF IncrFailures, history
<1>4. /\ reported \in 0..Threshold /\ failures \in 0..Threshold /\ Threshold \in Nat
      /\ reported = Threshold \/ failures + Cardinality(Uncounted) <= reported
  BY BreakerAssumption DEF BreakerInv, TypeOK
<1>5. reported # Threshold => failures + 1 < Threshold /\ UpTo(failures + 1) = failures + 1
  BY <1>2, <1>4, UncountedIsFinite DEF UpTo
<1>6. pc'[w] = "setOpen" => failures + 1 >= Threshold
  BY DEF IncrFailures, Goto, Finish, BreakerInv, TypeOK
<1> HIDE DEF UpTo
<1> QED BY <1>2, <1>3, <1>4, <1>5, <1>6, UncountedIsFinite

\* Clearing the counter leaves the failures that are still to be counted.
LEMMA ClearingIsBacked ==
    ASSUME BreakerInv, NEW w \in Workers, DelFailures(w)
    PROVE  reported' = Threshold \/ failures' + Cardinality(Uncounted') <= reported'
<1> DEFINE n == Cardinality(Uncounted)
<1>1. Uncounted' = Uncounted
  BY DEF DelFailures, Goto, Finish, Uncounted, BreakerInv, TypeOK
<1>2. CASE failures' = 0 /\ reported' = UpTo(n)
  <2>1. n \in Nat BY UncountedIsFinite
  <2>2. UpTo(n) = Threshold \/ UpTo(n) = n BY DEF UpTo
  <2> HIDE DEF n, UpTo
  <2> QED BY <1>1, <1>2, <2>1, <2>2 DEF n
<1>3. CASE UNCHANGED <<failures, reported>>
  BY <1>1, <1>3 DEF BreakerInv
<1> QED BY <1>2, <1>3 DEF DelFailures

\* The counter and the failures to count stay backed by reports.
LEMMA CounterIsBacked ==
    ASSUME BreakerInv, NEW w \in Workers, UNCHANGED faulty, Step(w) \/ Die(w)
    PROVE  reported' = Threshold \/ failures' + Cardinality(Uncounted') <= reported'
<1>1. CASE Deliver(w) /\ pc'[w] = "getForFailure" BY <1>1, FailedPostIsBacked
<1>2. CASE IncrFailures(w) BY <1>2, IncrIsBacked
<1>3. CASE DelFailures(w) BY <1>3, ClearingIsBacked
<1>4. CASE ~IncrFailures(w) /\ ~DelFailures(w) /\ ~(Deliver(w) /\ pc'[w] = "getForFailure")
  <2>1. pc'[w] # "getForFailure"
    BY <1>4 DEF Step, Die, GetState, GetLastFailure, AllowProbe, Refuse, SetClosed,
                GetForFailure, SetOpen, SetLastFailure, Goto, Finish, BreakerInv, TypeOK
  <2>2. Cardinality(Uncounted') <= Cardinality(Uncounted)
    BY <2>1, OthersAddNothing, UncountedIsFinite, FS_Subset DEF BreakerInv
  <2>3. failures' = failures
    BY <1>4 DEF Step, Die, GetState, GetLastFailure, AllowProbe, Refuse, Deliver, SetClosed,
                GetForFailure, SetOpen, SetLastFailure, keys
  <2>4. /\ failures \in Nat /\ reported \in Nat /\ Threshold \in Nat /\ reported' \in Nat
        /\ reported <= reported' /\ reported' <= Threshold
        /\ reported = Threshold \/ failures + Cardinality(Uncounted) <= reported
    BY <1>4, ReportsGrow, StepKeepsTypes, BreakerAssumption DEF BreakerInv, TypeOK
  <2> QED BY <2>2, <2>3, <2>4, UncountedIsFinite
<1> QED BY <1>1, <1>2, <1>3, <1>4

\* Who gets ready to open the breaker has found it half open or counted to the threshold.
LEMMA OpeningIsEarned ==
    ASSUME BreakerInv, Next, NEW w \in Workers, pc[w] # "setOpen", pc'[w] = "setOpen"
    PROVE  state = "half_open" \/ reported = Threshold
<1> USE DEF BreakerInv, TypeOK
<1>1. PICK v \in Workers : Step(v) \/ Die(v)
  BY DEF Next, Tick, Recover
<1>2. v = w
  BY <1>1 DEF Step, Die, GetState, GetLastFailure, AllowProbe, Refuse, Deliver, SetClosed,
              DelFailures, GetForFailure, IncrFailures, SetOpen, SetLastFailure, Goto, Finish
<1>3. GetForFailure(w) \/ IncrFailures(w)
  BY <1>1, <1>2 DEF Step, Die, GetState, GetLastFailure, AllowProbe, Refuse, Deliver, SetClosed,
              DelFailures, SetOpen, SetLastFailure, Goto, Finish
<1>4. CASE GetForFailure(w)
  BY <1>4 DEF GetForFailure, Goto
<1>5. CASE IncrFailures(w)
  BY <1>5, IncrIsBacked
<1> QED BY <1>3, <1>4, <1>5

\* BreakerInv holds in every reachable state: it is inductive.
THEOREM BreakerInvariant == Spec => []BreakerInv
<1>1. BreakerInv /\ [Next]_vars => BreakerInv'
  <2> SUFFICES ASSUME BreakerInv, [Next]_vars PROVE BreakerInv' OBVIOUS
  <2>1. CASE \E w \in Workers : UNCHANGED faulty /\ (Step(w) \/ Die(w))
    BY <2>1, StepKeepsTypes, CounterIsBacked DEF BreakerInv
  <2>2. CASE Tick
    BY <2>2, BreakerAssumption DEF Tick, Older, BreakerInv, TypeOK, Ages, Old, Uncounted
  <2>3. CASE Recover
    BY <2>3 DEF Recover, keys, history, BreakerInv, TypeOK, Uncounted
  <2>4. CASE UNCHANGED vars
    BY <2>4 DEF vars, keys, history, BreakerInv, TypeOK, Uncounted
  <2> QED BY <2>1, <2>2, <2>3, <2>4 DEF Next
<1> QED BY <1>1, BreakerInit, PTL DEF Spec

\* A dispatcher opens the breaker only for a failure that finds it half open, or once
\* Threshold failures were reported since a success last cleared the counter.
THEOREM BreakerOpensOnlyAfterThreshold == Spec => OpensOnlyAfterThreshold
<1>1. BreakerInv /\ [Next]_vars =>
         [\A w \in Workers : pc[w] # "setOpen" /\ pc'[w] = "setOpen" =>
             state = "half_open" \/ reported = Threshold]_vars
  BY OpeningIsEarned DEF vars
<1> QED BY <1>1, BreakerInvariant, PTL DEF Spec, OpensOnlyAfterThreshold

(***************************************************************************)
(* How long an open breaker refuses.                                       *)
(***************************************************************************)

LEMMA SerialStart == Init => SerialInv
  BY BreakerAssumption DEF Init, SerialInv, Old

\* Time leaves the order of ages as it is, as far as they are told apart.
LEMMA TimeKeepsOrder ==
    ASSUME NEW a \in Ages, NEW b \in Ages, a <= b
    PROVE  Older(a) <= Older(b)
  BY BreakerAssumption DEF Ages, Old, Older

LEMMA SerialTick ==
    ASSUME TypeOK, SerialInv, Tick
    PROVE  SerialInv'
<1> SUFFICES ASSUME serial
             PROVE  /\ \A v, w \in Workers : pc[v] # "getState" /\ pc[w] # "getState" => v = w
                    /\ \A w \in Workers : pc[w] \in {"judge", "setLast"} => age'[w] <= openedAge'
                    /\ (\A w \in Workers : pc[w] # "setLast") => lastAge' <= openedAge'
  BY DEF Tick, SerialInv
<1>1. ASSUME NEW w \in Workers, pc[w] \in {"judge", "setLast"} PROVE age'[w] <= openedAge'
  <2>1. age'[w] = Older(age[w]) /\ openedAge' = Older(openedAge)
    BY <1>1 DEF Tick
  <2>2. age[w] <= openedAge /\ age[w] \in Ages /\ openedAge \in Ages
    BY <1>1 DEF SerialInv, TypeOK
  <2> QED BY <2>1, <2>2, TimeKeepsOrder
<1>2. ASSUME \A w \in Workers : pc[w] # "setLast" PROVE lastAge' <= openedAge'
  BY <1>2, TimeKeepsOrder DEF Tick, SerialInv, TypeOK
<1> QED BY <1>1, <1>2 DEF SerialInv

\* A call that begins alone, and each command of the only call there is.
LEMMA SerialStep ==
    ASSUME TypeOK, SerialInv, NEW w \in Workers, UNCHANGED faulty, Step(w) \/ Die(w)
    PROVE  SerialInv'
<1> SUFFICES ASSUME serial' PROVE SerialInv'
  BY DEF SerialInv
<1> USE BreakerAssumption DEF TypeOK, Goto, Finish
<1>1. CASE SetOpen(w) /\ pc'[w] = "setLast"
  <2>1. /\ serial' = Alone(w) /\ openedAge' = age[w] /\ pc' = [pc EXCEPT ![w] = "setLast"]
        /\ \E a \in 0..age[w] : age' = [age EXCEPT ![w] = a]
    BY <1>1 DEF SetOpen
  <2>2. \A v \in Workers \ {w} : pc'[v] = "getState"
    BY <2>1 DEF Alone
  <2>3. age'[w] <= openedAge'
    BY <2>1 DEF Ages, Old
  <2> QED BY <1>1, <2>2, <2>3 DEF SerialInv
<1> USE DEF SerialInv, keys, history
<1>2. CASE GetState(w) BY <1>2 DEF GetState, Alone
<1>3. CASE GetLastFailure(w) BY <1>3 DEF GetLastFailure
<1>4. CASE AllowProbe(w) BY <1>4 DEF AllowProbe
<1>5. CASE Refuse(w) BY <1>5 DEF Refuse
<1>6. CASE Deliver(w) BY <1>6 DEF Deliver
<1>7. CASE SetClosed(w) BY <1>7 DEF SetClosed
<1>8. CASE DelFailures(w) BY <1>8 DEF DelFailures
<1>9. CASE GetForFailure(w) BY <1>9 DEF GetForFailure
<1>10. CASE IncrFailures(w) BY <1>10 DEF IncrFailures
<1>11. CASE SetOpen(w) /\ pc'[w] # "setLast" BY <1>11 DEF SetOpen
<1>12. CASE SetLastFailure(w) BY <1>12 DEF SetLastFailure
<1>13. CASE Die(w) BY <1>13 DEF Die
<1> QED
  BY <1>1, <1>2, <1>3, <1>4, <1>5, <1>6, <1>7, <1>8, <1>9, <1>10, <1>11, <1>12, <1>13
     DEF Step

\* SerialInv holds in every reachable state, with any number of dispatchers.
THEOREM SerialInvariant == Spec => []SerialInv
<1>1. TypeOK /\ SerialInv /\ [Next]_vars => SerialInv'
  <2> SUFFICES ASSUME TypeOK, SerialInv, [Next]_vars PROVE SerialInv' OBVIOUS
  <2>1. CASE \E w \in Workers : UNCHANGED faulty /\ (Step(w) \/ Die(w))
    BY <2>1, SerialStep
  <2>2. CASE Tick
    BY <2>2, SerialTick
  <2>3. CASE Recover \/ UNCHANGED vars
    BY <2>3 DEF Recover, vars, keys, history, SerialInv
  <2> QED BY <2>1, <2>2, <2>3 DEF Next
<1>2. BreakerInv => TypeOK
  BY DEF BreakerInv
<1> QED BY <1>1, <1>2, SerialStart, BreakerInvariant, PTL DEF Spec

\* As long as calls neither overlap nor stop half-way, no request is let through an open
\* breaker before its timeout: what Allow reads back is never older than the failure.
THEOREM OpenRefuses == Spec => OpenRefusesUntilTimeout
<1>1. TypeOK /\ SerialInv /\ [Next]_vars =>
         [\A w \in Workers : serial /\ pc[w] = "judge" /\ pc'[w] = "deliver" =>
             openedAge > Timeout]_vars
  <2> SUFFICES ASSUME TypeOK, SerialInv, Next, NEW w \in Workers,
                      serial, pc[w] = "judge", pc'[w] = "deliver"
               PROVE  openedAge > Timeout
    BY DEF vars
  <2>1. AllowProbe(w)
    <3>1. PICK v \in Workers : Step(v) \/ Die(v)
      BY DEF Next, Tick, Recover, TypeOK
    <3>2. v = w
      BY <3>1 DEF Step, Die, GetState, GetLastFailure, AllowProbe, Refuse, Deliver, SetClosed,
                  DelFailures, GetForFailure, IncrFailures, SetOpen, SetLastFailure, Goto, Finish,
                  TypeOK
    <3> QED
      BY <3>1, <3>2 DEF Step, Die, GetState, GetLastFailure, Refuse, Deliver, SetClosed,
                  DelFailures, GetForFailure, IncrFailures, SetOpen, SetLastFailure, Goto, Finish,
                  TypeOK
  <2>2. age[w] > Timeout /\ age[w] <= openedAge
    BY <2>1 DEF AllowProbe, SerialInv
  <2> QED BY <2>2, BreakerAssumption DEF TypeOK, Ages, Old
<1>2. BreakerInv => TypeOK
  BY DEF BreakerInv
<1> QED BY <1>1, <1>2, BreakerInvariant, SerialInvariant, PTL DEF Spec, OpenRefusesUntilTimeout
==============================================================================
