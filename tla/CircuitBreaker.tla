---------------------------- MODULE CircuitBreaker ----------------------------
(***************************************************************************)
(* The circuit breaker of one endpoint (CircuitBreakerRepo in              *)
(* internal/repository/redis/circuit_breaker.go, used by processMessage):  *)
(* three Redis keys, which all dispatchers read and write one command at a *)
(* time.  go-redis's Pipeline sends its commands together but not in a     *)
(* transaction, so each of them is a step here too.                        *)
(*                                                                         *)
(* A dispatcher asks Allow, POSTs if it may, and reports what came of it.  *)
(*                                                                         *)
(* Times are kept as ages, in units of which the timeout has Timeout: how  *)
(* long ago a time lies, any age over the timeout being Old.  A missing    *)
(* last_failure reads as the epoch, which is Old.  The counter is only     *)
(* ever compared with the threshold, and kept up to it.                    *)
(***************************************************************************)
EXTENDS Naturals, FiniteSets

CONSTANTS
    Workers,     \* the dispatchers that share the keys
    Threshold,   \* failureThreshold, 5 in cmd/dispatcher/main.go
    Timeout      \* timeout, 60 seconds there, in ticks of the clock

ASSUME BreakerAssumption ==
    /\ IsFiniteSet(Workers)
    /\ Threshold \in Nat \ {0}
    /\ Timeout \in Nat

VARIABLES
    state,       \* cb:<endpoint>:state, or "none" (no key)
    failures,    \* cb:<endpoint>:failures, up to Threshold
    lastAge,     \* age of cb:<endpoint>:last_failure
    pc,          \* the command a worker sends next
    age,         \* age of the time a worker has read or will write
    faulty,      \* may commands fail, pipelines be cut off and workers die?
    reported,    \* history: failures reported since a success last cleared the counter,
                 \* those that were on their way into it then included, up to Threshold
    openedAge,   \* history: age of the failure that opened the breaker last
    serial       \* history: since it was opened no two calls have overlapped, and
                 \* last_failure was written with the new state

keys == <<state, failures, lastAge>>
history == <<reported, openedAge, serial>>
vars == <<keys, pc, age, faulty, history>>

Old      == Timeout + 1
Ages     == 0..Old
UpTo(n)  == IF n < Threshold THEN n ELSE Threshold
States   == {"none", "closed", "open", "half_open"}
Commands == {"getState", "getLast", "judge", "deliver", "setClosed", "delFailures",
             "getForFailure", "incr", "setOpen", "setLast"}

TypeOK ==
    /\ state \in States
    /\ failures \in 0..Threshold
    /\ lastAge \in Ages
    /\ pc \in [Workers -> Commands]
    /\ age \in [Workers -> Ages]
    /\ faulty \in BOOLEAN
    /\ reported \in 0..Threshold
    /\ openedAge \in Ages
    /\ serial \in BOOLEAN

Init ==
    /\ state = "none"
    /\ failures = 0
    /\ lastAge = Old
    /\ pc = [w \in Workers |-> "getState"]
    /\ age = [w \in Workers |-> 0]
    /\ faulty = TRUE
    /\ reported = 0
    /\ openedAge = Old
    /\ serial = TRUE

Goto(w, command) == pc' = [pc EXCEPT ![w] = command]

\* The call ends, and with it the processing of the message.
Finish(w) ==
    /\ Goto(w, "getState")
    /\ age' = [age EXCEPT ![w] = 0]

(***************************************************************************)
(* Allow.                                                                  *)
(***************************************************************************)

\* No other worker is between two commands.
Alone(w) == \A v \in Workers \ {w} : pc[v] = "getState"

\* GET state: only an open breaker is looked at more closely; an error refuses.
GetState(w) ==
    /\ pc[w] = "getState"
    /\ \/ /\ state = "open"
          /\ Goto(w, "getLast")
          /\ UNCHANGED age
       \/ /\ state # "open"
          /\ Goto(w, "deliver")
          /\ UNCHANGED age
       \/ /\ faulty
          /\ Finish(w)
    /\ serial' = (serial /\ Alone(w))
    /\ UNCHANGED <<keys, reported, openedAge>>

\* GET last_failure; an error refuses.
GetLastFailure(w) ==
    /\ pc[w] = "getLast"
    /\ \/ /\ Goto(w, "judge")
          /\ age' = [age EXCEPT ![w] = lastAge]
       \/ /\ faulty
          /\ Finish(w)
    /\ UNCHANGED <<keys, history>>

\* Mutant of AllowProbe: the transition to half open is missing.
AllowWithoutProbe(w) ==
    /\ pc[w] = "judge"
    /\ age[w] > Timeout
    /\ Goto(w, "deliver")
    /\ UNCHANGED <<keys, age, history>>

\* Mutant of AllowProbe: the boundary is off by one.
AllowProbeTooEarly(w) ==
    /\ pc[w] = "judge"
    /\ age[w] >= Timeout
    /\ state' = "half_open"
    /\ Goto(w, "deliver")
    /\ UNCHANGED <<failures, lastAge, age, history>>

\* Judged to be more than the timeout ago: SET state half_open and allow, whatever the state is by
\* now and whether the command succeeds or not.
AllowProbe(w) ==
    /\ pc[w] = "judge"
    /\ age[w] > Timeout
    /\ \/ state' = "half_open"
       \/ faulty /\ UNCHANGED state
    /\ Goto(w, "deliver")
    /\ UNCHANGED <<failures, lastAge, age, history>>

\* Otherwise the breaker refuses.
Refuse(w) ==
    /\ pc[w] = "judge"
    /\ age[w] <= Timeout
    /\ Finish(w)
    /\ UNCHANGED <<keys, history>>

(***************************************************************************)
(* The POST, and RecordSuccess or RecordFailure.                           *)
(***************************************************************************)

\* The POST succeeds or fails, or is not made because the endpoint is gone or
\* inactive or cannot be read: then nothing is reported.
Deliver(w) ==
    /\ pc[w] = "deliver"
    /\ \/ /\ Goto(w, "setClosed")
          /\ UNCHANGED <<age, reported>>
       \/ /\ Goto(w, "getForFailure")
          /\ reported' = UpTo(reported + 1)
          /\ UNCHANGED age
       \/ /\ Finish(w)
          /\ UNCHANGED reported
    /\ UNCHANGED <<keys, openedAge, serial>>

\* RecordSuccess: SET state closed, then DEL failures.
SetClosed(w) ==
    /\ pc[w] = "setClosed"
    /\ \/ /\ state' = "closed"
          /\ Goto(w, "delFailures")
          /\ UNCHANGED age
       \/ /\ faulty
          /\ Finish(w)
          /\ UNCHANGED state
    /\ UNCHANGED <<failures, lastAge, history>>

\* The failures reported that have not got into the counter yet.
Uncounted == {w \in Workers : pc[w] \in {"getForFailure", "incr"}}

\* Mutant of DelFailures: the counter is left as it is.
KeepFailures(w) ==
    /\ pc[w] = "delFailures"
    /\ reported' = UpTo(Cardinality(Uncounted))
    /\ Finish(w)
    /\ UNCHANGED <<state, failures, lastAge, openedAge, serial>>

DelFailures(w) ==
    /\ pc[w] = "delFailures"
    /\ \/ failures' = 0 /\ reported' = UpTo(Cardinality(Uncounted))
       \/ faulty /\ UNCHANGED <<failures, reported>>
    /\ Finish(w)
    /\ UNCHANGED <<state, lastAge, openedAge, serial>>

\* RecordFailure, GET state: half open opens at once; an error of it is dropped.
GetForFailure(w) ==
    /\ pc[w] = "getForFailure"
    /\ \/ /\ state = "half_open"
          /\ Goto(w, "setOpen")
       \/ /\ state # "half_open" \/ faulty
          /\ Goto(w, "incr")
    /\ age' = [age EXCEPT ![w] = 0]
    /\ UNCHANGED <<keys, history>>

\* Mutant of IncrFailures: the threshold is off by one.
IncrFailuresTooEager(w) ==
    /\ pc[w] = "incr"
    /\ failures' = UpTo(failures + 1)
    /\ IF failures + 2 >= Threshold
         THEN /\ Goto(w, "setOpen")
              /\ age' = [age EXCEPT ![w] = 0]
         ELSE Finish(w)
    /\ UNCHANGED <<state, lastAge, history>>

\* RecordFailure, INCR failures: opens from the threshold on.
IncrFailures(w) ==
    /\ pc[w] = "incr"
    /\ \/ /\ failures' = UpTo(failures + 1)
          /\ IF failures + 1 >= Threshold
               THEN /\ Goto(w, "setOpen")
                    /\ age' = [age EXCEPT ![w] = 0]
               ELSE Finish(w)
       \/ /\ faulty
          /\ Finish(w)
          /\ UNCHANGED failures
    /\ UNCHANGED <<state, lastAge, history>>

\* RecordFailure, SET state open, then SET last_failure to a time taken since the
\* command before.
SetOpen(w) ==
    /\ pc[w] = "setOpen"
    /\ \/ /\ state' = "open"
          /\ Goto(w, "setLast")
          /\ \E a \in 0..age[w] : age' = [age EXCEPT ![w] = a]
          /\ openedAge' = age[w]
          /\ serial' = Alone(w)
       \/ /\ faulty
          /\ Finish(w)
          /\ UNCHANGED <<state, openedAge, serial>>
    /\ UNCHANGED <<failures, lastAge, reported>>

\* Mutant of SetLastFailure: the time is that of an earlier command.
SetEarlierFailure(w) ==
    /\ pc[w] = "setLast"
    /\ \/ lastAge' = (IF age[w] < Old THEN age[w] + 1 ELSE Old) /\ UNCHANGED serial
       \/ faulty /\ serial' = FALSE /\ UNCHANGED lastAge
    /\ Finish(w)
    /\ UNCHANGED <<state, failures, reported, openedAge>>

SetLastFailure(w) ==
    /\ pc[w] = "setLast"
    /\ \/ lastAge' = age[w] /\ UNCHANGED serial
       \/ faulty /\ serial' = FALSE /\ UNCHANGED lastAge
    /\ Finish(w)
    /\ UNCHANGED <<state, failures, reported, openedAge>>

\* Time passes for every time that is kept.
Older(a) == IF a < Old THEN a + 1 ELSE Old
Tick ==
    /\ lastAge' = Older(lastAge)
    /\ openedAge' = Older(openedAge)
    /\ age' = [w \in Workers |-> IF pc[w] \in {"judge", "setOpen", "setLast"}
                                   THEN Older(age[w]) ELSE age[w]]
    /\ UNCHANGED <<state, failures, pc, faulty, reported, serial>>

\* A dispatcher dies at whatever command it has come to.
Die(w) ==
    /\ faulty
    /\ pc[w] # "getState"
    /\ Finish(w)
    /\ serial' = (serial /\ pc[w] # "setLast")
    /\ UNCHANGED <<keys, reported, openedAge>>

\* Redis and the dispatchers get over their troubles.
Recover ==
    /\ faulty
    /\ faulty' = FALSE
    /\ UNCHANGED <<keys, pc, age, history>>

Step(w) ==
    \/ GetState(w) \/ GetLastFailure(w) \/ AllowProbe(w) \/ Refuse(w)
    \/ Deliver(w) \/ SetClosed(w) \/ DelFailures(w)
    \/ GetForFailure(w) \/ IncrFailures(w) \/ SetOpen(w) \/ SetLastFailure(w)

Next ==
    \/ Tick \/ Recover
    \/ \E w \in Workers : UNCHANGED faulty /\ (Step(w) \/ Die(w))

Spec == Init /\ [][Next]_vars

\* Time passes, dispatchers run on, messages for the endpoint keep coming and troubles
\* pass; what half-carried-out calls have left in Redis stays there.
Fairness ==
    /\ WF_vars(Tick)
    /\ WF_vars(Recover)
    /\ \A w \in Workers : WF_vars(UNCHANGED faulty /\ Step(w))

LiveSpec == Spec /\ Fairness

(***************************************************************************)
(* Properties.                                                             *)
(***************************************************************************)

\* A dispatcher opens the breaker only for a failure that finds it half open, or once
\* Threshold failures were reported since a success last cleared the counter, those on
\* their way into it at that moment included, however the commands of the dispatchers
\* interleave, fail or are cut off half-way.
OpensOnlyAfterThreshold ==
    [][\A w \in Workers : pc[w] # "setOpen" /\ pc'[w] = "setOpen" =>
          state = "half_open" \/ reported = Threshold]_vars

\* What OpensOnlyAfterThreshold relies on: the counter and the failures still to be counted
\* never run ahead of the reports.
BreakerInv ==
    /\ TypeOK
    /\ reported = Threshold \/ failures + Cardinality(Uncounted) <= reported

\* As long as calls neither overlap nor stop between SET state and SET last_failure, a
\* request is let through an open breaker only once the timeout has passed since the
\* failure that opened it.  (Otherwise a request may find the new state with the old
\* last_failure and is let through at once, see the README.)
OpenRefusesUntilTimeout ==
    [][\A w \in Workers : serial /\ pc[w] = "judge" /\ pc'[w] = "deliver" =>
          openedAge > Timeout]_vars

\* What OpenRefusesUntilTimeout relies on.  While calls do not overlap, one worker at most
\* is between two commands, and the time it judges by or is about to write, or else the
\* one that is kept, is no older than the failure that opened the breaker.
SerialInv ==
    serial =>
        /\ \A v, w \in Workers : pc[v] # "getState" /\ pc[w] # "getState" => v = w
        /\ \A w \in Workers : pc[w] \in {"judge", "setLast"} => age[w] <= openedAge
        /\ (\A w \in Workers : pc[w] # "setLast") => lastAge <= openedAge

\* An open breaker does not stay open for ever: some dispatcher finds the timeout passed
\* although others keep writing new failure times.
OpenIsLeft == state = "open" ~> state # "open"
==============================================================================
