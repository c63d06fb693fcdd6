------------------------------- MODULE Backoff --------------------------------
(***************************************************************************)
(* The delay of a retry: handleFailure of the dispatcher looks the tenant  *)
(* up, doubles its retry_base_ms once per attempt in CalculateBackoff      *)
(* (pkg/retry/exponential.go), and draws below the result, while the       *)
(* tenant's settings change (TenantSettings).  The loop is one step per    *)
(* iteration.  A delay is an int64 number of nanoseconds, which wraps      *)
(* around; rand.Int63n panics unless it is positive.                       *)
(***************************************************************************)
EXTENDS TenantSettings

CONSTANTS
    Workers,        \* dispatchers that have a failed delivery at the same time
    MaxAttempts,    \* an event's max_attempts: 5
    Millisecond,    \* nanoseconds in a retry_base_ms: 10^6
    MaxDelay,       \* an hour, in nanoseconds
    MaxInt64

ASSUME BackoffAssumption ==
    /\ {MaxAttempts, Millisecond, MaxDelay, MaxInt64} \subseteq Nat \ {0}
    /\ 2 * (MaxColumn * Millisecond) <= MaxInt64
    /\ 2 * MaxDelay <= MaxInt64

VARIABLE
    retry   \* where each dispatcher is, with the variables of CalculateBackoff

backoffVars == <<settings, update, retry>>

\* int64 arithmetic.
Wrap(n) ==
    IF n \in (-MaxInt64 - 1)..MaxInt64 THEN n
    ELSE ((n + MaxInt64 + 1) % (2 * (MaxInt64 + 1))) - MaxInt64 - 1

Waiting == [stage |-> "waiting"]
Looping == [stage : {"loop", "draw"}, attempt : 1..MaxAttempts, base : Int,
            i : 0..MaxAttempts, delay : Int]
Drawn   == [stage : {"drawn"}, attempt : 1..MaxAttempts, base : Int, backoff : Int]
Panic   == [stage |-> "panic"]

BackoffTypeOK ==
    /\ SettingsInv
    /\ retry \in [Workers -> Looping \cup Drawn \cup {Waiting, Panic}]

BackoffInit ==
    /\ SettingsInit
    /\ retry = [w \in Workers |-> Waiting]

\* handleFailure up to the loop: after a failure that is not the last, with the base of
\* the tenant, or 1000 if the lookup fails, which is ignored.
Fail(w, t, attempt) ==
    /\ retry[w] = Waiting
    /\ Registered(t)
    /\ attempt < MaxAttempts
    /\ \E base \in {settings[t]["retry_base"], DefaultBase} :
          retry' = [retry EXCEPT ![w] = [stage |-> "loop", attempt |-> attempt, base |-> base,
                                         i |-> 0, delay |-> Wrap(base * Millisecond)]]
    /\ UNCHANGED settingsVars

\* A dispatcher's record after an iteration.
Iterated(r, stage, delay) ==
    [stage |-> stage, attempt |-> r.attempt, base |-> r.base, i |-> r.i + 1, delay |-> delay]

\* Mutant of Double: the loop is left after the doubling that exceeds the hour.
DoubleUncapped(w) ==
    /\ retry[w].stage = "loop"
    /\ retry[w].i < retry[w].attempt
    /\ LET delay == Wrap(retry[w].delay * 2) IN
         retry' = [retry EXCEPT ![w] =
                      Iterated(@, IF delay > MaxDelay THEN "draw" ELSE "loop", delay)]
    /\ UNCHANGED settingsVars

\* One iteration of the loop.
Double(w) ==
    /\ retry[w].stage = "loop"
    /\ retry[w].i < retry[w].attempt
    /\ LET delay == Wrap(retry[w].delay * 2) IN
         retry' = [retry EXCEPT ![w] =
                      IF delay > MaxDelay THEN Iterated(@, "draw", MaxDelay)
                                          ELSE Iterated(@, "loop", delay)]
    /\ UNCHANGED settingsVars

\* The loop's condition is false.
Leave(w) ==
    /\ retry[w].stage = "loop"
    /\ retry[w].i >= retry[w].attempt
    /\ retry' = [retry EXCEPT ![w].stage = "draw"]
    /\ UNCHANGED settingsVars

\* rand.Int63n(int64(delay)).
Draw(w) ==
    /\ retry[w].stage = "draw"
    /\ IF retry[w].delay <= 0
         THEN retry' = [retry EXCEPT ![w] = Panic]
         ELSE \E jitter \in 0..retry[w].delay - 1 :
                retry' = [retry EXCEPT ![w] =
                             [stage |-> "drawn", attempt |-> retry[w].attempt,
                              base |-> retry[w].base, backoff |-> jitter]]
    /\ UNCHANGED settingsVars

\* The retry is in the database, and the dispatcher turns to the next event.
Schedule(w) ==
    /\ retry[w].stage = "drawn"
    /\ retry' = [retry EXCEPT ![w] = Waiting]
    /\ UNCHANGED settingsVars

BackoffNext ==
    \/ SettingsNext /\ UNCHANGED retry
    \/ \E w \in Workers :
          \/ \E t \in Tenants, attempt \in 1..MaxAttempts : Fail(w, t, attempt)
          \/ Double(w) \/ Leave(w) \/ Draw(w) \/ Schedule(w)

BackoffSpec == BackoffInit /\ [][BackoffNext]_backoffVars

(***************************************************************************)
(* Properties.                                                             *)
(***************************************************************************)

\* No setting a tenant can store, and no number of attempts, makes Int63n panic: the
\* doublings neither wrap around nor start from nothing.
NeverPanics == \A w \in Workers : retry[w] # Panic

\* What n doublings make of a base when nothing caps them.
Ceiling(base, n) == base * Millisecond * 2 ^ n

\* The delay of attempt n is below base * 2^n and below an hour, the limits the tests of
\* CalculateBackoff assert for single values.
BackoffIsWithinLimits ==
    \A w \in Workers : retry[w].stage = "drawn" =>
        /\ retry[w].backoff >= 0
        /\ retry[w].backoff < MaxDelay
        /\ retry[w].backoff < Ceiling(retry[w].base, retry[w].attempt)

(***************************************************************************)
(* The inductive invariant behind both.                                    *)
(***************************************************************************)

\* The delay at the beginning of an iteration: the base as it is stored, or, once
\* doubled, within the hour; and never more than that many doublings account for.
DelayIsSound ==
    \A w \in Workers :
        retry[w].stage \in {"loop", "draw"} =>
            /\ retry[w].delay > 0
            /\ retry[w].i = 0 => retry[w].delay <= MaxColumn * Millisecond
            /\ retry[w].i > 0 => retry[w].delay <= MaxDelay
            /\ retry[w].stage = "draw" => retry[w].i > 0
            /\ retry[w].i <= retry[w].attempt
            /\ retry[w].base > 0
            /\ retry[w].delay <= Ceiling(retry[w].base, retry[w].i)

BackoffInv ==
    /\ BackoffTypeOK
    /\ DelayIsSound
    /\ BackoffIsWithinLimits
    /\ NeverPanics
==============================================================================
