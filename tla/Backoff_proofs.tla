---------------------------- MODULE Backoff_proofs ----------------------------
(***************************************************************************)
(* Proofs about TenantSettings and Backoff: what tenants can store keeps   *)
(* rand.Int63n from panicking, for every number of tenants, requests, and  *)
(* dispatchers, and every value of the limits.                             *)
(***************************************************************************)
EXTENDS Backoff, FiniteSetTheorems, TLAPS

(***************************************************************************)
(* The numbers of the code satisfy what is assumed of their names.         *)
(***************************************************************************)

\* The largest INTEGER of milliseconds, and an hour, fit an int64 of nanoseconds twice
\* over: exponential.go, lines 8 to 18.
THEOREM CodeNumbersFit ==
    /\ 2 * (2147483647 * 1000000) <= 9223372036854775807
    /\ 2 * 3600000000000 <= 9223372036854775807
  BY SMT

(***************************************************************************)
(* Powers of two, which the provers know nothing of, count the subsets of  *)
(* an interval.                                                            *)
(***************************************************************************)

LEMMA SubsetsOfAnInterval ==
    ASSUME NEW n \in Nat
    PROVE  /\ IsFiniteSet(SUBSET (1..n)) /\ Cardinality(SUBSET (1..n)) = 2 ^ n
           /\ 2 ^ n \in Nat
<1>1. IsFiniteSet(1..n) /\ Cardinality(1..n) = n
  BY FS_Interval
<1>2. IsFiniteSet(SUBSET (1..n)) /\ Cardinality(SUBSET (1..n)) = 2 ^ n
  BY <1>1, FS_SUBSET
<1>3. Cardinality(SUBSET (1..n)) \in Nat
  BY <1>2, FS_CardinalityType
<1> QED BY <1>2, <1>3

\* The subsets of 1..n+1 are those of 1..n, without and with n+1.
LEMMA PowersDouble ==
    ASSUME NEW n \in Nat
    PROVE  2 ^ (n + 1) = 2 * 2 ^ n
<1> DEFINE S == SUBSET (1..n)
           T == {s \in SUBSET (1..n + 1) : n + 1 \in s}
           f == [s \in S |-> s \cup {n + 1}]
<1>1. SUBSET (1..n + 1) = S \cup T
  OBVIOUS
<1>2. S \cap T = {}
  OBVIOUS
<1>3. f \in Bijection(S, T)
  <2>1. f \in [S -> T]
    OBVIOUS
  <2>2. \A a, b \in S : f[a] = f[b] => a = b
    OBVIOUS
  <2>3. \A t \in T : \E s \in S : f[s] = t
    <3>1. SUFFICES ASSUME NEW t \in T PROVE f[t \ {n + 1}] = t /\ t \ {n + 1} \in S
      OBVIOUS
    <3> QED OBVIOUS
  <2>4. f \in Injection(S, T)
    BY <2>1, <2>2 DEF Injection, IsInjective
  <2>5. f \in Surjection(S, T)
    BY <2>1, <2>3 DEF Surjection
  <2> QED BY <2>4, <2>5 DEF Bijection
<1>4. IsFiniteSet(S) /\ Cardinality(S) = 2 ^ n /\ 2 ^ n \in Nat
  BY SubsetsOfAnInterval
<1>5. IsFiniteSet(T) /\ Cardinality(T) = 2 ^ n
  <2> HIDE DEF S, T, f
  <2>1. ExistsBijection(S, T)
    BY <1>3 DEF ExistsBijection
  <2> QED BY <1>4, <2>1, FS_Bijection
<1>6. Cardinality(SUBSET (1..n + 1)) = 2 ^ (n + 1)
  BY SubsetsOfAnInterval
<1> DEFINE p == 2 ^ n
           q == 2 ^ (n + 1)
<1> HIDE DEF S, T, f, p, q
<1>7. Cardinality(S \cup T) = Cardinality(S) + Cardinality(T) - Cardinality(S \cap T)
  BY <1>4, <1>5, FS_Union
<1>8. Cardinality(S \cap T) = 0
  BY <1>2, FS_EmptySet
<1>9. Cardinality(S) = p /\ Cardinality(T) = p /\ p \in Nat
  BY <1>4, <1>5 DEF p
<1>10. Cardinality(S \cup T) = q
  BY <1>1, <1>6 DEF q
<1>11. q = 2 * p
  BY <1>7, <1>8, <1>9, <1>10
<1> QED BY <1>11 DEF p, q

\* A larger interval has more subsets.
LEMMA PowersGrow ==
    ASSUME NEW m \in Nat, NEW n \in Nat, m <= n
    PROVE  2 ^ m <= 2 ^ n
<1>1. SUBSET (1..m) \in SUBSET (SUBSET (1..n))
  OBVIOUS
<1>2. Cardinality(SUBSET (1..m)) <= Cardinality(SUBSET (1..n))
  BY <1>1, SubsetsOfAnInterval, FS_Subset
<1>3. Cardinality(SUBSET (1..m)) = 2 ^ m /\ Cardinality(SUBSET (1..n)) = 2 ^ n
  BY SubsetsOfAnInterval
<1> QED BY <1>2, <1>3

LEMMA PowerOfZero == 2 ^ 0 = 1
<1>1. SUBSET (1..0) = {{}}
  OBVIOUS
<1> QED BY <1>1, SubsetsOfAnInterval, FS_Singleton

\* Each doubling doubles the ceiling, and more of them do not lower it.
LEMMA CeilingDoubles ==
    ASSUME NEW base \in Int, base > 0, NEW n \in Nat
    PROVE  /\ Ceiling(base, 0) = base * Millisecond
           /\ Ceiling(base, n) \in Nat
           /\ Ceiling(base, n + 1) = 2 * Ceiling(base, n)
           /\ \A m \in Nat : n <= m => Ceiling(base, n) <= Ceiling(base, m)
<1> DEFINE c == base * Millisecond
<1>1. c \in Nat
  BY BackoffAssumption
<1> HIDE DEF c
<1>2. c * 2 ^ 0 = c
  BY <1>1, PowerOfZero
<1>3. ASSUME NEW m \in Nat, NEW x \in Nat, x = 2 ^ m
      PROVE  c * x \in Nat
  BY <1>1, <1>3
<1>4. c * 2 ^ n \in Nat
  BY <1>3, SubsetsOfAnInterval
<1>5. ASSUME NEW x \in Nat PROVE c * (2 * x) = 2 * (c * x)
  BY <1>1, <1>5
<1>6. c * 2 ^ (n + 1) = 2 * (c * 2 ^ n)
  BY <1>5, PowersDouble, SubsetsOfAnInterval
<1>7. ASSUME NEW x \in Nat, NEW y \in Nat, x <= y PROVE c * x <= c * y
  BY <1>1, <1>7
<1>8. \A m \in Nat : n <= m => c * 2 ^ n <= c * 2 ^ m
  BY <1>7, PowersGrow, SubsetsOfAnInterval
<1> QED BY <1>2, <1>4, <1>6, <1>8 DEF Ceiling, c

LEMMA CeilingIsNumber ==
    ASSUME NEW base \in Int, base > 0, NEW n \in Nat
    PROVE  Ceiling(base, n) \in Nat
  BY CeilingDoubles

(***************************************************************************)
(* Settings.                                                               *)
(***************************************************************************)

LEMMA DefaultsAreSettled ==
    ASSUME NEW f \in Fields
    PROVE  Default[f] \in Int /\ Accepted(f, Default[f]) /\ Default[f] <= MaxColumn
<1>1. CASE f = "rate_limit"
  BY <1>1, SettingsAssumption DEF Default, Accepted, SettingsAssumption
<1>2. CASE f = "max_retries"
  BY <1>2, SettingsAssumption DEF Default, Accepted, SettingsAssumption
<1>3. CASE f = "retry_base"
  BY <1>3, SettingsAssumption DEF Default, Accepted, SettingsAssumption
<1> QED
  BY <1>1, <1>2, <1>3, SettingsAssumption DEF SettingsAssumption

\* A row is never mistaken for a missing one.
LEMMA RowsAreNotMissing == \A row \in [Fields -> Int] : row # NoTenant
<1>1. SUFFICES ASSUME NEW row \in [Fields -> Int], row = NoTenant PROVE FALSE
  OBVIOUS
<1>2. DOMAIN row = Fields /\ DOMAIN NoTenant = {}
  BY DEF NoTenant
<1>3. Fields # {}
  BY SettingsAssumption DEF SettingsAssumption
<1> QED
  BY <1>1, <1>2, <1>3

\* What POST stores.
LEMMA CreatedRowsAreSettled ==
    ASSUME NEW input \in [Fields -> Asked], Validate(input), Fits(WithDefaults(input))
    PROVE  /\ WithDefaults(input) \in [Fields -> Int]
           /\ Settled(WithDefaults(input))
<1>1. ASSUME NEW f \in Fields
      PROVE  WithDefaults(input)[f] \in Int /\ Accepted(f, WithDefaults(input)[f])
  <2>1. CASE input[f] = 0
    BY <2>1, DefaultsAreSettled DEF WithDefaults
  <2>2. CASE input[f] # 0
    BY <2>2, SettingsAssumption DEF WithDefaults, Validate, SettingsAssumption
  <2> QED BY <2>1, <2>2
<1>2. WithDefaults(input) = [f \in Fields |-> WithDefaults(input)[f]]
  BY DEF WithDefaults
<1> QED
  BY <1>1, <1>2 DEF Settled, Fits

\* What PUT stores.
LEMMA MergedRowsAreSettled ==
    ASSUME NEW seen \in [Fields -> Int], NEW input \in Inputs,
           Settled(seen), Acceptable(input), Fits(Merged(input, seen))
    PROVE  /\ Merged(input, seen) \in [Fields -> Int]
           /\ Settled(Merged(input, seen))
<1>1. ASSUME NEW f \in Fields
      PROVE  Merged(input, seen)[f] \in Int /\ Accepted(f, Merged(input, seen)[f])
  <2>1. CASE f \in DOMAIN input
    <3>1. PICK named \in SUBSET Fields : input \in [named -> Asked]
      BY DEF Inputs
    <3>2. input[f] \in Int
      BY <2>1, <3>1, SettingsAssumption DEF SettingsAssumption
    <3> QED BY <2>1, <3>2 DEF Merged, Acceptable
  <2>2. CASE f \notin DOMAIN input
    BY <2>2 DEF Merged, Settled
  <2> QED BY <2>1, <2>2
<1>2. Merged(input, seen) = [f \in Fields |-> Merged(input, seen)[f]]
  BY DEF Merged
<1> QED
  BY <1>1, <1>2 DEF Settled, Fits

LEMMA SettingsStart == SettingsInit => SettingsInv
  BY DEF SettingsInit, SettingsInv, SettingsTypeOK, SettingsAreAccepted, Registered

LEMMA SettingsStep == SettingsInv /\ SettingsNext => SettingsInv'
<1> SUFFICES ASSUME SettingsInv, SettingsNext PROVE SettingsInv'
  OBVIOUS
<1> USE DEF SettingsInv, SettingsTypeOK, SettingsAreAccepted
<1>1. ASSUME NEW t \in Tenants, CreateTenant(t) PROVE SettingsInv'
  <2>1. PICK input \in [Fields -> Asked] :
           /\ Validate(input)
           /\ Fits(WithDefaults(input))
           /\ settings' = [settings EXCEPT ![t] = WithDefaults(input)]
    BY <1>1 DEF CreateTenant
  <2>2. /\ WithDefaults(input) \in [Fields -> Int]
        /\ Settled(WithDefaults(input))
        /\ WithDefaults(input) # NoTenant
    BY <2>1, CreatedRowsAreSettled, RowsAreNotMissing
  <2>3. update' = update
    BY <1>1 DEF CreateTenant
  <2>4. \A s \in Tenants : settings'[s] = IF s = t THEN WithDefaults(input) ELSE settings[s]
    BY <2>1
  <2>5. SettingsTypeOK'
    BY <2>1, <2>2, <2>3
  <2>6. SettingsAreAccepted'
    BY <2>2, <2>4 DEF Registered
  <2>7. ASSUME NEW u \in Updates, update[u] # NoUpdate
        PROVE  Registered(update[u].tenant)'
    <3>1. update[u].tenant \in Tenants
      BY <2>7 DEF Held
    <3> QED BY <2>2, <2>3, <2>4, <2>7, <3>1 DEF Registered
  <2> QED BY <2>3, <2>5, <2>6, <2>7
<1>2. ASSUME NEW u \in Updates, NEW t \in Tenants, BeginUpdate(u, t) PROVE SettingsInv'
  <2>1. PICK input \in Inputs :
           /\ Acceptable(input)
           /\ update' = [update EXCEPT ![u] = [stage |-> "read", tenant |-> t,
                                               seen |-> settings[t], input |-> input]]
    BY <1>2 DEF BeginUpdate
  <2>2. settings' = settings /\ settings[t] \in [Fields -> Int] /\ Settled(settings[t])
    BY <1>2 DEF BeginUpdate, Registered
  <2>3. SettingsTypeOK'
    BY <2>1, <2>2 DEF Held
  <2>4. ASSUME NEW v \in Updates, update'[v] # NoUpdate
        PROVE  /\ Registered(update'[v].tenant)
               /\ Settled(update'[v].seen)
               /\ Acceptable(update'[v].input)
    <3>1. CASE v = u  BY <1>2, <2>1, <2>2, <3>1 DEF BeginUpdate
    <3>2. CASE v # u  BY <2>1, <2>4, <3>2
    <3> QED BY <3>1, <3>2
  <2> QED BY <2>2, <2>3, <2>4 DEF Registered
<1>3. ASSUME NEW u \in Updates, FinishUpdate(u) PROVE SettingsInv'
  <2> DEFINE t == update[u].tenant
             row == Merged(update[u].input, update[u].seen)
  <2>1. /\ t \in Tenants
        /\ update[u].seen \in [Fields -> Int] /\ update[u].input \in Inputs
        /\ Settled(update[u].seen) /\ Acceptable(update[u].input)
    BY <1>3 DEF FinishUpdate, Held
  <2>2. /\ row \in [Fields -> Int] /\ Settled(row) /\ row # NoTenant
        /\ settings' = [settings EXCEPT ![t] = row]
        /\ update' = [update EXCEPT ![u] = NoUpdate]
    BY <1>3, <2>1, MergedRowsAreSettled, RowsAreNotMissing DEF FinishUpdate
  <2> HIDE DEF row
  <2>3. \A s \in Tenants : settings'[s] = IF s = t THEN row ELSE settings[s]
    BY <2>1, <2>2
  <2>4. SettingsTypeOK'
    BY <2>1, <2>2
  <2>5. SettingsAreAccepted'
    BY <2>2, <2>3 DEF Registered
  <2>6. ASSUME NEW v \in Updates, update'[v] # NoUpdate
        PROVE  /\ Registered(update[v].tenant)'
               /\ update'[v] = update[v] /\ update[v] # NoUpdate
    <3>1. v # u /\ update'[v] = update[v]
      BY <2>2, <2>6
    <3>2. update[v].tenant \in Tenants /\ Registered(update[v].tenant)
      BY <2>6, <3>1 DEF Held
    <3> QED BY <2>2, <2>3, <2>6, <3>1, <3>2 DEF Registered
  <2> QED BY <2>4, <2>5, <2>6
<1>4. ASSUME NEW u \in Updates, AbandonUpdate(u) PROVE SettingsInv'
  BY <1>4 DEF AbandonUpdate, Registered
<1> QED
  BY <1>1, <1>2, <1>3, <1>4 DEF SettingsNext

(***************************************************************************)
(* Backoff.                                                                *)
(***************************************************************************)

\* A number that fits is what it is.
LEMMA NoWrap == \A n \in 0..MaxInt64 : Wrap(n) = n
  BY BackoffAssumption DEF BackoffAssumption, Wrap

\* A base the dispatcher can come by gives a positive delay that may be doubled.
LEMMA FirstDelayFits ==
    ASSUME NEW base \in Int, base >= MinBase, base <= MaxColumn
    PROVE  /\ base * Millisecond \in Int
           /\ base * Millisecond > 0
           /\ base * Millisecond <= MaxColumn * Millisecond
           /\ base * Millisecond <= MaxInt64
           /\ MaxColumn * Millisecond \in Nat
<1>1. base \in Nat \ {0} /\ MaxColumn \in Nat /\ Millisecond \in Nat \ {0}
  BY SettingsAssumption, BackoffAssumption DEF SettingsAssumption, BackoffAssumption
<1>2. /\ base * Millisecond \in Nat \ {0}
      /\ MaxColumn * Millisecond \in Nat
      /\ base * Millisecond <= MaxColumn * Millisecond
  BY <1>1
<1>3. 2 * (MaxColumn * Millisecond) <= MaxInt64 /\ MaxInt64 \in Nat
  BY BackoffAssumption DEF BackoffAssumption
<1> QED
  BY <1>2, <1>3

LEMMA BackoffStart == BackoffInit => BackoffInv
  BY SettingsStart DEF BackoffInit, BackoffInv, BackoffTypeOK, DelayIsSound,
     BackoffIsWithinLimits, NeverPanics, Waiting, Panic

\* Where the dispatchers stand is nobody's business but their own.
LEMMA SettingsLeaveRetries ==
    ASSUME BackoffInv, SettingsInv', retry' = retry
    PROVE  BackoffInv'
  BY DEF BackoffInv, BackoffTypeOK, DelayIsSound, BackoffIsWithinLimits, NeverPanics

\* What has to be shown of a dispatcher's step.
RetryIsSound(r) ==
    /\ r \in Looping \cup Drawn \cup {Waiting}
    /\ r.stage \in {"loop", "draw"} =>
         /\ r.delay > 0
         /\ r.i = 0 => r.delay <= MaxColumn * Millisecond
         /\ r.i > 0 => r.delay <= MaxDelay
         /\ r.stage = "draw" => r.i > 0
         /\ r.i <= r.attempt
         /\ r.base > 0
         /\ r.delay <= Ceiling(r.base, r.i)
    /\ r.stage = "drawn" => /\ r.backoff >= 0
                            /\ r.backoff < MaxDelay
                            /\ r.backoff < Ceiling(r.base, r.attempt)

LEMMA NobodyPanics == \A r \in Looping \cup Drawn \cup {Waiting} : r # Panic
  BY DEF Looping, Drawn, Waiting, Panic

LEMMA RetriesAreSound ==
    BackoffInv <=> SettingsInv /\ retry \in [Workers -> Looping \cup Drawn \cup {Waiting}]
                               /\ \A w \in Workers : RetryIsSound(retry[w])
<1>1. ASSUME BackoffInv
      PROVE  retry \in [Workers -> Looping \cup Drawn \cup {Waiting}]
  BY <1>1 DEF BackoffInv, BackoffTypeOK, NeverPanics
<1> QED
  BY <1>1, NobodyPanics DEF BackoffInv, BackoffTypeOK, DelayIsSound, BackoffIsWithinLimits, NeverPanics,
     RetryIsSound

LEMMA OneDispatcherMoves ==
    ASSUME BackoffInv, UNCHANGED settingsVars, NEW w \in Workers, NEW r, RetryIsSound(r),
           retry' = [retry EXCEPT ![w] = r]
    PROVE  BackoffInv'
<1>1. SettingsInv'
  BY DEF BackoffInv, BackoffTypeOK, SettingsInv, SettingsTypeOK, SettingsAreAccepted, Registered,
     settingsVars
<1>2. /\ retry \in [Workers -> Looping \cup Drawn \cup {Waiting}]
      /\ \A v \in Workers : RetryIsSound(retry[v])
  BY RetriesAreSound
<1>3. /\ retry' \in [Workers -> Looping \cup Drawn \cup {Waiting}]
      /\ \A v \in Workers : retry'[v] = IF v = w THEN r ELSE retry[v]
  BY <1>2 DEF RetryIsSound
<1>4. \A v \in Workers : RetryIsSound(retry'[v])
  BY <1>2, <1>3
<1>5. \A v \in Workers : retry'[v] # Panic
  BY <1>3, NobodyPanics
<1> QED
  BY <1>1, <1>3, <1>4, <1>5 DEF BackoffInv, BackoffTypeOK, DelayIsSound, BackoffIsWithinLimits,
     NeverPanics, RetryIsSound

LEMMA WorkerStep ==
    ASSUME BackoffInv, NEW w \in Workers,
           \/ \E t \in Tenants, attempt \in 1..MaxAttempts : Fail(w, t, attempt)
           \/ Double(w) \/ Leave(w) \/ Draw(w) \/ Schedule(w)
    PROVE  BackoffInv'
<1> DEFINE r == retry[w]
<1>0. /\ r \in Looping \cup Drawn \cup {Waiting} /\ RetryIsSound(r)
      /\ {MaxDelay, MaxInt64, MaxAttempts, Millisecond} \subseteq Nat \ {0}
      /\ 2 * MaxDelay <= MaxInt64 /\ 2 * (MaxColumn * Millisecond) <= MaxInt64
      /\ MaxColumn * Millisecond \in Nat
  BY RetriesAreSound, BackoffAssumption, SettingsAssumption DEF BackoffAssumption, SettingsAssumption
<1>1. ASSUME NEW t \in Tenants, NEW attempt \in 1..MaxAttempts, Fail(w, t, attempt)
      PROVE  BackoffInv'
  <2>1. PICK base \in {settings[t]["retry_base"], DefaultBase} :
           retry' = [retry EXCEPT ![w] = [stage |-> "loop", attempt |-> attempt, base |-> base,
                                          i |-> 0, delay |-> Wrap(base * Millisecond)]]
    BY <1>1 DEF Fail
  <2>2. base \in Int /\ base >= MinBase /\ base <= MaxColumn
    <3>1. "retry_base" \in Fields
      BY SettingsAssumption DEF SettingsAssumption
    <3>2. settings[t] \in [Fields -> Int] /\ Settled(settings[t])
      BY <1>1 DEF Fail, Registered, BackoffInv, BackoffTypeOK, SettingsInv, SettingsTypeOK,
         SettingsAreAccepted
    <3>3. CASE base = settings[t]["retry_base"]
      BY <3>1, <3>2, <3>3 DEF Settled, Accepted
    <3>4. CASE base = DefaultBase
      BY <3>4, SettingsAssumption DEF SettingsAssumption
    <3> QED BY <2>1, <3>3, <3>4
  <2>3. Wrap(base * Millisecond) = base * Millisecond
    BY <1>0, <2>2, FirstDelayFits, NoWrap
  <2>4. RetryIsSound([stage |-> "loop", attempt |-> attempt, base |-> base,
                      i |-> 0, delay |-> base * Millisecond])
    <3>1. base > 0
      BY <2>2, SettingsAssumption
    <3>2. Ceiling(base, 0) = base * Millisecond
      BY <2>2, <3>1, CeilingDoubles
    <3>3. base * Millisecond <= Ceiling(base, 0)
      BY <2>2, <3>2, FirstDelayFits
    <3> QED BY <1>0, <2>2, <3>1, <3>3, FirstDelayFits DEF RetryIsSound, Looping
  <2> QED BY <1>1, <2>1, <2>3, <2>4, OneDispatcherMoves DEF Fail
<1>2. CASE Double(w)
  <2> DEFINE delay == Wrap(r.delay * 2)
  <2>1. r \in Looping /\ r.stage = "loop" /\ r.i < r.attempt
    BY <1>0, <1>2 DEF Double, Looping, Drawn, Waiting
  <2>2. r.delay \in Int /\ r.delay > 0 /\ r.delay * 2 <= MaxInt64
    BY <1>0, <2>1 DEF RetryIsSound, Looping
  <2>3. delay = r.delay * 2
    BY <1>0, <2>2, NoWrap
  <2>6. r.base \in Int /\ r.base > 0 /\ r.i \in Nat /\ r.delay <= Ceiling(r.base, r.i)
    BY <1>0, <2>1 DEF RetryIsSound, Looping
  <2>7. delay <= Ceiling(r.base, r.i + 1)
    <3>1. Ceiling(r.base, r.i) \in Nat /\ Ceiling(r.base, r.i + 1) = 2 * Ceiling(r.base, r.i)
      BY <2>6, CeilingDoubles
    <3> QED BY <2>2, <2>3, <2>6, <3>1
  <2>8. Ceiling(r.base, r.i + 1) \in Nat
    <3>1. r.i + 1 \in Nat
      BY <2>6
    <3>. QED  BY <2>6, <3>1, CeilingIsNumber
  <2> HIDE DEF delay
  <2>4. CASE delay > MaxDelay
    <3>1. RetryIsSound(Iterated(r, "draw", MaxDelay))
      <4>1. MaxDelay <= Ceiling(r.base, r.i + 1)
        BY <1>0, <2>2, <2>3, <2>4, <2>7, <2>8
      <4> QED BY <1>0, <2>1, <2>6, <4>1 DEF RetryIsSound, Looping, Iterated
    <3>2. retry' = [retry EXCEPT ![w] = Iterated(r, "draw", MaxDelay)] /\ UNCHANGED settingsVars
      BY <1>2, <2>4 DEF Double, delay
    <3> QED BY <3>1, <3>2, OneDispatcherMoves
  <2>5. CASE ~(delay > MaxDelay)
    <3>1. RetryIsSound(Iterated(r, "loop", delay))
      BY <1>0, <2>1, <2>2, <2>3, <2>5, <2>6, <2>7 DEF RetryIsSound, Looping, Iterated
    <3>2. retry' = [retry EXCEPT ![w] = Iterated(r, "loop", delay)] /\ UNCHANGED settingsVars
      BY <1>2, <2>5 DEF Double, delay
    <3> QED BY <3>1, <3>2, OneDispatcherMoves
  <2> QED BY <2>4, <2>5
<1>3. CASE Leave(w)
  <2>1. r \in Looping /\ r.stage = "loop" /\ r.i >= r.attempt
    BY <1>0, <1>3 DEF Leave, Looping, Drawn, Waiting
  <2>2. RetryIsSound([r EXCEPT !.stage = "draw"])
    BY <1>0, <2>1 DEF RetryIsSound, Looping
  <2> QED BY <1>3, <2>2, OneDispatcherMoves DEF Leave
<1>4. CASE Draw(w)
  <2>1. r \in Looping /\ r.stage = "draw" /\ r.delay > 0 /\ r.delay <= MaxDelay
    BY <1>0, <1>4 DEF Draw, RetryIsSound, Looping, Drawn, Waiting
  <2>2. PICK jitter \in 0..r.delay - 1 :
           retry' = [retry EXCEPT ![w] = [stage |-> "drawn", attempt |-> r.attempt,
                                          base |-> r.base, backoff |-> jitter]]
    BY <1>4, <2>1 DEF Draw, Looping
  <2>3. RetryIsSound([stage |-> "drawn", attempt |-> r.attempt, base |-> r.base, backoff |-> jitter])
    <3>1. /\ r.base \in Int /\ r.base > 0 /\ r.i \in Nat /\ r.attempt \in Nat /\ r.i <= r.attempt
          /\ r.delay \in Int /\ r.delay <= Ceiling(r.base, r.i)
      BY <1>0, <2>1 DEF RetryIsSound, Looping
    <3>2. Ceiling(r.base, r.i) <= Ceiling(r.base, r.attempt)
      BY <3>1, CeilingDoubles
    <3>3. Ceiling(r.base, r.i) \in Nat /\ Ceiling(r.base, r.attempt) \in Nat
      BY <3>1, CeilingDoubles
    <3>4. jitter < Ceiling(r.base, r.attempt)
      BY <2>1, <3>1, <3>2, <3>3
    <3> QED BY <1>0, <2>1, <3>4 DEF RetryIsSound, Looping, Drawn
  <2> QED BY <1>4, <2>2, <2>3, OneDispatcherMoves DEF Draw
<1>5. CASE Schedule(w)
  <2>1. RetryIsSound(Waiting)
    BY DEF RetryIsSound, Waiting
  <2> QED BY <1>5, <2>1, OneDispatcherMoves DEF Schedule
<1> QED
  BY <1>1, <1>2, <1>3, <1>4, <1>5

LEMMA BackoffStep == BackoffInv /\ [BackoffNext]_backoffVars => BackoffInv'
<1> SUFFICES ASSUME BackoffInv, [BackoffNext]_backoffVars PROVE BackoffInv'
  OBVIOUS
<1>1. CASE SettingsNext /\ UNCHANGED retry
  BY <1>1, SettingsStep, SettingsLeaveRetries DEF BackoffInv, BackoffTypeOK
<1>2. ASSUME NEW w \in Workers,
             \/ \E t \in Tenants, attempt \in 1..MaxAttempts : Fail(w, t, attempt)
             \/ Double(w) \/ Leave(w) \/ Draw(w) \/ Schedule(w)
      PROVE  BackoffInv'
  BY <1>2, WorkerStep
<1>3. CASE UNCHANGED backoffVars
  BY <1>3 DEF backoffVars, BackoffInv, BackoffTypeOK, DelayIsSound, BackoffIsWithinLimits, NeverPanics,
     SettingsInv, SettingsTypeOK, SettingsAreAccepted, Registered
<1> QED
  BY <1>1, <1>2, <1>3 DEF BackoffNext

\* The invariant holds of every run.
THEOREM BackoffInvariant == BackoffSpec => []BackoffInv
  BY BackoffStart, BackoffStep, PTL DEF BackoffSpec

\* Whatever tenants store and however often a delivery fails, CalculateBackoff hands
\* Int63n a positive number.
THEOREM NobodyEverPanics == BackoffSpec => []NeverPanics
<1>1. BackoffInv => NeverPanics
  BY DEF BackoffInv
<1> QED
  BY <1>1, BackoffInvariant, PTL

\* No backoff reaches the hour or the base doubled once per attempt.
THEOREM BackoffStaysWithinLimits == BackoffSpec => []BackoffIsWithinLimits
<1>1. BackoffInv => BackoffIsWithinLimits
  BY DEF BackoffInv
<1> QED
  BY <1>1, BackoffInvariant, PTL

\* Overlapping requests leave accepted settings behind.
THEOREM SettingsStayAccepted == BackoffSpec => []SettingsAreAccepted
<1>1. BackoffInv => SettingsAreAccepted
  BY DEF BackoffInv, BackoffTypeOK, SettingsInv
<1> QED
  BY <1>1, BackoffInvariant, PTL
==============================================================================
