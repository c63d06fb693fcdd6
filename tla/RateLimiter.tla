------------------------------ MODULE RateLimiter ------------------------------
(***************************************************************************)
(* The sliding-window rate limit of one tenant (RateLimiterRepo.Allow in   *)
(* internal/repository/redis/rate_limiter.go, called by the middleware     *)
(* RateLimit for every request behind the API key).  The Redis sorted set  *)
(* rl:<tenant> has a member per request let through, scored with the time  *)
(* the request read its clock.  Allow trims the set, counts it, and adds   *)
(* its member only if the count is below the limit: four commands in two   *)
(* pipelines, neither of them a transaction, so each command is a step and *)
(* those of other requests come in between.                                *)
(*                                                                         *)
(* The API replicas' clocks agree, and count in units of which the window  *)
(* has Window.  A member's uuid is the request that added it.              *)
(***************************************************************************)
EXTENDS Naturals, FiniteSets

CONSTANTS
    Requests,      \* the tenant's requests
    Limit,         \* tenants.rate_limit_per_minute
    Window,        \* the window of one minute
    Slack,         \* what the key's TTL has over it, 10 seconds
    MaxInFlight,   \* bound: requests inside Allow at a time
    MaxTime,       \* bound: the clock
    Faulty         \* may a command fail, and a pipeline be cut off half-way?

ASSUME LimiterAssumption ==
    /\ IsFiniteSet(Requests)
    /\ Limit \in Nat \ {0}
    /\ Window \in Nat \ {0}
    /\ Slack \in Nat
    /\ MaxInFlight \in Nat \ {0}
    /\ MaxTime \in Nat
    /\ Faulty \in BOOLEAN

VARIABLES
    clock,       \* the time
    stage,       \* the command a request sends next, or what Allow returned
    time,        \* the request's "now", its score
    members,     \* the members of rl:<tenant>
    expireAt     \* when that key expires, or 0 (no TTL)

vars == <<clock, stage, time, members, expireAt>>

Running  == {"trim", "count", "add", "expire"}
Stages   == {"new", "admitted", "refused", "failed"} \cup Running
InFlight == {r \in Requests : stage[r] \in Running}

TypeOK ==
    /\ clock \in Nat
    /\ stage \in [Requests -> Stages]
    /\ time \in [Requests -> Nat]
    /\ members \in SUBSET Requests
    /\ expireAt \in Nat

Init ==
    /\ clock = 0
    /\ stage = [r \in Requests |-> "new"]
    /\ time = [r \in Requests |-> 0]
    /\ members = {}
    /\ expireAt = 0

Goto(r, s) == stage' = [stage EXCEPT ![r] = s]

\* The key holds m from now on; an empty set is no key, and has no TTL.
Keep(m) ==
    /\ members' = m
    /\ expireAt' = IF m = {} THEN 0 ELSE expireAt

\* Allow is called and reads the clock.
Start(r) ==
    /\ stage[r] = "new"
    /\ Cardinality(InFlight) < MaxInFlight
    /\ Goto(r, "trim")
    /\ time' = [time EXCEPT ![r] = clock]
    /\ UNCHANGED <<clock, members, expireAt>>

\* Mutant of Trim: the window starts one unit too late.
TrimTooMuch(r) ==
    /\ stage[r] = "trim"
    /\ Keep({q \in members : time[q] + Window > time[r] + 1})
    /\ Goto(r, "count")
    /\ UNCHANGED <<clock, time>>

\* Mutant of Trim: members are never removed.
TrimNothing(r) ==
    /\ stage[r] = "trim"
    /\ Goto(r, "count")
    /\ UNCHANGED <<clock, time, members, expireAt>>

\* ZREMRANGEBYSCORE 0 (now - window).
Trim(r) ==
    /\ stage[r] = "trim"
    /\ \/ /\ Keep({q \in members : time[q] + Window > time[r]})
          /\ Goto(r, "count")
       \/ /\ Faulty
          /\ Goto(r, "failed")
          /\ UNCHANGED <<members, expireAt>>
    /\ UNCHANGED <<clock, time>>

\* Mutant of Count: the comparison is off by one.
CountUpToLimit(r) ==
    /\ stage[r] = "count"
    /\ \/ Cardinality(members) <= Limit /\ Goto(r, "add")
       \/ Cardinality(members) > Limit /\ Goto(r, "refused")
    /\ UNCHANGED <<clock, time, members, expireAt>>

\* ZCARD, compared with the limit.
Count(r) ==
    /\ stage[r] = "count"
    /\ \/ Cardinality(members) < Limit /\ Goto(r, "add")
       \/ Cardinality(members) >= Limit /\ Goto(r, "refused")
       \/ Faulty /\ Goto(r, "failed")
    /\ UNCHANGED <<clock, time, members, expireAt>>

\* ZADD now; the error of a command may come although Redis has carried it out.
Add(r) ==
    /\ stage[r] = "add"
    /\ \/ /\ Keep(members \cup {r})
          /\ Goto(r, "expire")
       \/ /\ Faulty
          /\ Goto(r, "failed")
          /\ UNCHANGED <<members, expireAt>>
    /\ UNCHANGED <<clock, time>>

\* EXPIRE (window + 10s), which does nothing to a key that is gone by now.
Expire(r) ==
    /\ stage[r] = "expire"
    /\ \/ /\ Goto(r, "admitted")
          /\ expireAt' = IF members = {} THEN 0 ELSE clock + Window + Slack
       \/ /\ Faulty
          /\ Goto(r, "failed")
          /\ UNCHANGED expireAt
    /\ UNCHANGED <<clock, time, members>>

\* Time passes, though not between the two commands of the second pipeline, which are
\* sent in one write; the key expires at its time.
Tick ==
    /\ clock < MaxTime
    /\ \A r \in Requests : stage[r] # "expire"
    /\ clock' = clock + 1
    /\ IF expireAt = clock + 1 THEN Keep({}) ELSE UNCHANGED <<members, expireAt>>
    /\ UNCHANGED <<stage, time>>

Allow(r) == Start(r) \/ Trim(r) \/ Count(r) \/ Add(r) \/ Expire(r)

Next == Tick \/ \E r \in Requests : Allow(r)

Spec == Init /\ [][Next]_vars

(***************************************************************************)
(* Properties.                                                             *)
(***************************************************************************)

\* No window has more admitted requests than the limit and the other requests that can
\* be inside Allow at the same time: count and add are not atomic, and that is all the
\* limit is exceeded by, whatever fails and however long a request takes.
InWindow(r) == time[r] + Window > clock
Admitted    == {r \in Requests : stage[r] = "admitted" /\ InWindow(r)}
AdmissionsAreBounded == Cardinality(Admitted) <= Limit - 1 + MaxInFlight

\* A request is refused only when the set holds as many requests of its window as the
\* limit allows, but for members that requests in flight added with an old time after
\* the set was trimmed: what has left the window, or should have expired, is never held
\* against a tenant.
RefusedOnlyAtLimit ==
    [][\A r \in Requests : stage[r] = "count" /\ stage'[r] = "refused" =>
          Cardinality({q \in Requests : /\ stage[q] \in {"expire", "admitted", "failed"}
                                        /\ time[q] + Window > time[r]})
              + (MaxInFlight - 1) >= Limit]_vars

(***************************************************************************)
(* The inductive invariant behind both.                                    *)
(***************************************************************************)

Adding == {r \in Requests : stage[r] = "add"}

\* Times have been, members went through ZADD, and requests in flight are bounded.
StagesAgree ==
    /\ \A r \in Requests : time[r] <= clock
    /\ \A r \in members : stage[r] \in {"expire", "admitted", "failed"}
    /\ Cardinality(InFlight) <= MaxInFlight

\* Those who are in the set and those who are past the count stay bounded together.
SetIsBounded == Cardinality(members \cup Adding) <= Limit - 1 + MaxInFlight

\* Who was admitted, or is about to be, is in the set as long as it is in the window, and
\* the key lives as long as that.
AdmittedAreMembers ==
    \A r \in Requests : InWindow(r) =>
        /\ stage[r] \in {"expire", "admitted"} => r \in members
        /\ stage[r] = "admitted" => expireAt = 0 \/ expireAt >= time[r] + Window

\* Requests that have left r's window, but hold a member or may still add one.
Late(r) ==
    {q \in Requests : /\ time[q] + Window <= time[r]
                      /\ q \in members \/ stage[q] \in {"trim", "count", "add"}}

\* Once the set was trimmed for r, only requests that were in flight then are late: the
\* members among them added themselves since.
LateWereInFlight ==
    \A r \in Requests : stage[r] = "count" => Cardinality(Late(r)) <= MaxInFlight - 1

LimiterInv ==
    TypeOK /\ StagesAgree /\ SetIsBounded /\ AdmittedAreMembers /\ LateWereInFlight
==============================================================================
