------------------------------ MODULE RedisKeys ------------------------------
(***************************************************************************)
(* The two families of Redis keys the dispatchers share                    *)
(* (internal/repository/redis/lock.go and endpoint_cache.go):              *)
(*   lock:dispatch:<event>    SETNX with a TTL of 5 minutes;               *)
(*   cache:endpoint:<id>      the endpoint row as JSON, TTL 60 seconds.    *)
(*                                                                         *)
(* The value of a lock is a fresh uuid; since a dispatcher handles one     *)
(* message at a time, the dispatcher that set the key identifies it.  A    *)
(* cached row is what the dispatcher reads of it, the "active" flag.       *)
(***************************************************************************)
EXTENDS EventTopic

VARIABLES
    lock,     \* lock:dispatch:<event>: who set the key, or NoOne (no key)
    cached    \* cache:endpoint:<id>: "none" (no key), or the flag cached

redisVars == <<lock, cached>>

RedisTypeOK ==
    /\ lock \in [Events -> Dispatchers \cup {NoOne}]
    /\ cached \in [Endpoints -> {"none", "active", "inactive"}]

RedisInit ==
    /\ lock = [e \in Events |-> NoOne]
    /\ cached = [p \in Endpoints |-> "none"]

(***************************************************************************)
(* LockRepo.  Acquire is one command; Release is two, GET then DEL.        *)
(***************************************************************************)

\* Mutant of AcquireLock: SET instead of SETNX.
AcquireLockBySet(d, e) ==
    /\ lock' = [lock EXCEPT ![e] = d]
    /\ UNCHANGED cached

\* SETNX sets the key and Acquire returns its value.
AcquireLock(d, e) ==
    /\ lock[e] = NoOne
    /\ lock' = [lock EXCEPT ![e] = d]
    /\ UNCHANGED cached

\* Acquire returns false: the key exists, or the command reports an error, which
\* it may do after it has set the key.
AcquireRefused(d, e) ==
    /\ \/ /\ lock[e] # NoOne \/ "redis" \in Faults
          /\ UNCHANGED lock
       \/ /\ "redis" \in Faults
          /\ lock[e] = NoOne
          /\ lock' = [lock EXCEPT ![e] = d]
    /\ UNCHANGED cached

\* Release, DEL: deletes the key whoever holds it by now; its error is dropped.
DeleteLock(e) ==
    /\ \/ lock' = [lock EXCEPT ![e] = NoOne]
       \/ /\ "redis" \in Faults
          /\ UNCHANGED lock
    /\ UNCHANGED cached

\* The TTL of a lock runs out.
ExpireLock(e) ==
    /\ lock[e] # NoOne
    /\ lock' = [lock EXCEPT ![e] = NoOne]
    /\ UNCHANGED cached

(***************************************************************************)
(* EndpointCache.  Nothing in the repository calls Invalidate.             *)
(***************************************************************************)

\* EndpointCache.Set; its error is logged.
SetCache(p, flag) ==
    /\ \/ cached' = [cached EXCEPT ![p] = flag]
       \/ /\ "redis" \in Faults
          /\ UNCHANGED cached
    /\ UNCHANGED lock

\* The TTL of a cached endpoint runs out.
ExpireCache(p) ==
    /\ cached[p] # "none"
    /\ cached' = [cached EXCEPT ![p] = "none"]
    /\ UNCHANGED lock
==============================================================================
