---------------------------- MODULE MCEndpointAPI -----------------------------
(* A small instance of EndpointAPI for TLC. *)
EXTENDS EndpointAPI, TLC

CONSTANTS t1, t2, p1, p2, p3, v1, r1, r2

\* Tenants, ids, contents, and requests are interchangeable.
Interchangeable ==
    Permutations(Tenants) \cup Permutations(Ids) \cup Permutations(Values)
        \cup Permutations(Requests)
==============================================================================
