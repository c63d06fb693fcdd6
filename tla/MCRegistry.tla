------------------------------ MODULE MCRegistry ------------------------------
(* A small instance of EndpointRegistry for TLC. *)
EXTENDS EndpointRegistry, TLC

CONSTANTS t1, t2, p1, p2, url, active, v1, v2, r1, r2

\* Tenants, ids, fields, and requests are interchangeable.
Interchangeable ==
    Permutations(Tenants) \cup Permutations(Ids) \cup Permutations(Fields)
        \cup Permutations(Requests)
==============================================================================
