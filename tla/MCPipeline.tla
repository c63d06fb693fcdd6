------------------------------ MODULE MCPipeline ------------------------------
(* Small instances of DeliveryPipeline for TLC; the .cfg files pick among them. *)
EXTENDS DeliveryPipeline, TLC

CONSTANTS e1, e2, p1, d1, d2, s1, s2

\* All events go to one endpoint.
ToP1 == [e \in Events |-> p1]

\* Dispatchers, scheduler replicas and the events of one endpoint are interchangeable.
Replicas ==
    Permutations(Dispatchers) \cup Permutations(Schedulers) \cup Permutations(Events)
==============================================================================
