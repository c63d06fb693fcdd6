------------------------------- MODULE MCBreaker -------------------------------
(* Small instances of CircuitBreaker for TLC; the .cfg files pick among them. *)
EXTENDS CircuitBreaker, TLC

CONSTANTS w1, w2, w3

\* Dispatchers are interchangeable.
Replicas == Permutations(Workers)
==============================================================================
