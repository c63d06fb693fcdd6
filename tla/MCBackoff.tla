------------------------------ MODULE MCBackoff -------------------------------
(* A small instance of Backoff for TLC. *)
EXTENDS Backoff, TLC

CONSTANTS t1, u1, u2, w1

\* Updates are interchangeable.
Interchangeable == Permutations(Updates)
==============================================================================
