------------------------------- MODULE MCLimiter -------------------------------
(* Small instances of RateLimiter for TLC; the .cfg files pick among them. *)
EXTENDS RateLimiter, TLC

CONSTANTS r1, r2, r3, r4

\* Requests are interchangeable.
Permuted == Permutations(Requests)
==============================================================================
