------------------------------- MODULE MCSigning -------------------------------
(* A small instance of Signing for TLC. *)
EXTENDS Signing

CONSTANTS e1, e2, c1, c2
==============================================================================
