--------------------------- MODULE DeliveryContract ---------------------------
(***************************************************************************)
(* What the pipeline promises about the handling of events, with none of   *)
(* the mechanism: no topic, no lock, no rows.  A worker takes an event up, *)
(* makes at most one POST for it while it has it, may bury the event in    *)
(* the dead letter queue when that POST failed and enough of them had, and *)
(* lets go of it.  Nothing is said about who takes an event up or when.    *)
(*                                                                         *)
(* DeliveryPipeline implements this module under the mapping stated there. *)
(***************************************************************************)
EXTENDS Naturals

CONSTANTS
    Events,
    Workers,
    MaxAttempts,   \* failed POSTs it takes to give an event up
    Exclusive      \* is an event handled by one worker at a time?

VARIABLES
    workers,       \* who has each event
    last,          \* what the POST of a worker came to, since it took its event up
    wins,          \* POSTs of an event that were acknowledged
    strikes,       \* POSTs of an event that failed
    buried         \* the events in the dead letter queue for failing

vars == <<workers, last, wins, strikes, buried>>

Init ==
    /\ workers = [e \in Events |-> {}]
    /\ last = [w \in Workers |-> "none"]
    /\ wins = [e \in Events |-> 0]
    /\ strikes = [e \in Events |-> 0]
    /\ buried = {}

Begin(w, e) ==
    /\ \A f \in Events : w \notin workers[f]
    /\ Exclusive => workers[e] = {}
    /\ workers' = [workers EXCEPT ![e] = @ \cup {w}]
    /\ UNCHANGED <<last, wins, strikes, buried>>

Post(w, e) ==
    /\ w \in workers[e]
    /\ last[w] = "none"
    /\ \/ /\ last' = [last EXCEPT ![w] = "ok"]
          /\ wins' = [wins EXCEPT ![e] = @ + 1]
          /\ UNCHANGED strikes
       \/ /\ last' = [last EXCEPT ![w] = "failed"]
          /\ strikes' = [strikes EXCEPT ![e] = @ + 1]
          /\ UNCHANGED wins
    /\ UNCHANGED <<workers, buried>>

Bury(w, e) ==
    /\ w \in workers[e]
    /\ last[w] = "failed"
    /\ strikes[e] >= MaxAttempts
    /\ buried' = buried \cup {e}
    /\ UNCHANGED <<workers, last, wins, strikes>>

\* The worker is done with the event, or dies.
End(w, e) ==
    /\ w \in workers[e]
    /\ workers' = [workers EXCEPT ![e] = @ \ {w}]
    /\ last' = [last EXCEPT ![w] = "none"]
    /\ UNCHANGED <<wins, strikes, buried>>

\* Events are removed with everything there is about them.
Purge(removed) ==
    /\ buried' = buried \ removed
    /\ UNCHANGED <<workers, last, wins, strikes>>

Next ==
    \/ \E w \in Workers, e \in Events : Begin(w, e) \/ Post(w, e) \/ Bury(w, e) \/ End(w, e)
    \/ \E removed \in SUBSET Events : Purge(removed)

Spec == Init /\ [][Next]_vars
==============================================================================
