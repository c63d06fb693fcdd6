-------------------------------- MODULE Intake --------------------------------
(***************************************************************************)
(* EventService.Create (internal/service/event.go), which POST /events     *)
(* calls: read the endpoint, INSERT the event, publish it, mark it queued. *)
(* Each of the four calls is a step, and the dispatchers may already be at *)
(* work on the event between the last two.                                 *)
(*                                                                         *)
(* A request for event e that fails validation for its input alone changes *)
(* nothing and is left out: requests are well formed, for an endpoint of   *)
(* the caller's tenant that subscribes to the event's type.                *)
(***************************************************************************)
EXTENDS EventTopic

VARIABLE intake   \* how far Create has come for each event

IntakeStages == {"new", "validated", "inserted", "published", "done"}

IntakeTypeOK == intake \in [Events -> IntakeStages]
IntakeInit   == intake = [e \in Events |-> "new"]

Stage(e, from, to) ==
    /\ intake[e] = from
    /\ intake' = [intake EXCEPT ![e] = to]

\* endpointRepo.GetByID finds an active endpoint.
AcceptRequest(e) ==
    /\ LogHasRoom
    /\ endpoint[EndpointOf[e]] = "active"
    /\ Stage(e, "new", "validated")
    /\ UNCHANGED <<storeVars, topicVars>>

\* It does not: ErrNotFound, "endpoint is inactive", or the query failed.
RejectRequest(e) ==
    /\ endpoint[EndpointOf[e]] # "active" \/ "postgres" \in Faults
    /\ Stage(e, "new", "done")
    /\ UNCHANGED <<storeVars, topicVars>>

\* eventRepo.Create, with status pending; on an error the request ends here, also when
\* the row is there and only PostgreSQL's answer got lost.
CreateEvent(e) ==
    /\ \/ InsertEvent(e) /\ Stage(e, "validated", "inserted")
       \/ "postgres" \in Faults /\ InsertEvent(e) /\ Stage(e, "validated", "done")
       \/ InsertEventFails(e) /\ Stage(e, "validated", "done")
    /\ UNCHANGED topicVars

\* publisher.PublishEvent; on an error the row stays as it is, and the client is
\* answered as if nothing had happened.
PublishCreated(e) ==
    /\ \/ Publish(e) /\ Stage(e, "inserted", "published")
       \/ PublishFails(e) /\ Stage(e, "inserted", "done")
    /\ UNCHANGED storeVars

\* eventRepo.UpdateStatus(queued), whatever has become of the event since.
MarkCreatedQueued(e) ==
    /\ UpdateStatus(e, "queued")
    /\ Stage(e, "published", "done")
    /\ UNCHANGED topicVars

\* The API process dies, or the request's context is cancelled: the steps that are
\* left never happen.
AbandonRequest(e) ==
    /\ intake[e] \in {"validated", "inserted", "published"}
    /\ intake' = [intake EXCEPT ![e] = "done"]
    /\ UNCHANGED <<storeVars, topicVars>>
==============================================================================
