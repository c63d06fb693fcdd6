----------------------------- MODULE EndpointAPI ------------------------------
(***************************************************************************)
(* The /endpoints routes: EndpointRegistry with what the clients see of    *)
(* it.  A request goes through Auth (middleware/auth.go), its handler      *)
(* (handler/endpoint.go) and the service, and is answered with the status  *)
(* the handler writes or MapError (response.go) makes of an error.         *)
(* Listing adds the paged list over the same rows.                         *)
(*                                                                         *)
(* A statement that reports an error may have been carried out all the     *)
(* same; its request is answered 500.  A row's created_at comes from the   *)
(* clock of the replica that creates it, so rows may be inserted in any    *)
(* order of their times.                                                   *)
(***************************************************************************)
EXTENDS EndpointRegistry, Naturals, Integers, FiniteSets

CONSTANTS
    Asked, DefaultLimit, MaxLimit,   \* see Listing
    MaxStamp                         \* bound: times a created_at may have

ASSUME APIAssumption ==
    /\ IsFiniteSet(Ids)
    /\ Asked \subseteq Int
    /\ MaxLimit \in Nat
    /\ DefaultLimit \in 1..MaxLimit
    /\ MaxStamp \in Nat

VARIABLES
    createdAt,   \* created_at of the rows, 0 before
    answer,      \* the last answer each client got, none while a request is served
    walk         \* see Listing

apiVars == <<vars, createdAt, answer, walk>>

Listed == [t \in Tenants |-> {p \in Ids : Exists(p) /\ endpoints[p].tenant = t}]

List == INSTANCE Listing WITH rows <- Listed

\* What the properties tell apart of the statuses: 200 and 201, 204 with its endpoint,
\* and the refusals (400, 401, 403, 404) and failures (500).
None    == [status |-> "none"]
Answers == [status : {"none", "ok", "error"}] \cup [status : {"deleted"}, id : Ids]

APITypeOK ==
    /\ TypeOK
    /\ createdAt \in [Ids -> 0..MaxStamp]
    /\ answer \in [Requests -> Answers]
    /\ List!WalkTypeOK

APIInit ==
    /\ Init
    /\ createdAt = [p \in Ids |-> 0]
    /\ answer = [r \in Requests |-> None]
    /\ walk = List!NoWalk

Ok(r)         == answer' = [answer EXCEPT ![r] = [status |-> "ok"]]
Error(r)      == answer' = [answer EXCEPT ![r] = [status |-> "error"]]
Deleted(r, p) == answer' = [answer EXCEPT ![r] = [status |-> "deleted", id |-> p]]

(***************************************************************************)
(* Requests that are over before a row is read.                            *)
(***************************************************************************)

\* Auth finds no key, an unknown one, or no answer to its lookup (401); or the body is
\* no JSON, or CreateEndpointInput.Validate or validateURL refuses it (400).
Refuse(r) ==
    /\ call[r] = Idle
    /\ Error(r)
    /\ UNCHANGED <<vars, createdAt>>

(***************************************************************************)
(* Create and Get.                                                         *)
(***************************************************************************)

\* POST /endpoints: the time is taken before the INSERT.
Create(r, t, p) ==
    /\ call[r] = Idle
    /\ CreateEndpoint(t, p)
    /\ \E stamp \in 1..MaxStamp : createdAt' = [createdAt EXCEPT ![p] = stamp]
    /\ Ok(r) \/ Error(r)

\* GET /endpoints/{id}: a row of another tenant is as good as none.
Get(r, t, p) ==
    /\ call[r] = Idle
    /\ t \in tenants
    /\ IF Exists(p) /\ endpoints[p].tenant = t THEN Ok(r) ELSE Error(r)
    /\ UNCHANGED <<vars, createdAt>>

(***************************************************************************)
(* Update and Delete.                                                      *)
(***************************************************************************)

\* The row is read and belongs to the tenant.
Begin(r, t, p) ==
    /\ BeginUpdate(r, t, p) \/ BeginDelete(r, t, p)
    /\ answer' = [answer EXCEPT ![r] = None]
    /\ UNCHANGED createdAt

\* There is none (404), or it is another tenant's (403).
RefuseAccess(r, t, p) ==
    /\ call[r] = Idle
    /\ t \in tenants
    /\ Exists(p) => endpoints[p].tenant # t
    /\ Error(r)
    /\ UNCHANGED <<vars, createdAt>>

\* The write is carried out: how many rows it has met decides between success and
\* ErrNotFound, unless its answer gets lost.
PutDone(r) ==
    /\ FinishUpdate(r)
    /\ (Exists(call[r].id) /\ Ok(r)) \/ Error(r)
    /\ UNCHANGED createdAt

\* Mutant of DeleteDone: RowsAffected is not looked at.
DeleteDoneBlindly(r) ==
    /\ FinishDelete(r)
    /\ Deleted(r, call[r].id) \/ Error(r)
    /\ UNCHANGED createdAt

DeleteDone(r) ==
    /\ FinishDelete(r)
    /\ (Exists(call[r].id) /\ Deleted(r, call[r].id)) \/ Error(r)
    /\ UNCHANGED createdAt

\* The new url is refused (400), or the write was not carried out (500).
NotDone(r) ==
    /\ Abandon(r)
    /\ Error(r)
    /\ UNCHANGED createdAt

Request(r) ==
    \/ Refuse(r)
    \/ \E t \in Tenants, p \in Ids :
          Create(r, t, p) \/ Get(r, t, p) \/ Begin(r, t, p) \/ RefuseAccess(r, t, p)
    \/ PutDone(r) \/ DeleteDone(r) \/ NotDone(r)

(***************************************************************************)
(* GET /endpoints.                                                         *)
(***************************************************************************)

ListStep ==
    /\ \/ \E t \in tenants : \E limit \in Asked : List!BeginWalk(t, limit)
       \/ List!SelectPage \/ List!CountRows \/ List!PageFails \/ List!EndWalk
    /\ UNCHANGED <<vars, createdAt, answer>>

Register(t) ==
    /\ CreateTenant(t)
    /\ UNCHANGED <<createdAt, answer, walk>>

APINext ==
    \/ \E t \in Tenants : Register(t)
    \/ \E r \in Requests : Request(r) /\ List!RowsChange
    \/ ListStep

APISpec == APIInit /\ [][APINext]_apiVars

(***************************************************************************)
(* Properties.                                                             *)
(***************************************************************************)

ToldDeleted(r, p) == answer[r] = [status |-> "deleted", id |-> p]

\* Of all the DELETEs of one endpoint, one at most is confirmed with 204, and then the
\* endpoint is gone for good: who deletes is decided by the rows the DELETE has met, not
\* by the row that was read before.
OneDeleteIsConfirmed ==
    \A p \in Ids : \A r \in Requests : ToldDeleted(r, p) =>
        /\ endpoints[p] = Gone
        /\ \A s \in Requests \ {r} : ~ToldDeleted(s, p)

\* See Listing.
WalkMissesNothing == List!WalkMissesNothing
WalkInv == List!WalkInv
==============================================================================
