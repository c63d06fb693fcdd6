--------------------------- MODULE EndpointRegistry ---------------------------
(***************************************************************************)
(* Endpoint management: POST, PUT and DELETE /endpoints as EndpointService *)
(* (internal/service/endpoint.go) serves them on any number of API         *)
(* replicas, and POST /tenants.  Update and Delete read the row, check its *)
(* tenant on the copy they got, and then write by id alone, in a second    *)
(* statement and outside any transaction.                                  *)
(*                                                                         *)
(* The columns an update may name (url, description, event_types, active)  *)
(* are Fields, their contents Values.  A request that ends with an error   *)
(* before its write (401, 403, 404, 400) changes nothing and is left out.  *)
(* Tenants are never removed, so the tenant Auth has found stays good.     *)
(***************************************************************************)

CONSTANTS
    Tenants,    \* ids of the tenants that may register
    Ids,        \* the uuids Create may draw, each of them once
    Fields,     \* the columns an update may name
    Values,     \* what a column may hold
    Requests    \* the PUT and DELETE requests served at the same time

VARIABLES
    tenants,    \* the tenants table
    endpoints,  \* the endpoints table
    call        \* what a request holds between its SELECT and its write

vars == <<tenants, endpoints, call>>

\* What an id stands for: nothing yet, a row, or a row that was deleted.
Unborn == [kind |-> "unborn"]
Gone   == [kind |-> "gone"]
Rows   == [kind : {"row"}, tenant : Tenants, fields : [Fields -> Values]]

Exists(p) == endpoints[p].kind = "row"

\* domain.UpdateEndpointInput: the fields a request names, and their new contents.
Inputs == UNION {[named -> Values] : named \in SUBSET Fields}

\* A request before its SELECT, or with the tenant it acts for, the row's id, the
\* fields to change and the fields it has read.
Idle  == [op |-> "idle"]
Calls == [op : {"update", "delete"}, tenant : Tenants, id : Ids,
          input : Inputs, seen : [Fields -> Values]]

TypeOK ==
    /\ tenants \subseteq Tenants
    /\ endpoints \in [Ids -> Rows \cup {Unborn, Gone}]
    /\ call \in [Requests -> Calls \cup {Idle}]

Init ==
    /\ tenants = {}
    /\ endpoints = [p \in Ids |-> Unborn]
    /\ call = [r \in Requests |-> Idle]

\* TenantService.Create.
CreateTenant(t) ==
    /\ t \notin tenants
    /\ tenants' = tenants \cup {t}
    /\ UNCHANGED <<endpoints, call>>

\* EndpointService.Create: one INSERT under a fresh uuid.
CreateEndpoint(t, p) ==
    /\ t \in tenants
    /\ endpoints[p] = Unborn
    /\ \E fields \in [Fields -> Values] :
          endpoints' = [endpoints EXCEPT ![p] =
                           [kind |-> "row", tenant |-> t, fields |-> fields]]
    /\ UNCHANGED <<tenants, call>>

\* Mutant of ReadAndCheck: the tenant of the row is not compared.
ReadUnchecked(r, t, p, op, input) ==
    /\ call[r] = Idle
    /\ t \in tenants
    /\ Exists(p)
    /\ call' = [call EXCEPT ![r] = [op |-> op, tenant |-> t, id |-> p, input |-> input,
                                    seen |-> endpoints[p].fields]]
    /\ UNCHANGED <<tenants, endpoints>>

\* The first half of Update and Delete: repo.GetByID and the check of the tenant.
ReadAndCheck(r, t, p, op, input) ==
    /\ call[r] = Idle
    /\ t \in tenants
    /\ Exists(p)
    /\ endpoints[p].tenant = t
    /\ call' = [call EXCEPT ![r] = [op |-> op, tenant |-> t, id |-> p, input |-> input,
                                    seen |-> endpoints[p].fields]]
    /\ UNCHANGED <<tenants, endpoints>>

BeginUpdate(r, t, p) == \E input \in Inputs : ReadAndCheck(r, t, p, "update", input)
BeginDelete(r, t, p) == ReadAndCheck(r, t, p, "delete", [f \in {} |-> f])

\* The row with the fields an input names replaced, and the others as they were read.
Merged(input, seen) == [f \in Fields |-> IF f \in DOMAIN input THEN input[f] ELSE seen[f]]

\* Mutant of FinishUpdate: an upsert.
FinishBySave(r) ==
    /\ call[r].op = "update"
    /\ endpoints' = [endpoints EXCEPT ![call[r].id] =
                        [kind |-> "row", tenant |-> call[r].tenant,
                         fields |-> Merged(call[r].input, call[r].seen)]]
    /\ call' = [call EXCEPT ![r] = Idle]
    /\ UNCHANGED tenants

\* The second half of Update: UPDATE endpoints SET every field WHERE id, or ErrNotFound.
FinishUpdate(r) ==
    /\ call[r].op = "update"
    /\ endpoints' = IF Exists(call[r].id)
                      THEN [endpoints EXCEPT ![call[r].id].fields =
                                Merged(call[r].input, call[r].seen)]
                      ELSE endpoints
    /\ call' = [call EXCEPT ![r] = Idle]
    /\ UNCHANGED tenants

\* The second half of Delete: DELETE FROM endpoints WHERE id, or ErrNotFound.
FinishDelete(r) ==
    /\ call[r].op = "delete"
    /\ endpoints' = IF Exists(call[r].id)
                      THEN [endpoints EXCEPT ![call[r].id] = Gone]
                      ELSE endpoints
    /\ call' = [call EXCEPT ![r] = Idle]
    /\ UNCHANGED tenants

\* An invalid url, a failing statement, a client that hangs up, or a replica that dies.
Abandon(r) ==
    /\ call[r] # Idle
    /\ call' = [call EXCEPT ![r] = Idle]
    /\ UNCHANGED <<tenants, endpoints>>

Next ==
    \/ \E t \in Tenants : CreateTenant(t)
    \/ \E t \in Tenants, p \in Ids : CreateEndpoint(t, p)
    \/ \E r \in Requests :
          \/ \E t \in Tenants, p \in Ids : BeginUpdate(r, t, p) \/ BeginDelete(r, t, p)
          \/ FinishUpdate(r) \/ FinishDelete(r) \/ Abandon(r)

Spec == Init /\ [][Next]_vars

(***************************************************************************)
(* Properties.                                                             *)
(***************************************************************************)

\* A row is changed or deleted only by a request of the tenant it belongs to, although
\* the tenant is compared on a copy and the write goes by id alone: tenants of rows do
\* not change, and ids do not come back.
OnlyOwnersWrite ==
    [][\A p \in Ids : Exists(p) /\ endpoints'[p] # endpoints[p] =>
          \E r \in Requests : /\ call[r] # Idle /\ call'[r] = Idle
                              /\ call[r].id = p
                              /\ call[r].tenant = endpoints[p].tenant]_vars

\* A deleted endpoint stays deleted, whatever updates had read it before.
DeletedStaysDeleted == [][\A p \in Ids : endpoints[p] = Gone => endpoints'[p] = Gone]_vars

(***************************************************************************)
(* The inductive invariant behind OnlyOwnersWrite.                         *)
(***************************************************************************)

\* The check of the tenant outlives the moment it was made in.
CheckedCallsStayGood ==
    \A r \in Requests : call[r] # Idle =>
        LET p == call[r].id IN
          /\ endpoints[p] # Unborn
          /\ Exists(p) => endpoints[p].tenant = call[r].tenant

RegistryInv == TypeOK /\ CheckedCallsStayGood
==============================================================================
