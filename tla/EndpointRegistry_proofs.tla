------------------------ MODULE EndpointRegistry_proofs ------------------------
(***************************************************************************)
(* For any number of tenants, endpoints and requests: RegistryInv is an    *)
(* inductive invariant of EndpointRegistry, and with it only owners write. *)
(***************************************************************************)
EXTENDS EndpointRegistry, TLAPS

\* The kinds of an id are told apart by their tag.
LEMMA KindsDiffer ==
    /\ Unborn.kind = "unborn" /\ Gone.kind = "gone" /\ Unborn # Gone
    /\ \A row \in Rows : row.kind = "row" /\ row # Unborn /\ row # Gone
    /\ \A c \in Calls : c # Idle /\ c.op \in {"update", "delete"}
                                 /\ c.tenant \in Tenants /\ c.id \in Ids
    /\ Idle.op = "idle"
<1>1. \A row \in Rows : row.kind = "row"  BY DEF Rows
<1>2. \A c \in Calls : c.op \in {"update", "delete"} /\ c.tenant \in Tenants /\ c.id \in Ids
  BY DEF Calls
<1>3. Unborn.kind = "unborn" /\ Gone.kind = "gone" /\ Idle.op = "idle"
  BY DEF Unborn, Gone, Idle
<1> QED  BY <1>1, <1>2, <1>3

\* Merging gives every field a value.
LEMMA MergedType ==
    ASSUME NEW input \in Inputs, NEW seen \in [Fields -> Values]
    PROVE  Merged(input, seen) \in [Fields -> Values]
  BY DEF Merged, Inputs

\* The empty input of a delete is an input.
LEMMA EmptyInput == [f \in {} |-> f] \in Inputs
<1>1. [f \in {} |-> f] \in [{} -> Values]  OBVIOUS
<1> QED  BY <1>1 DEF Inputs

\* No step brings an id back, changes whom a row belongs to, or removes a row that no
\* finishing request of its owner named.
WriteIsOwned(p) ==
    /\ endpoints[p] = Gone => endpoints'[p] = Gone
    /\ endpoints[p] # Unborn => endpoints'[p] # Unborn
    /\ Exists(p) /\ endpoints'[p].kind = "row" => endpoints'[p].tenant = endpoints[p].tenant
    /\ Exists(p) /\ endpoints'[p] # endpoints[p] =>
          \E r \in Requests : /\ call[r] # Idle /\ call'[r] = Idle
                              /\ call[r].id = p
                              /\ call[r].tenant = endpoints[p].tenant

\* What the steps do to one id.
LEMMA StepIsOwned ==
    ASSUME RegistryInv, Next, NEW p \in Ids
    PROVE  WriteIsOwned(p)
<1> USE KindsDiffer
<1>0. endpoints[p] \in Rows \cup {Unborn, Gone}  BY DEF RegistryInv, TypeOK
<1>1. CASE UNCHANGED endpoints
  BY <1>0, <1>1 DEF WriteIsOwned, Exists
<1>2. ASSUME NEW t \in Tenants, NEW q \in Ids, CreateEndpoint(t, q)
      PROVE  WriteIsOwned(p)
  <2>1. CASE p = q
    BY <1>0, <1>2, <2>1 DEF CreateEndpoint, WriteIsOwned, Exists, RegistryInv, TypeOK, Gone, Unborn
  <2>2. CASE p # q
    BY <1>0, <1>2, <2>2 DEF CreateEndpoint, WriteIsOwned, Exists, RegistryInv, TypeOK
  <2> QED  BY <2>1, <2>2
<1>3. ASSUME NEW r \in Requests, FinishUpdate(r) \/ FinishDelete(r)
      PROVE  WriteIsOwned(p)
  <2>1. call[r] # Idle /\ call[r] \in Calls /\ call'[r] = Idle
    BY <1>3 DEF FinishUpdate, FinishDelete, RegistryInv, TypeOK
  <2>2. CASE p # call[r].id \/ ~Exists(p)
    <3>1. endpoints'[p] = endpoints[p]
      BY <1>3, <2>1, <2>2 DEF FinishUpdate, FinishDelete, RegistryInv, TypeOK
    <3> QED  BY <1>0, <3>1 DEF WriteIsOwned, Exists
  <2>3. CASE p = call[r].id /\ Exists(p)
    <3>1. call[r].tenant = endpoints[p].tenant
      BY <2>1, <2>3 DEF RegistryInv, CheckedCallsStayGood
    <3>2. endpoints[p] \in Rows  BY <1>0, <2>3 DEF Exists
    <3>3. endpoints'[p] = Gone \/ (endpoints'[p].kind = "row"
                                     /\ endpoints'[p].tenant = endpoints[p].tenant)
      BY <1>3, <2>1, <2>3, <3>2 DEF FinishUpdate, FinishDelete, RegistryInv, TypeOK, Rows
    <3> QED  BY <2>1, <2>3, <3>1, <3>2, <3>3 DEF WriteIsOwned, Exists
  <2> QED  BY <2>2, <2>3
<1> QED
  BY <1>1, <1>2, <1>3 DEF Next, CreateTenant, BeginUpdate, BeginDelete, ReadAndCheck, Abandon

\* The initial states satisfy the invariant.
LEMMA InitRegistry == Init => RegistryInv
<1> SUFFICES ASSUME Init PROVE RegistryInv  OBVIOUS
<1>1. TypeOK  BY DEF Init, TypeOK
<1>2. CheckedCallsStayGood  BY DEF Init, CheckedCallsStayGood
<1> QED  BY <1>1, <1>2 DEF RegistryInv

\* A request that passes ReadAndCheck holds a well-typed call on a row of its tenant.
LEMMA ReadAndCheckStep ==
    ASSUME RegistryInv, NEW r \in Requests, NEW t \in Tenants, NEW p \in Ids,
           NEW op \in {"update", "delete"}, NEW input \in Inputs,
           ReadAndCheck(r, t, p, op, input)
    PROVE  RegistryInv'
<1> USE KindsDiffer
<1> DEFINE c == [op |-> op, tenant |-> t, id |-> p, input |-> input,
                 seen |-> endpoints[p].fields]
<1>1. endpoints[p] \in Rows  BY DEF RegistryInv, TypeOK, ReadAndCheck, Exists
<1>2. endpoints[p].fields \in [Fields -> Values]  BY <1>1 DEF Rows
<1>3. c \in Calls  BY <1>2 DEF Calls
<1>4. call' = [call EXCEPT ![r] = c] /\ UNCHANGED <<tenants, endpoints>>
  BY DEF ReadAndCheck
<1>5. TypeOK'
  <2> HIDE DEF c
  <2> QED  BY <1>3, <1>4 DEF RegistryInv, TypeOK
<1>6. CheckedCallsStayGood'
  <2> SUFFICES ASSUME NEW q \in Requests, call'[q] # Idle
               PROVE  /\ endpoints[call'[q].id] # Unborn
                      /\ Exists(call'[q].id) => endpoints[call'[q].id].tenant = call'[q].tenant
    BY <1>4 DEF CheckedCallsStayGood, Exists
  <2>1. CASE q = r
    <3>1. call'[q] = c  BY <1>4, <2>1 DEF RegistryInv, TypeOK
    <3>2. call'[q].id = p /\ call'[q].tenant = t  BY <3>1
    <3>3. endpoints[p].tenant = t /\ endpoints[p] # Unborn  BY <1>1 DEF ReadAndCheck
    <3> QED  BY <3>2, <3>3
  <2>2. CASE q # r
    <3>1. call'[q] = call[q]  BY <1>4, <2>2 DEF RegistryInv, TypeOK
    <3> QED  BY <3>1 DEF RegistryInv, CheckedCallsStayGood
  <2> QED  BY <2>1, <2>2
<1> QED  BY <1>5, <1>6 DEF RegistryInv

\* A step after which a request holds what it held, or nothing, keeps the checked calls
\* good, because no id comes back or changes its tenant.
LEMMA OtherSteps ==
    ASSUME RegistryInv, TypeOK',
           \A p \in Ids : WriteIsOwned(p),
           \A r \in Requests : call'[r] \in {call[r], Idle}
    PROVE  RegistryInv'
<1> USE KindsDiffer
<1> SUFFICES ASSUME NEW r \in Requests, call'[r] # Idle
             PROVE  /\ endpoints'[call'[r].id] # Unborn
                    /\ endpoints'[call'[r].id].kind = "row" =>
                          endpoints'[call'[r].id].tenant = call'[r].tenant
  BY DEF RegistryInv, CheckedCallsStayGood, Exists
<1>1. call'[r] = call[r] /\ call[r] # Idle  OBVIOUS
<1>2. call[r] \in Calls /\ call[r].id \in Ids  BY <1>1 DEF RegistryInv, TypeOK
<1> DEFINE p == call[r].id
<1>3. /\ endpoints[p] # Unborn
      /\ Exists(p) => endpoints[p].tenant = call[r].tenant
  BY <1>1 DEF RegistryInv, CheckedCallsStayGood
<1>4. WriteIsOwned(p)  BY <1>2
<1>5. endpoints[p] = Gone \/ Exists(p)
  BY <1>2, <1>3 DEF RegistryInv, TypeOK, Exists
<1> QED  BY <1>1, <1>3, <1>4, <1>5 DEF WriteIsOwned

\* Every step keeps the invariant.
LEMMA NextRegistry == RegistryInv /\ [Next]_vars => RegistryInv'
<1> USE KindsDiffer
<1> SUFFICES ASSUME RegistryInv, [Next]_vars PROVE RegistryInv'  OBVIOUS
<1>1. CASE UNCHANGED vars
  BY <1>1 DEF vars, RegistryInv, TypeOK, CheckedCallsStayGood, Exists
<1>2. ASSUME Next PROVE \A p \in Ids : WriteIsOwned(p)  BY <1>2, StepIsOwned
<1>3. ASSUME NEW t \in Tenants, CreateTenant(t) PROVE RegistryInv'
  BY <1>3 DEF CreateTenant, RegistryInv, TypeOK, CheckedCallsStayGood, Exists
<1>4. ASSUME Next, NEW t \in Tenants, NEW p \in Ids, CreateEndpoint(t, p) PROVE RegistryInv'
  <2>1. PICK fields \in [Fields -> Values] :
          endpoints' = [endpoints EXCEPT ![p] = [kind |-> "row", tenant |-> t, fields |-> fields]]
    BY <1>4 DEF CreateEndpoint
  <2>2. [kind |-> "row", tenant |-> t, fields |-> fields] \in Rows  BY DEF Rows
  <2>3. TypeOK'  BY <1>4, <2>1, <2>2 DEF CreateEndpoint, RegistryInv, TypeOK
  <2> QED  BY <1>2, <1>4, <2>3, OtherSteps DEF CreateEndpoint
<1>5. ASSUME NEW r \in Requests, NEW t \in Tenants, NEW p \in Ids,
             BeginUpdate(r, t, p) \/ BeginDelete(r, t, p)
      PROVE  RegistryInv'
  BY <1>5, ReadAndCheckStep, EmptyInput DEF BeginUpdate, BeginDelete
<1>6. ASSUME Next, NEW r \in Requests, FinishUpdate(r) PROVE RegistryInv'
  <2>1. call[r] \in Calls  BY <1>6 DEF FinishUpdate, RegistryInv, TypeOK
  <2>2. Merged(call[r].input, call[r].seen) \in [Fields -> Values]
    BY <2>1, MergedType DEF Calls
  <2>3. ASSUME Exists(call[r].id)
        PROVE  [endpoints EXCEPT ![call[r].id].fields = Merged(call[r].input, call[r].seen)]
                 \in [Ids -> Rows \cup {Unborn, Gone}]
    <3>1. endpoints[call[r].id] \in Rows
      BY <2>1, <2>3 DEF RegistryInv, TypeOK, Exists
    <3> DEFINE m == Merged(call[r].input, call[r].seen)
    <3>2. [endpoints[call[r].id] EXCEPT !.fields = m] \in Rows
      <4> HIDE DEF m
      <4> QED  BY <2>2, <3>1 DEF Rows, m
    <3> QED  BY <2>1, <3>2 DEF RegistryInv, TypeOK
  <2>4. TypeOK'  BY <1>6, <2>3 DEF FinishUpdate, RegistryInv, TypeOK
  <2>5. \A q \in Requests : call'[q] \in {call[q], Idle}
    BY <1>6 DEF FinishUpdate, RegistryInv, TypeOK
  <2> QED  BY <1>2, <1>6, <2>4, <2>5, OtherSteps
<1>7. ASSUME Next, NEW r \in Requests, FinishDelete(r) PROVE RegistryInv'
  <2>1. TypeOK'  BY <1>7 DEF FinishDelete, RegistryInv, TypeOK
  <2>2. \A q \in Requests : call'[q] \in {call[q], Idle}
    BY <1>7 DEF FinishDelete, RegistryInv, TypeOK
  <2> QED  BY <1>2, <1>7, <2>1, <2>2, OtherSteps
<1>8. ASSUME Next, NEW r \in Requests, Abandon(r) PROVE RegistryInv'
  <2>1. TypeOK'  BY <1>8 DEF Abandon, RegistryInv, TypeOK
  <2>2. \A q \in Requests : call'[q] \in {call[q], Idle}
    BY <1>8 DEF Abandon, RegistryInv, TypeOK
  <2> QED  BY <1>2, <1>8, <2>1, <2>2, OtherSteps
<1> QED  BY <1>1, <1>3, <1>4, <1>5, <1>6, <1>7, <1>8 DEF Next

\* Tables and calls are well formed, and whoever is between its SELECT and its write
\* still acts for the tenant of the row: the check on the copy stays good.
THEOREM RegistryInvariant == Spec => []RegistryInv
<1> QED  BY InitRegistry, NextRegistry, PTL DEF Spec

\* Rows are changed and deleted by requests of their own tenant only.
THEOREM OnlyOwnersTheorem == Spec => OnlyOwnersWrite
<1>1. ASSUME RegistryInv, [Next]_vars
      PROVE  [\A p \in Ids : Exists(p) /\ endpoints'[p] # endpoints[p] =>
                \E r \in Requests : /\ call[r] # Idle /\ call'[r] = Idle
                                    /\ call[r].id = p
                                    /\ call[r].tenant = endpoints[p].tenant]_vars
  BY <1>1, StepIsOwned DEF WriteIsOwned
<1> QED  BY <1>1, RegistryInvariant, PTL DEF Spec, OnlyOwnersWrite

\* No update that had read a row before its deletion brings it back.
THEOREM DeletedStaysDeletedTheorem == Spec => DeletedStaysDeleted
<1>1. ASSUME RegistryInv, [Next]_vars
      PROVE  [\A p \in Ids : endpoints[p] = Gone => endpoints'[p] = Gone]_vars
  BY <1>1, StepIsOwned DEF WriteIsOwned
<1> QED  BY <1>1, RegistryInvariant, PTL DEF Spec, DeletedStaysDeleted
==============================================================================
