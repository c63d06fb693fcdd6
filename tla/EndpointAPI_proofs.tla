-------------------------- MODULE EndpointAPI_proofs --------------------------
(***************************************************************************)
(* Proofs about EndpointAPI, for every number of tenants, endpoints and    *)
(* requests: it implements EndpointRegistry, whose theorems thus hold of   *)
(* it, it confirms at most one DELETE of an endpoint, and a walk over its  *)
(* list misses no row that stays.                                          *)
(***************************************************************************)
EXTENDS EndpointAPI, EndpointRegistry_proofs, FiniteSetTheorems, TLAPS

\* What the answers say of the rows, with what is needed of their types.
ConfirmedInv ==
    /\ endpoints \in [Ids -> Rows \cup {Unborn, Gone}]
    /\ answer \in [Requests -> Answers]
    /\ OneDeleteIsConfirmed

\* A request that is answered anything but 204 confirms nothing.
LEMMA OtherAnswersConfirmNothing ==
    ASSUME ConfirmedInv, NEW r \in Requests, NEW code \in {"none", "ok", "error"},
           answer' = [answer EXCEPT ![r] = [status |-> code]],
           endpoints' \in [Ids -> Rows \cup {Unborn, Gone}],
           \A p \in Ids : endpoints[p] = Gone => endpoints'[p] = Gone
    PROVE  ConfirmedInv'
<1>1. answer' \in [Requests -> Answers]
  BY DEF ConfirmedInv, Answers
<1>2. ASSUME NEW p \in Ids, NEW s \in Requests, ToldDeleted(s, p)'
      PROVE  ToldDeleted(s, p)
  <2>1. s # r
    BY <1>2 DEF ToldDeleted, ConfirmedInv
  <2> QED BY <1>2, <2>1 DEF ToldDeleted, ConfirmedInv
<1> QED
  BY <1>1, <1>2 DEF ConfirmedInv, OneDeleteIsConfirmed

\* Nothing brings a deleted row back.
LEMMA RowsStayRows ==
    ASSUME ConfirmedInv, NEW r \in Requests, NEW t \in Tenants, NEW p \in Ids,
           CreateEndpoint(t, p)
    PROVE  /\ endpoints' \in [Ids -> Rows \cup {Unborn, Gone}]
           /\ \A q \in Ids : endpoints[q] = Gone => endpoints'[q] = Gone
<1>1. PICK fields \in [Fields -> Values] :
         endpoints' = [endpoints EXCEPT ![p] = [kind |-> "row", tenant |-> t, fields |-> fields]]
  BY DEF CreateEndpoint
<1>2. endpoints[p] = Unborn /\ Unborn # Gone
  BY DEF CreateEndpoint, Unborn, Gone
<1> QED
  BY <1>1, <1>2 DEF ConfirmedInv, Rows

LEMMA ConfirmedStart == APIInit => ConfirmedInv
  BY DEF APIInit, Init, ConfirmedInv, OneDeleteIsConfirmed, ToldDeleted, Answers, None

\* A DELETE that meets a row is the one that is confirmed.
LEMMA DeleteIsConfirmed ==
    ASSUME RegistryInv, ConfirmedInv, NEW r \in Requests, DeleteDone(r)
    PROVE  ConfirmedInv'
<1> DEFINE p == call[r].id
<1>1. p \in Ids
  BY DEF DeleteDone, FinishDelete, RegistryInv, TypeOK, Calls, Idle
<1>2. /\ endpoints' \in [Ids -> Rows \cup {Unborn, Gone}]
      /\ \A q \in Ids : endpoints[q] = Gone => endpoints'[q] = Gone
      /\ Exists(p) => endpoints'[p] = Gone
  BY <1>1 DEF DeleteDone, FinishDelete, ConfirmedInv
<1>3. CASE Error(r)
  BY <1>2, <1>3, OtherAnswersConfirmNothing DEF Error
<1>4. CASE Exists(p) /\ Deleted(r, p)
  <2>1. endpoints[p] # Gone
    BY <1>4 DEF Exists, Gone
  <2>2. answer' = [answer EXCEPT ![r] = [status |-> "deleted", id |-> p]]
    BY <1>4 DEF Deleted
  <2>3. answer' \in [Requests -> Answers]
    BY <1>1, <2>2 DEF ConfirmedInv, Answers
  <2>4. ASSUME NEW q \in Ids, NEW s \in Requests, ToldDeleted(s, q)'
        PROVE  (s = r /\ q = p) \/ (s # r /\ q # p /\ ToldDeleted(s, q))
    <3>1. CASE s = r
      BY <1>1, <2>2, <2>4, <3>1 DEF ToldDeleted, ConfirmedInv
    <3>2. CASE s # r
      <4>1. ToldDeleted(s, q)
        BY <2>2, <2>4, <3>2 DEF ToldDeleted, ConfirmedInv
      <4>2. endpoints[q] = Gone
        BY <4>1 DEF ConfirmedInv, OneDeleteIsConfirmed
      <4> QED BY <2>1, <3>2, <4>1, <4>2
    <3> QED BY <3>1, <3>2
  <2>5. OneDeleteIsConfirmed'
    BY <1>1, <1>2, <1>4, <2>4 DEF OneDeleteIsConfirmed, ConfirmedInv
  <2> QED BY <1>2, <2>3, <2>5 DEF ConfirmedInv
<1> QED
  BY <1>3, <1>4 DEF DeleteDone

LEMMA ConfirmedStep == RegistryInv /\ ConfirmedInv /\ [APINext]_apiVars => ConfirmedInv'
<1> SUFFICES ASSUME RegistryInv, ConfirmedInv, [APINext]_apiVars PROVE ConfirmedInv'
  OBVIOUS
<1>1. ASSUME UNCHANGED <<endpoints, answer>> PROVE ConfirmedInv'
  BY <1>1 DEF ConfirmedInv, OneDeleteIsConfirmed, ToldDeleted
<1>2. ASSUME NEW r \in Requests, UNCHANGED endpoints,
             Ok(r) \/ Error(r) \/ answer' = [answer EXCEPT ![r] = None]
      PROVE  ConfirmedInv'
  BY <1>2, OtherAnswersConfirmNothing DEF ConfirmedInv, Ok, Error, None
<1>3. ASSUME NEW r \in Requests, Refuse(r) PROVE ConfirmedInv'
  BY <1>2, <1>3 DEF Refuse, vars
<1>4. ASSUME NEW r \in Requests, NEW t \in Tenants, NEW p \in Ids, Create(r, t, p)
      PROVE  ConfirmedInv'
  BY <1>4, RowsStayRows, OtherAnswersConfirmNothing DEF Create, Ok, Error
<1>5. ASSUME NEW r \in Requests, NEW t \in Tenants, NEW p \in Ids,
             Get(r, t, p) \/ Begin(r, t, p) \/ RefuseAccess(r, t, p)
      PROVE  ConfirmedInv'
  BY <1>2, <1>5 DEF Get, Begin, RefuseAccess, BeginUpdate, BeginDelete, ReadAndCheck, vars
<1>6. ASSUME NEW r \in Requests, PutDone(r) PROVE ConfirmedInv'
  <2>1. RegistryInv'
    BY <1>6, NextRegistry DEF PutDone, Next
  <2>2. \A p \in Ids : endpoints[p] = Gone => endpoints'[p] = Gone
    BY <1>6 DEF PutDone, FinishUpdate, Exists, Gone, RegistryInv, TypeOK
  <2> QED BY <1>6, <2>1, <2>2, OtherAnswersConfirmNothing DEF PutDone, Ok, Error, RegistryInv, TypeOK
<1>7. ASSUME NEW r \in Requests, DeleteDone(r) PROVE ConfirmedInv'
  BY <1>7, DeleteIsConfirmed
<1>8. ASSUME NEW r \in Requests, NotDone(r) PROVE ConfirmedInv'
  BY <1>2, <1>8 DEF NotDone, Abandon
<1>9. CASE ListStep
  BY <1>1, <1>9 DEF ListStep, vars
<1>10. ASSUME NEW t \in Tenants, Register(t) PROVE ConfirmedInv'
  BY <1>1, <1>10 DEF Register, CreateTenant
<1>11. CASE UNCHANGED apiVars
  BY <1>1, <1>11 DEF apiVars, vars
<1> QED
  BY <1>3, <1>4, <1>5, <1>6, <1>7, <1>8, <1>9, <1>10, <1>11 DEF APINext, Request

\* Every step of the API is a step of the registry or leaves it alone.
LEMMA StepsAreTheRegistrys == [APINext]_apiVars => [Next]_vars
<1> SUFFICES ASSUME [APINext]_apiVars PROVE [Next]_vars
  OBVIOUS
<1>1. ASSUME NEW t \in Tenants, Register(t) PROVE Next
  BY <1>1 DEF Register, Next
<1>2. ASSUME NEW r \in Requests, Request(r) PROVE [Next]_vars
  BY <1>2 DEF Request, Refuse, Create, Get, Begin, RefuseAccess, PutDone, DeleteDone, NotDone, Next
<1>3. CASE ListStep
  BY <1>3 DEF ListStep
<1>4. CASE UNCHANGED apiVars
  BY <1>4 DEF apiVars
<1> QED
  BY <1>1, <1>2, <1>3, <1>4 DEF APINext

\* The routes of /endpoints, with their answers and lists, implement the registry: what is
\* proved of the rows holds behind the API.
THEOREM ImplementsRegistry == APISpec => Spec
<1>1. APIInit => Init
  BY DEF APIInit
<1> QED
  BY <1>1, StepsAreTheRegistrys, PTL DEF APISpec, Spec

\* Of all the requests that delete an endpoint one at most is told 204, however they
\* overlap: endpointService.Delete with the RowsAffected of the repository.
THEOREM OneDeleteTheorem == APISpec => []OneDeleteIsConfirmed
<1>1. ConfirmedInv => OneDeleteIsConfirmed
  BY DEF ConfirmedInv
<1>2. APISpec => []RegistryInv
  BY ImplementsRegistry, RegistryInvariant, PTL
<1> QED
  BY <1>1, <1>2, ConfirmedStart, ConfirmedStep, PTL DEF APISpec

(***************************************************************************)
(* The walk over a list.                                                   *)
(***************************************************************************)

\* Listing counts with its own instance of FiniteSets.
LEMMA SameCardinality == \A S : List!Cardinality(S) = Cardinality(S)
  BY Zenon DEF List!Cardinality, Cardinality

\* Whatever is counted here is a set of ids.
LEMMA IdsAreFinite ==
    ASSUME NEW S \in SUBSET Ids
    PROVE  IsFiniteSet(S) /\ Cardinality(S) \in Nat
  BY FS_Subset, FS_CardinalityType, APIAssumption DEF APIAssumption

LEMMA FewerIds ==
    ASSUME NEW S \in SUBSET Ids, NEW T \in SUBSET S
    PROVE  Cardinality(T) <= Cardinality(S)
  BY IdsAreFinite, FS_Subset

\* A row with as many newer ones as the offset says is on the page or behind it.
LEMMA PageIsNext ==
    ASSUME createdAt \in [Ids -> 0..MaxStamp],
           NEW table \in SUBSET Ids, ~List!Tied(table),
           NEW offset \in Nat, NEW limit \in Nat,
           NEW page \in List!Pages(table, offset, limit),
           NEW p \in table, p \notin page, Cardinality(List!Newer(p, table)) >= offset
    PROVE  Cardinality(List!Newer(p, table)) >= offset + Cardinality(page)
<1> DEFINE newer == List!Newer(p, table)
<1>0. page \in SUBSET table /\ \A q \in Ids : createdAt[q] \in Int
  BY APIAssumption DEF List!Pages, APIAssumption
<1>1. PICK skipped \in SUBSET (table \ page) :
         LET behind == table \ (page \cup skipped) IN
           /\ Cardinality(skipped) = List!Smaller(offset, Cardinality(table))
           /\ List!NoOlder(skipped, page \cup behind)
           /\ List!NoOlder(page, behind)
  BY SameCardinality DEF List!Pages
<1>2. newer \in SUBSET Ids /\ newer \in SUBSET table /\ skipped \in SUBSET Ids
  BY DEF List!Newer
<1>3. /\ Cardinality(newer) \in Nat /\ Cardinality(table) \in Nat /\ Cardinality(skipped) \in Nat
      /\ Cardinality(newer) <= Cardinality(table)
  BY <1>2, IdsAreFinite, FewerIds
<1>4. Cardinality(skipped) = offset
  BY <1>1, <1>3 DEF List!Smaller
<1>5. p \notin skipped
  <2>1. SUFFICES ASSUME p \in skipped PROVE FALSE
    OBVIOUS
  <2>2. newer \in SUBSET (skipped \ {p})
    BY <1>0, <1>1, <2>1 DEF List!Newer, List!NoOlder
  <2>3. Cardinality(skipped \ {p}) = Cardinality(skipped) - 1
    BY <1>2, <2>1, IdsAreFinite, FS_RemoveElement
  <2>4. Cardinality(newer) <= Cardinality(skipped \ {p})
    BY <1>2, <2>2, FewerIds
  <2> QED BY <1>3, <1>4, <2>3, <2>4
<1>6. skipped \cup page \in SUBSET newer
  <2>1. ASSUME NEW q \in skipped \cup page PROVE q \in newer
    <3>1. createdAt[q] >= createdAt[p]
      BY <1>0, <1>1, <1>5, <2>1 DEF List!NoOlder
    <3>2. createdAt[q] # createdAt[p]
      BY <1>0, <1>5, <2>1 DEF List!Tied
    <3> QED BY <1>0, <2>1, <3>1, <3>2 DEF List!Newer
  <2> QED BY <2>1
<1>7. Cardinality(skipped \cup page) = Cardinality(skipped) + Cardinality(page)
  <2>1. skipped \cap page = {} /\ page \in SUBSET Ids
    BY <1>0
  <2>2. Cardinality(skipped \cup page) =
            Cardinality(skipped) + Cardinality(page) - Cardinality(skipped \cap page)
    BY <1>2, <2>1, IdsAreFinite, FS_Union
  <2> QED BY <1>3, <2>1, <2>2, IdsAreFinite, FS_EmptySet
<1> QED BY <1>2, <1>4, <1>6, <1>7, FewerIds

\* Some row has nothing behind it but itself: at most all others are newer.
LEMMA OthersAreNewer ==
    ASSUME createdAt \in [Ids -> 0..MaxStamp], NEW table \in SUBSET Ids, NEW p \in table
    PROVE  Cardinality(List!Newer(p, table)) < Cardinality(table)
<1>1. List!Newer(p, table) \in SUBSET (table \ {p})
  BY APIAssumption DEF List!Newer, APIAssumption
<1>2. Cardinality(table \ {p}) = Cardinality(table) - 1
  BY IdsAreFinite, FS_RemoveElement
<1>3. Cardinality(List!Newer(p, table)) <= Cardinality(table \ {p})
  BY <1>1, FewerIds
<1>4. Cardinality(table) \in Nat /\ Cardinality(List!Newer(p, table)) \in Nat
  BY <1>1, IdsAreFinite
<1> QED BY <1>2, <1>3, <1>4

\* List!WalkInv of one walk, its rows and their times.
Before(p, table, at) == Cardinality({q \in table : at[q] > at[p]})
TiedBy(table, at)    == \E p, q \in table : p # q /\ at[p] = at[q]
GoodWalk(w, table, at) ==
    /\ w \in List!Walks
    /\ w.standing \subseteq table
    /\ ~w.removed /\ ~TiedBy(table, at) =>
         \A p \in w.standing \ w.seen :
            /\ w.stage # "done"
            /\ Before(p, table, at) >= w.offset
            /\ w.stage = "count" /\ p \notin w.page =>
                   Before(p, table, at) >= w.offset + Cardinality(w.page)

LEMMA BeforeIsNat ==
    ASSUME NEW table \in SUBSET Ids, NEW p, NEW at
    PROVE  Before(p, table, at) \in Nat
<1>1. {q \in table : at[q] > at[p]} \in SUBSET Ids
  OBVIOUS
<1> QED BY <1>1, IdsAreFinite DEF Before

ListInv ==
    /\ createdAt \in [Ids -> 0..MaxStamp]
    /\ walk \in List!Walks \cup {List!NoWalk}
    /\ walk # List!NoWalk => GoodWalk(walk, Listed[walk.tenant], createdAt)

LEMMA TablesOfIds == Listed \in [Tenants -> SUBSET Ids]
  BY DEF Listed

LEMMA GoodWalksAreWalkInv == ListInv => WalkInv
<1> SUFFICES ASSUME ListInv PROVE WalkInv
  OBVIOUS
<1>1. List!WalkTypeOK
  BY DEF ListInv, List!WalkTypeOK
<1>2. List!StandingAreRows
  BY DEF ListInv, GoodWalk, List!StandingAreRows
<1>3. List!UnseenAreBehind
  BY SameCardinality
     DEF ListInv, GoodWalk, Before, TiedBy, List!UnseenAreBehind, List!Newer, List!Tied
<1> QED BY <1>1, <1>2, <1>3 DEF WalkInv, List!WalkInv

\* What each step of the client, and each change of the rows, makes of a good walk.
LEMMA BeginIsGood ==
    ASSUME NEW t \in Tenants, NEW limit \in Asked, List!BeginWalk(t, limit)
    PROVE  walk' \in List!Walks /\ walk'.tenant = t /\ GoodWalk(walk', Listed[t], createdAt)
<1>1. List!Clamp(limit) \in 1..MaxLimit
  BY APIAssumption DEF APIAssumption, List!Clamp
<1>2. Listed[t] \in SUBSET Ids
  BY TablesOfIds
<1>3. walk' = [stage |-> "select", tenant |-> t, limit |-> List!Clamp(limit), offset |-> 0,
               page |-> {}, seen |-> {}, standing |-> Listed[t], removed |-> FALSE]
  BY DEF List!BeginWalk
<1>4. /\ walk' \in List!Walks /\ walk'.tenant = t /\ walk'.stage = "select"
      /\ walk'.offset = 0 /\ walk'.standing = Listed[t]
  BY <1>1, <1>2, <1>3 DEF List!Walks
<1>5. \A p : Before(p, Listed[t], createdAt) >= 0
  BY <1>2, BeforeIsNat
<1> QED
  BY <1>4, <1>5 DEF GoodWalk

LEMMA SelectIsGood ==
    ASSUME createdAt \in [Ids -> 0..MaxStamp],
           GoodWalk(walk, Listed[walk.tenant], createdAt), Listed[walk.tenant] \in SUBSET Ids,
           List!SelectPage
    PROVE  GoodWalk(walk', Listed[walk.tenant], createdAt) /\ walk'.tenant = walk.tenant
<1> DEFINE w == walk  v == walk'  table == Listed[walk.tenant]
<1>0. PICK page \in List!Pages(table, w.offset, w.limit) :
         v = [w EXCEPT !.stage = "count", !.page = page]
  BY DEF List!SelectPage
<1>1. /\ w \in List!Walks /\ w.offset \in Nat /\ w.limit \in Nat /\ page \in SUBSET Ids
      /\ w.standing \in SUBSET table
  BY APIAssumption DEF GoodWalk, List!Walks, List!Pages, APIAssumption
<1>2. /\ v \in List!Walks
      /\ v.stage = "count" /\ v.tenant = w.tenant /\ v.offset = w.offset /\ v.page = page
      /\ v.seen = w.seen /\ v.standing = w.standing /\ v.removed = w.removed
  BY <1>0, <1>1 DEF List!Walks
<1>3. ASSUME ~v.removed, ~TiedBy(table, createdAt), NEW p \in v.standing \ v.seen
      PROVE  /\ Before(p, table, createdAt) >= v.offset
             /\ p \notin v.page =>
                    Before(p, table, createdAt) >= v.offset + Cardinality(v.page)
  <2>1. Before(p, table, createdAt) >= w.offset
    BY <1>2, <1>3 DEF GoodWalk
  <2>2. ~List!Tied(table) /\ Before(p, table, createdAt) = Cardinality(List!Newer(p, table))
    BY <1>3 DEF TiedBy, List!Tied, Before, List!Newer
  <2>3. p \in table
    BY <1>1, <1>2, <1>3
  <2>4. p \notin page => Cardinality(List!Newer(p, table)) >= w.offset + Cardinality(page)
    <3> HIDE DEF w, v, table
    <3> QED BY <1>1, <2>1, <2>2, <2>3, PageIsNext DEF table
  <2> QED BY <1>2, <2>1, <2>2, <2>4
<1> QED
  BY <1>1, <1>2, <1>3 DEF GoodWalk

LEMMA AnswerIsGood ==
    ASSUME createdAt \in [Ids -> 0..MaxStamp],
           GoodWalk(walk, Listed[walk.tenant], createdAt), Listed[walk.tenant] \in SUBSET Ids,
           List!CountRows
    PROVE  GoodWalk(walk', Listed[walk.tenant], createdAt) /\ walk'.tenant = walk.tenant
<1> DEFINE w == walk  v == walk'  table == Listed[walk.tenant]
           offset == w.offset + Cardinality(w.page)
           stage == IF offset < Cardinality(table) THEN "select" ELSE "done"
           seen == w.seen \cup w.page
<1>1. /\ w \in List!Walks /\ w.offset \in Nat /\ w.page \in SUBSET Ids /\ w.seen \in SUBSET Ids
      /\ w.standing \in SUBSET table
  BY DEF GoodWalk, List!Walks
<1>2. offset \in Nat /\ Cardinality(table) \in Nat
  BY <1>1, IdsAreFinite
<1>3. v = [w EXCEPT !.stage = stage, !.offset = offset, !.seen = seen, !.page = {}]
  BY SameCardinality DEF List!CountRows, List!Answered
<1>4. stage \in {"select", "done"} /\ seen \in SUBSET Ids
  BY <1>1
<1>5. /\ v \in List!Walks
      /\ v.stage = stage /\ v.tenant = w.tenant /\ v.offset = offset
      /\ v.seen = seen /\ v.standing = w.standing /\ v.removed = w.removed
  <2> HIDE DEF stage, seen
  <2> QED BY <1>1, <1>2, <1>3, <1>4 DEF List!Walks
<1>6. ASSUME ~v.removed, ~TiedBy(table, createdAt), NEW p \in v.standing \ v.seen
      PROVE  v.stage # "done" /\ Before(p, table, createdAt) >= v.offset
  <2>1. p \in w.standing \ w.seen /\ p \notin w.page /\ p \in table
    BY <1>1, <1>5, <1>6
  <2>2. Before(p, table, createdAt) >= offset
    BY <1>5, <1>6, <2>1 DEF GoodWalk, List!CountRows
  <2>3. Before(p, table, createdAt) < Cardinality(table)
    BY <2>1, OthersAreNewer DEF Before, List!Newer
  <2>4. offset < Cardinality(table)
    BY <1>1, <1>2, <2>2, <2>3, BeforeIsNat
  <2> QED BY <1>5, <2>2, <2>4
<1> QED
  BY <1>1, <1>4, <1>5, <1>6 DEF GoodWalk

LEMMA RepeatIsGood ==
    ASSUME GoodWalk(walk, Listed[walk.tenant], createdAt), List!PageFails
    PROVE  GoodWalk(walk', Listed[walk.tenant], createdAt) /\ walk'.tenant = walk.tenant
<1> DEFINE w == walk  v == walk'
<1>1. /\ v \in List!Walks
      /\ v.stage = "select" /\ v.tenant = w.tenant /\ v.offset = w.offset
      /\ v.seen = w.seen /\ v.standing = w.standing /\ v.removed = w.removed
  <2>1. w \in List!Walks
    BY DEF GoodWalk
  <2> QED BY <2>1 DEF List!PageFails, List!Walks
<1> QED BY <1>1 DEF GoodWalk

\* Rows that are inserted only push the others back.
LEMMA ChangeIsGood ==
    ASSUME NEW old \in SUBSET Ids, NEW new \in SUBSET Ids, NEW at, NEW later,
           \A q \in old : later[q] = at[q], GoodWalk(walk, old, at),
           walk' = [walk EXCEPT !.standing = @ \cap new,
                                !.removed  = @ \/ ~(old \subseteq new)]
    PROVE  GoodWalk(walk', new, later) /\ walk'.tenant = walk.tenant
<1> DEFINE w == walk  v == walk'
           standing == w.standing \cap new
           removed == w.removed \/ ~(old \subseteq new)
<1>1. /\ w \in List!Walks /\ w.offset \in Nat /\ w.page \in SUBSET Ids
      /\ w.standing \in SUBSET old /\ w.removed \in BOOLEAN
  BY DEF GoodWalk, List!Walks
<1>2. v = [w EXCEPT !.standing = standing, !.removed = removed]
  OBVIOUS
<1>3. standing \in SUBSET Ids /\ standing \subseteq w.standing /\ standing \subseteq new
  BY <1>1
<1>4. /\ v \in List!Walks
      /\ v.stage = w.stage /\ v.tenant = w.tenant /\ v.offset = w.offset /\ v.page = w.page
      /\ v.seen = w.seen /\ v.standing = standing /\ v.removed = removed
  <2>1. removed \in BOOLEAN
    OBVIOUS
  <2> HIDE DEF standing, removed
  <2> QED BY <1>1, <1>2, <1>3, <2>1 DEF List!Walks
<1>5. ASSUME ~v.removed, ~TiedBy(new, later), NEW p \in v.standing \ v.seen
      PROVE  /\ v.stage # "done"
             /\ Before(p, new, later) >= v.offset
             /\ v.stage = "count" /\ p \notin v.page =>
                    Before(p, new, later) >= v.offset + Cardinality(v.page)
  <2>1. ~w.removed /\ old \subseteq new
    BY <1>4, <1>5
  <2>2. ~TiedBy(old, at)
    BY <1>5, <2>1 DEF TiedBy
  <2>3. p \in w.standing \ w.seen /\ p \in old
    BY <1>1, <1>3, <1>4, <1>5
  <2>4. {q \in old : at[q] > at[p]} \in SUBSET {q \in new : later[q] > later[p]}
    BY <2>1, <2>3
  <2>5. Before(p, old, at) <= Before(p, new, later)
    <3>1. {q \in new : later[q] > later[p]} \in SUBSET Ids
      OBVIOUS
    <3> QED BY <2>4, <3>1, FewerIds DEF Before
  <2>6. Before(p, old, at) \in Nat /\ Before(p, new, later) \in Nat /\ Cardinality(w.page) \in Nat
    BY <1>1, BeforeIsNat, IdsAreFinite
  <2>7. /\ w.stage # "done"
        /\ Before(p, old, at) >= w.offset
        /\ w.stage = "count" /\ p \notin w.page =>
               Before(p, old, at) >= w.offset + Cardinality(w.page)
    BY <2>1, <2>2, <2>3 DEF GoodWalk
  <2> QED BY <1>1, <1>4, <2>5, <2>6, <2>7
<1> QED
  BY <1>3, <1>4, <1>5 DEF GoodWalk

(***************************************************************************)
(* The steps of the API.                                                   *)
(***************************************************************************)

\* A row keeps its tenant and its time as long as it is there, and only an id without a
\* row gets a new one.
LEMMA RequestsChangeRows ==
    ASSUME RegistryInv, createdAt \in [Ids -> 0..MaxStamp], NEW r \in Requests, Request(r)
    PROVE  /\ createdAt' \in [Ids -> 0..MaxStamp]
           /\ \A t \in Tenants : \A q \in Listed[t] : createdAt'[q] = createdAt[q]
<1>1. CASE UNCHANGED createdAt
  BY <1>1 DEF Listed
<1>2. ASSUME NEW t \in Tenants, NEW p \in Ids, Create(r, t, p)
      PROVE  /\ createdAt' \in [Ids -> 0..MaxStamp]
             /\ \A u \in Tenants : \A q \in Listed[u] : createdAt'[q] = createdAt[q]
  <2>1. ~Exists(p)
    BY <1>2 DEF Create, CreateEndpoint, Exists, Unborn
  <2>2. PICK stamp \in 1..MaxStamp : createdAt' = [createdAt EXCEPT ![p] = stamp]
    BY <1>2 DEF Create
  <2>3. createdAt' \in [Ids -> 0..MaxStamp]
    BY <2>2, APIAssumption DEF APIAssumption
  <2> QED BY <2>1, <2>2, <2>3 DEF Listed
<1>3. UNCHANGED createdAt \/ \E t \in Tenants, p \in Ids : Create(r, t, p)
  BY DEF Request, Refuse, Get, Begin, RefuseAccess, PutDone, DeleteDone, NotDone
<1> QED BY <1>1, <1>2, <1>3

LEMMA ListStart == APIInit => ListInv
  BY APIAssumption DEF APIInit, ListInv, APIAssumption

LEMMA ListedStays ==
    ASSUME UNCHANGED endpoints
    PROVE  Listed' = Listed
  BY DEF Listed, Exists

LEMMA ListStepsAreGood ==
    ASSUME RegistryInv, ListInv, ListStep
    PROVE  ListInv'
<1>1. Listed' = Listed /\ createdAt' = createdAt
  BY ListedStays DEF ListStep, vars
<1>2. CASE walk' \in List!Walks /\ GoodWalk(walk', Listed[walk'.tenant], createdAt)
  BY <1>1, <1>2 DEF ListInv
<1>3. CASE List!EndWalk
  BY <1>1, <1>3 DEF ListInv, List!EndWalk
<1>4. ASSUME NEW t \in Tenants, NEW limit \in Asked, List!BeginWalk(t, limit)
      PROVE  ListInv'
  BY <1>2, <1>4, BeginIsGood
<1>5. ASSUME walk # List!NoWalk
      PROVE  /\ walk \in List!Walks /\ GoodWalk(walk, Listed[walk.tenant], createdAt)
             /\ Listed[walk.tenant] \in SUBSET Ids
             /\ createdAt \in [Ids -> 0..MaxStamp]
  <2>1. walk \in List!Walks
    BY <1>5 DEF ListInv
  <2>2. walk.tenant \in Tenants
    BY <2>1 DEF List!Walks
  <2> QED BY <1>5, <2>1, <2>2, TablesOfIds DEF ListInv
<1>6. List!NoWalk.stage \notin {"select", "count", "done"}
  BY DEF List!NoWalk
<1>7. CASE List!SelectPage \/ List!CountRows \/ List!PageFails
  <2>1. walk # List!NoWalk
    BY <1>6, <1>7 DEF List!SelectPage, List!CountRows, List!PageFails
  <2>2. GoodWalk(walk', Listed[walk.tenant], createdAt) /\ walk'.tenant = walk.tenant
    BY <1>5, <1>7, <2>1, SelectIsGood, AnswerIsGood, RepeatIsGood
  <2> QED BY <1>2, <2>2 DEF GoodWalk
<1> QED
  BY <1>3, <1>4, <1>7 DEF ListStep, RegistryInv, TypeOK

LEMMA ListInvStep == RegistryInv /\ ListInv /\ [APINext]_apiVars => ListInv'
<1> SUFFICES ASSUME RegistryInv, ListInv, [APINext]_apiVars PROVE ListInv'
  OBVIOUS
<1>1. ASSUME UNCHANGED <<endpoints, createdAt, walk>> PROVE ListInv'
  BY <1>1, ListedStays DEF ListInv
<1>2. ASSUME NEW t \in Tenants, Register(t) PROVE ListInv'
  BY <1>1, <1>2 DEF Register, CreateTenant
<1>3. ASSUME NEW r \in Requests, Request(r), List!RowsChange PROVE ListInv'
  <2>1. /\ createdAt' \in [Ids -> 0..MaxStamp]
        /\ \A t \in Tenants : \A q \in Listed[t] : createdAt'[q] = createdAt[q]
    BY <1>3, RequestsChangeRows DEF ListInv
  <2>2. CASE walk = List!NoWalk
    BY <1>3, <2>1, <2>2 DEF ListInv, List!RowsChange
  <2>3. CASE walk # List!NoWalk
    <3>1. walk \in List!Walks /\ GoodWalk(walk, Listed[walk.tenant], createdAt)
      BY <2>3 DEF ListInv
    <3>2. walk.tenant \in Tenants
      BY <3>1 DEF List!Walks
    <3>3. Listed[walk.tenant] \in SUBSET Ids /\ (Listed')[walk.tenant] \in SUBSET Ids
      BY <3>2, TablesOfIds DEF Listed
    <3>4. walk' = [walk EXCEPT
                      !.standing = @ \cap (Listed')[walk.tenant],
                      !.removed  = @ \/ ~(Listed[walk.tenant] \subseteq (Listed')[walk.tenant])]
      BY <1>3, <2>3 DEF List!RowsChange
    <3>5. GoodWalk(walk', (Listed')[walk.tenant], createdAt') /\ walk'.tenant = walk.tenant
      BY <2>1, <3>1, <3>2, <3>3, <3>4, ChangeIsGood
    <3>6. walk' \in List!Walks
      BY <3>5 DEF GoodWalk
    <3> QED BY <2>1, <3>5, <3>6 DEF ListInv
  <2> QED BY <2>2, <2>3
<1>4. CASE ListStep
  BY <1>4, ListStepsAreGood
<1>5. CASE UNCHANGED apiVars
  BY <1>1, <1>5 DEF apiVars, vars
<1> QED
  BY <1>2, <1>3, <1>4, <1>5 DEF APINext

\* The invariant of the paged lists, whatever requests come between the statements of
\* ListByTenantID: no row that was there all along slips in front of the walk's offset.
THEOREM WalkInvariant == APISpec => []WalkInv
<1>1. APISpec => []RegistryInv
  BY ImplementsRegistry, RegistryInvariant, PTL
<1> QED
  BY <1>1, GoodWalksAreWalkInv, ListStart, ListInvStep, PTL DEF APISpec

\* A walk over all pages shows every row that was there from its beginning to its end,
\* for every number of rows and page size, although page and total are two statements.
THEOREM WalksMissNothing == APISpec => []WalkMissesNothing
<1>1. WalkInv => WalkMissesNothing
  <2> SUFFICES ASSUME WalkInv, walk.stage = "done", ~walk.removed, ~List!Tied(Listed[walk.tenant])
               PROVE  walk.standing \subseteq walk.seen
    BY DEF WalkMissesNothing, List!WalkMissesNothing
  <2>1. walk # List!NoWalk
    BY DEF List!NoWalk
  <2> QED BY <2>1 DEF WalkInv, List!WalkInv, List!UnseenAreBehind
<1> QED
  BY <1>1, WalkInvariant, PTL

\* Every value the API's tables, answers and lists may hold.
THEOREM APITypesHold == APISpec => []APITypeOK
<1>1. APISpec => []RegistryInv
  BY ImplementsRegistry, RegistryInvariant, PTL
<1>2. RegistryInv /\ ConfirmedInv /\ ListInv => APITypeOK
  BY DEF RegistryInv, ConfirmedInv, ListInv, APITypeOK, List!WalkTypeOK
<1> QED
  BY <1>1, <1>2, ConfirmedStart, ConfirmedStep, ListStart, ListInvStep, PTL DEF APISpec
====
