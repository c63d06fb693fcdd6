------------------------------- MODULE Listing --------------------------------
(***************************************************************************)
(* The lists of the API, page by page: GET /endpoints and GET /events with *)
(* limit and offset.  EventService and EndpointService (ListByTenantID)    *)
(* serve them alike: clamp the limit, SELECT the page, then COUNT the rows *)
(* in a second statement, while rows of the tenant come and go.            *)
(*                                                                         *)
(* The client walks a list the way the answer's "total" suggests: it asks  *)
(* for the rows behind those it has until it has as many as the total.     *)
(* The rows and their times belong to the module that instantiates this    *)
(* one; it says in RowsChange what a walk needs to know of their changes.  *)
(***************************************************************************)
EXTENDS Naturals, Integers, FiniteSets

CONSTANTS
    Tenants,
    Ids,           \* ids of the listed rows
    Asked,         \* the limits clients ask for; what is no number reads as 0
    DefaultLimit,  \* 50 in the code
    MaxLimit       \* 100 in the code

VARIABLES
    rows,          \* the ids of each tenant's rows
    createdAt,     \* created_at, stamped by the replica before its INSERT
    walk           \* the one walk that is watched

NoWalk == [stage |-> "none"]
Walks  == [stage : {"select", "count", "done"}, tenant : Tenants,
           limit : 1..MaxLimit, offset : Nat, page : SUBSET Ids, seen : SUBSET Ids,
           standing : SUBSET Ids,   \* history: rows that were there all along
           removed : BOOLEAN]       \* history: did any row of the tenant go?

WalkTypeOK == walk \in Walks \cup {NoWalk}

\* Mutant of Clamp: a limit of 0 is taken as it is.
ClampAbove(limit) == IF limit > MaxLimit THEN MaxLimit ELSE limit

\* The limit the service goes by.
Clamp(limit) ==
    IF limit <= 0 THEN DefaultLimit ELSE IF limit > MaxLimit THEN MaxLimit ELSE limit

\* ORDER BY created_at DESC LIMIT limit OFFSET offset: the rows skipped are no older
\* than the rest, those of the page no older than what follows; rows of one time come
\* in any order.
NoOlder(left, right) == \A p \in left, q \in right : createdAt[p] >= createdAt[q]
Smaller(m, n) == IF m < n THEN m ELSE n
Pages(table, offset, limit) ==
    {page \in SUBSET table : \E skipped \in SUBSET (table \ page) :
        LET behind == table \ (page \cup skipped) IN
          /\ Cardinality(skipped) = Smaller(offset, Cardinality(table))
          /\ Cardinality(page) = Smaller(limit, Cardinality(table) - Cardinality(skipped))
          /\ NoOlder(skipped, page \cup behind)
          /\ NoOlder(page, behind)}

BeginWalk(t, limit) ==
    /\ walk = NoWalk
    /\ walk' = [stage |-> "select", tenant |-> t, limit |-> Clamp(limit), offset |-> 0,
                page |-> {}, seen |-> {}, standing |-> rows[t], removed |-> FALSE]

\* repo.ListByTenantID.
SelectPage ==
    /\ walk.stage = "select"
    /\ \E page \in Pages(rows[walk.tenant], walk.offset, walk.limit) :
          walk' = [walk EXCEPT !.stage = "count", !.page = page]

\* The client has the answer, and asks for more unless it has total rows.
Answered(total) ==
    LET offset == walk.offset + Cardinality(walk.page) IN
      walk' = [walk EXCEPT !.stage = IF offset < total THEN "select" ELSE "done",
                           !.offset = offset, !.seen = @ \cup walk.page, !.page = {}]

\* Mutant of CountRows: the total is that of the page.
CountPage ==
    /\ walk.stage = "count"
    /\ Answered(Cardinality(walk.page))

\* repo.CountByTenantID.
CountRows ==
    /\ walk.stage = "count"
    /\ Answered(Cardinality(rows[walk.tenant]))

\* One of the two statements fails: 500, and the client asks for the same page again.
PageFails ==
    /\ walk.stage = "count"
    /\ walk' = [walk EXCEPT !.stage = "select", !.page = {}]

EndWalk == walk.stage = "done" /\ walk' = NoWalk

\* What the walk notices of a change of the rows.
RowsChange ==
    IF walk = NoWalk THEN UNCHANGED walk
    ELSE walk' = [walk EXCEPT !.standing = @ \cap rows'[walk.tenant],
                              !.removed  = @ \/ ~(rows[walk.tenant] \subseteq rows'[walk.tenant])]

Tied(table) == \E p, q \in table : p # q /\ createdAt[p] = createdAt[q]

\* A walk over all pages shows every row that was there from its beginning to its end,
\* although rows are inserted meanwhile, at any place of the order, and although page
\* and total come from two statements; unless a row is deleted meanwhile, or two rows
\* have the same created_at, which the ORDER BY leaves in no order.
WalkMissesNothing ==
    walk.stage = "done" /\ ~walk.removed /\ ~Tied(rows[walk.tenant]) =>
        walk.standing \subseteq walk.seen

(***************************************************************************)
(* The inductive invariant behind it.                                      *)
(***************************************************************************)

\* The rows of a table that ORDER BY puts before p wherever it puts the ties.
Newer(p, table) == {q \in table : createdAt[q] > createdAt[p]}

StandingAreRows == walk # NoWalk => walk.standing \subseteq rows[walk.tenant]

\* A row the walk should show and has not shown is behind its offset, and behind the
\* page unless it is on it: rows that are inserted only push it further back.
UnseenAreBehind ==
    walk # NoWalk /\ ~walk.removed /\ ~Tied(rows[walk.tenant]) =>
        \A p \in walk.standing \ walk.seen :
            LET before == Cardinality(Newer(p, rows[walk.tenant])) IN
              /\ walk.stage # "done"
              /\ before >= walk.offset
              /\ walk.stage = "count" /\ p \notin walk.page =>
                     before >= walk.offset + Cardinality(walk.page)

WalkInv == WalkTypeOK /\ StandingAreRows /\ UnseenAreBehind
==============================================================================
