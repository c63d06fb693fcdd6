-------------------------- MODULE RateLimiter_proofs --------------------------
(***************************************************************************)
(* The rate limit is exceeded by the requests in flight at most: for any   *)
(* number of requests, any limit and window, and with commands that fail.  *)
(* The argument counts members and the requests past the count together:   *)
(* a request gets past the count only while there are fewer members than   *)
(* the limit and at most MaxInFlight - 1 others are past it.  And nobody   *)
(* is refused for old members: those that are late for a request were in   *)
(* flight with it when the set was trimmed, hence as few.                  *)
(***************************************************************************)
EXTENDS RateLimiter, FiniteSetTheorems, TLAPS

\* All the sets that are counted are finite, before and after a step.
LEMMA SetsAreFinite ==
    ASSUME NEW S \in SUBSET Requests
    PROVE  IsFiniteSet(S) /\ Cardinality(S) \in Nat
  BY FS_Subset, FS_CardinalityType, LimiterAssumption

\* A set is no larger than one it is part of.
LEMMA SubsetIsSmaller ==
    ASSUME NEW S \in SUBSET Requests, NEW T \in SUBSET S
    PROVE  Cardinality(T) <= Cardinality(S)
  BY SetsAreFinite, FS_Subset

\* At first there is no member and no request.
LEMMA LimiterInit == Init => LimiterInv
<1> SUFFICES ASSUME Init PROVE LimiterInv OBVIOUS
<1>1. TypeOK BY DEF Init, TypeOK, Stages
<1>2. InFlight = {} /\ members \cup Adding = {} BY DEF Init, InFlight, Running, Adding
<1>3. Cardinality(InFlight) = 0 /\ Cardinality(members \cup Adding) = 0 BY <1>2, FS_EmptySet
<1>4. StagesAgree BY <1>3, LimiterAssumption DEF Init, StagesAgree
<1>5. SetIsBounded BY <1>3, LimiterAssumption DEF SetIsBounded
<1>6. AdmittedAreMembers BY DEF Init, AdmittedAreMembers
<1>7. LateWereInFlight BY DEF Init, LateWereInFlight
<1> QED BY <1>1, <1>4, <1>5, <1>6, <1>7 DEF LimiterInv

\* Every command and the clock preserve the types.
LEMMA StepKeepsTypes ==
    ASSUME TypeOK, Tick \/ \E r \in Requests : Allow(r)
    PROVE  TypeOK'
<1> USE LimiterAssumption DEF TypeOK, Stages, Running, Goto, Keep
<1>1. CASE Tick BY <1>1 DEF Tick
<1>2. ASSUME NEW r \in Requests, Allow(r) PROVE TypeOK'
  <2>1. CASE Start(r) BY <2>1 DEF Start
  <2>2. CASE Trim(r) BY <2>2 DEF Trim
  <2>3. CASE Count(r) BY <2>3 DEF Count
  <2>4. CASE Add(r) BY <2>4 DEF Add
  <2>5. CASE Expire(r) BY <2>5 DEF Expire
  <2> QED BY <1>2, <2>1, <2>2, <2>3, <2>4, <2>5 DEF Allow
<1> QED BY <1>1, <1>2

\* Only Start puts a request in flight, and only below the bound.
LEMMA FlightsAreBounded ==
    ASSUME TypeOK, Cardinality(InFlight) <= MaxInFlight,
           NEW r \in Requests, Allow(r)
    PROVE  Cardinality(InFlight') <= MaxInFlight
<1>0. InFlight \in SUBSET Requests /\ InFlight' \in SUBSET Requests BY DEF InFlight
<1>1. CASE Start(r)
  <2>1. InFlight' = InFlight \cup {r} BY <1>1 DEF Start, Goto, InFlight, Running, TypeOK
  <2>2. IsFiniteSet(InFlight) BY <1>0, SetsAreFinite
  <2>3. r \notin InFlight BY <1>1 DEF Start, InFlight, Running
  <2>4. Cardinality(InFlight') = Cardinality(InFlight) + 1
    BY <2>1, <2>2, <2>3, FS_AddElement
  <2> QED BY <1>0, <1>1, <2>4, SetsAreFinite, LimiterAssumption DEF Start
<1>2. CASE ~Start(r)
  <2>1. InFlight' \subseteq InFlight
    BY <1>2 DEF Allow, Trim, Count, Add, Expire, Goto, InFlight, Running, TypeOK
  <2>2. Cardinality(InFlight') <= Cardinality(InFlight) BY <1>0, <2>1, SubsetIsSmaller
  <2> QED BY <1>0, <2>2, SetsAreFinite, LimiterAssumption
<1> QED BY <1>1, <1>2

\* A request that passes the count joins fewer than Limit members and at most
\* MaxInFlight - 1 others that passed it.
LEMMA PassingIsBounded ==
    ASSUME LimiterInv, NEW r \in Requests, Count(r)
    PROVE  SetIsBounded'
<1> USE DEF LimiterInv, TypeOK
<1>0. /\ Adding \in SUBSET Requests /\ Adding' \in SUBSET Requests /\ members \in SUBSET Requests
      /\ InFlight \in SUBSET Requests /\ members' = members
  BY DEF Adding, InFlight, Count
<1>1. CASE Cardinality(members) < Limit
  <2>1. Adding \cup {r} \subseteq InFlight /\ r \notin Adding /\ Adding' \subseteq Adding \cup {r}
    BY DEF Count, Goto, Adding, InFlight, Running
  <2>2. Cardinality(Adding') <= MaxInFlight
    <3>1. Adding' \in SUBSET InFlight BY <2>1
    <3>2. Cardinality(Adding') <= Cardinality(InFlight) BY <1>0, <3>1, SubsetIsSmaller
    <3> QED BY <1>0, <3>2, SetsAreFinite, LimiterAssumption DEF StagesAgree
  <2>3. Cardinality(members \cup Adding') <= Cardinality(members) + Cardinality(Adding')
    <3>1. /\ Cardinality(members \cup Adding') =
               Cardinality(members) + Cardinality(Adding') - Cardinality(members \cap Adding')
      BY <1>0, SetsAreFinite, FS_Union
    <3>2. Cardinality(members \cap Adding') \in Nat BY <1>0, SetsAreFinite
    <3> QED BY <1>0, <3>1, <3>2, SetsAreFinite
  <2> QED BY <1>0, <1>1, <2>2, <2>3, SetsAreFinite, LimiterAssumption DEF SetIsBounded
<1>2. CASE ~(Cardinality(members) < Limit)
  <2>1. Adding' \subseteq Adding
    BY <1>0, <1>2, SetsAreFinite, LimiterAssumption DEF Count, Goto, Adding
  <2>2. Cardinality(members \cup Adding') <= Cardinality(members \cup Adding)
    BY <1>0, <2>1, SubsetIsSmaller
  <2> QED BY <1>0, <2>2, SetsAreFinite, LimiterAssumption DEF SetIsBounded
<1> QED BY <1>1, <1>2

\* No other command and no tick adds to the members and those past the count.
LEMMA SetStaysBounded ==
    ASSUME LimiterInv, Tick \/ \E r \in Requests : Allow(r)
    PROVE  SetIsBounded'
<1> USE DEF LimiterInv, TypeOK
<1>1. ASSUME NEW r \in Requests, Count(r) PROVE SetIsBounded' BY <1>1, PassingIsBounded
<1>2. ASSUME ~\E r \in Requests : Count(r) PROVE SetIsBounded'
  <2>1. members' \cup Adding' \subseteq members \cup Adding
    <3>1. CASE Tick BY <3>1 DEF Tick, Keep, Adding
    <3>2. ASSUME NEW r \in Requests, Allow(r) PROVE members' \cup Adding' \subseteq members \cup Adding
      <4>1. CASE Start(r) BY <4>1 DEF Start, Goto, Adding
      <4>2. CASE Trim(r) BY <4>2 DEF Trim, Keep, Goto, Adding
      <4>3. CASE Add(r) BY <4>3 DEF Add, Keep, Goto, Adding
      <4>4. CASE Expire(r) BY <4>4 DEF Expire, Goto, Adding
      <4> QED BY <1>2, <3>2, <4>1, <4>2, <4>3, <4>4 DEF Allow
    <3> QED BY <3>1, <3>2
  <2>2. members \cup Adding \in SUBSET Requests BY DEF Adding
  <2>3. Cardinality(members' \cup Adding') <= Cardinality(members \cup Adding)
    BY <2>1, <2>2, SubsetIsSmaller
  <2>4. (members \cup Adding)' \in SUBSET Requests BY <2>1, <2>2
  <2> QED BY <2>2, <2>3, <2>4, SetsAreFinite, LimiterAssumption DEF SetIsBounded
<1> QED BY <1>1, <1>2

\* Times have been, and members went through ZADD.
LEMMA StagesStayAgreed ==
    ASSUME LimiterInv, Tick \/ \E r \in Requests : Allow(r)
    PROVE  StagesAgree'
<1> USE DEF LimiterInv, TypeOK
<1>1. CASE Tick
  <2>1. InFlight' = InFlight BY <1>1 DEF Tick, InFlight
  <2>2. members' \subseteq members /\ stage' = stage /\ time' = time /\ clock' = clock + 1
    BY <1>1 DEF Tick, Keep
  <2> QED BY <2>1, <2>2 DEF StagesAgree
<1>2. ASSUME NEW r \in Requests, Allow(r) PROVE StagesAgree'
  <2>1. Cardinality(InFlight') <= MaxInFlight BY <1>2, FlightsAreBounded DEF StagesAgree
  <2>2. \A q \in Requests : time'[q] <= clock'
    BY <1>2 DEF Allow, Start, Trim, Count, Add, Expire, StagesAgree
  <2>3. \A q \in members' : stage'[q] \in {"expire", "admitted", "failed"}
    <3> USE DEF StagesAgree, Goto, Keep
    <3>1. CASE Start(r) BY <3>1 DEF Start
    <3>2. CASE Trim(r) BY <3>2 DEF Trim
    <3>3. CASE Count(r) BY <3>3 DEF Count
    <3>4. CASE Add(r) BY <3>4 DEF Add
    <3>5. CASE Expire(r) BY <3>5 DEF Expire
    <3> QED BY <1>2, <3>1, <3>2, <3>3, <3>4, <3>5 DEF Allow
  <2> QED BY <2>1, <2>2, <2>3 DEF StagesAgree
<1> QED BY <1>1, <1>2

\* What is trimmed or expires has left the window, and a member's key lives as long as it.
LEMMA AdmittedStayMembers ==
    ASSUME LimiterInv, Tick \/ \E r \in Requests : Allow(r)
    PROVE  AdmittedAreMembers'
<1> USE LimiterAssumption DEF LimiterInv, TypeOK, StagesAgree, AdmittedAreMembers, InWindow, Goto, Keep
<1>1. CASE Tick BY <1>1 DEF Tick
<1>2. ASSUME NEW r \in Requests, Allow(r) PROVE AdmittedAreMembers'
  <2>1. CASE Start(r) BY <2>1 DEF Start
  <2>2. CASE Trim(r) BY <2>2 DEF Trim
  <2>3. CASE Count(r) BY <2>3 DEF Count
  <2>4. CASE Add(r) BY <2>4 DEF Add
  <2>5. CASE Expire(r) BY <2>5 DEF Expire
  <2> QED BY <1>2, <2>1, <2>2, <2>3, <2>4, <2>5 DEF Allow
<1> QED BY <1>1, <1>2

\* The trim for a request leaves no late member, and whoever may still become one is
\* another request in flight.
LEMMA TrimLeavesFewLate ==
    ASSUME LimiterInv, NEW r \in Requests, Trim(r), stage'[r] = "count"
    PROVE  Cardinality(Late(r)') <= MaxInFlight - 1
<1> USE DEF LimiterInv, TypeOK
<1>0. InFlight \in SUBSET Requests /\ Late(r)' \in SUBSET Requests BY DEF InFlight, Late
<1>1. members' = {q \in members : time[q] + Window > time[r]} /\ time' = time
  BY DEF Trim, Goto, Keep
<1>2. \A q \in Requests : q # r => stage'[q] = stage[q] BY DEF Trim, Goto
<1>3. r \in InFlight BY DEF Trim, InFlight, Running
<1>4. r \notin Late(r)' BY <1>1, LimiterAssumption DEF Late
<1>5. Late(r)' \subseteq InFlight \ {r}
  BY <1>1, <1>2, <1>4, LimiterAssumption DEF Late, InFlight, Running
<1>6. IsFiniteSet(InFlight) /\ Cardinality(InFlight) \in Nat BY <1>0, SetsAreFinite
<1>7. Cardinality(InFlight \ {r}) = Cardinality(InFlight) - 1 BY <1>3, <1>6, FS_RemoveElement
<1>8. Cardinality(Late(r)') <= Cardinality(InFlight \ {r}) BY <1>0, <1>5, SubsetIsSmaller
<1> QED BY <1>0, <1>6, <1>7, <1>8, SetsAreFinite, LimiterAssumption DEF StagesAgree

\* After it, nobody becomes late for r: new requests have newer times.
LEMMA NobodyGetsLate ==
    ASSUME LimiterInv, Tick \/ \E q \in Requests : Allow(q),
           NEW r \in Requests, stage[r] = "count", stage'[r] = "count"
    PROVE  Late(r)' \subseteq Late(r)
<1> USE LimiterAssumption DEF LimiterInv, TypeOK, StagesAgree, Late, Goto, Keep
<1>1. CASE Tick BY <1>1 DEF Tick
<1>2. ASSUME NEW q \in Requests, Allow(q) PROVE Late(r)' \subseteq Late(r)
  <2>1. CASE Start(q)
    <3>1. q # r /\ time'[q] = clock /\ time'[r] = time[r] /\ time[r] <= clock
      BY <2>1 DEF Start
    <3>2. q \notin Late(r)' BY <3>1
    <3>3. \A p \in Requests \ {q} : time'[p] = time[p] /\ stage'[p] = stage[p]
      BY <2>1 DEF Start
    <3>4. members' = members BY <2>1 DEF Start
    <3> QED BY <3>1, <3>2, <3>3, <3>4
  <2>2. CASE Trim(q) BY <2>2 DEF Trim
  <2>3. CASE Count(q) BY <2>3 DEF Count
  <2>4. CASE Add(q) BY <2>4 DEF Add
  <2>5. CASE Expire(q) BY <2>5 DEF Expire
  <2> QED BY <1>2, <2>1, <2>2, <2>3, <2>4, <2>5 DEF Allow
<1> QED BY <1>1, <1>2

\* Hence the late stay as few as the others in flight.
LEMMA LateStayBounded ==
    ASSUME LimiterInv, Tick \/ \E r \in Requests : Allow(r)
    PROVE  LateWereInFlight'
<1> SUFFICES ASSUME NEW r \in Requests, stage'[r] = "count"
             PROVE  Cardinality(Late(r)') <= MaxInFlight - 1
  BY DEF LateWereInFlight, Late
<1>1. CASE stage[r] = "count"
  <2>1. Late(r)' \subseteq Late(r) BY <1>1, NobodyGetsLate
  <2>2. Late(r) \in SUBSET Requests /\ Late(r)' \in SUBSET Requests BY DEF Late
  <2>3. Cardinality(Late(r)') <= Cardinality(Late(r)) BY <2>1, <2>2, SubsetIsSmaller
  <2>4. Cardinality(Late(r)) <= MaxInFlight - 1 BY <1>1 DEF LimiterInv, LateWereInFlight
  <2> QED BY <2>2, <2>3, <2>4, SetsAreFinite, LimiterAssumption
<1>2. CASE stage[r] # "count"
  <2>1. Trim(r)
    BY <1>2 DEF Tick, Allow, Start, Trim, Count, Add, Expire, Goto, LimiterInv, TypeOK
  <2> QED BY <2>1, TrimLeavesFewLate
<1> QED BY <1>1, <1>2

\* LimiterInv holds in every reachable state: it is inductive.
THEOREM LimiterInvariant == Spec => []LimiterInv
<1>1. LimiterInv /\ [Next]_vars => LimiterInv'
  <2> SUFFICES ASSUME LimiterInv, [Next]_vars PROVE LimiterInv' OBVIOUS
  <2>1. CASE Next
    <3>1. TypeOK' BY <2>1, StepKeepsTypes DEF Next, LimiterInv
    <3>2. SetIsBounded' /\ StagesAgree' /\ AdmittedAreMembers' /\ LateWereInFlight'
      BY <2>1, SetStaysBounded, StagesStayAgreed, AdmittedStayMembers, LateStayBounded DEF Next
    <3> QED BY <3>1, <3>2 DEF LimiterInv
  <2>2. CASE UNCHANGED vars
    BY <2>2 DEF vars, LimiterInv, TypeOK, StagesAgree, InFlight, SetIsBounded, Adding,
                AdmittedAreMembers, InWindow, LateWereInFlight, Late
  <2> QED BY <2>1, <2>2
<1> QED BY <1>1, LimiterInit, PTL DEF Spec

\* No window has more admitted requests than the limit and those in flight account for.
THEOREM LimitHolds == Spec => []AdmissionsAreBounded
<1>1. LimiterInv => AdmissionsAreBounded
  <2> SUFFICES ASSUME LimiterInv PROVE AdmissionsAreBounded OBVIOUS
  <2>1. Admitted \subseteq members \cup Adding
    BY DEF Admitted, LimiterInv, AdmittedAreMembers
  <2>2. members \cup Adding \in SUBSET Requests BY DEF LimiterInv, TypeOK, Adding
  <2>3. Cardinality(Admitted) <= Cardinality(members \cup Adding) BY <2>1, <2>2, SubsetIsSmaller
  <2>4. Admitted \in SUBSET Requests BY DEF Admitted
  <2> QED BY <2>2, <2>3, <2>4, SetsAreFinite, LimiterAssumption
          DEF AdmissionsAreBounded, LimiterInv, SetIsBounded
<1> QED BY <1>1, LimiterInvariant, PTL

\* Nobody is refused for members that have left the window or should have expired: those
\* that count against a request but for the late ones are of its own window.
THEOREM RefusalsAreEarned == Spec => RefusedOnlyAtLimit
<1> DEFINE Fresh(r) == {q \in Requests : /\ stage[q] \in {"expire", "admitted", "failed"}
                                         /\ time[q] + Window > time[r]}
           Earned == \A r \in Requests : stage[r] = "count" /\ stage'[r] = "refused" =>
                         Cardinality(Fresh(r)) + (MaxInFlight - 1) >= Limit
<1>1. LimiterInv /\ [Next]_vars => [Earned]_vars
  <2> SUFFICES ASSUME LimiterInv, [Next]_vars,
                      NEW r \in Requests, stage[r] = "count", stage'[r] = "refused"
               PROVE  Cardinality(Fresh(r)) + (MaxInFlight - 1) >= Limit
    OBVIOUS
  <2>1. Count(r)
    BY DEF Next, vars, Tick, Allow, Start, Trim, Count, Add, Expire, Goto, LimiterInv, TypeOK
  <2>2. Cardinality(members) >= Limit
    BY <2>1 DEF Count, Goto, LimiterInv, TypeOK
  <2>3. members \subseteq Fresh(r) \cup Late(r)
    BY LimiterAssumption DEF Late, LimiterInv, TypeOK, StagesAgree
  <2>4. /\ members \in SUBSET Requests /\ Fresh(r) \in SUBSET Requests /\ Late(r) \in SUBSET Requests
        /\ Fresh(r) \cup Late(r) \in SUBSET Requests /\ Fresh(r) \cap Late(r) \in SUBSET Requests
    BY DEF Late, LimiterInv, TypeOK
  <2>5. Cardinality(Late(r)) <= MaxInFlight - 1
    BY DEF LimiterInv, LateWereInFlight
  <2> HIDE DEF Fresh
  <2>6. Cardinality(members) <= Cardinality(Fresh(r) \cup Late(r))
    BY <2>3, <2>4, SubsetIsSmaller
  <2>7. Cardinality(Fresh(r) \cup Late(r)) =
            Cardinality(Fresh(r)) + Cardinality(Late(r)) - Cardinality(Fresh(r) \cap Late(r))
    BY <2>4, SetsAreFinite, FS_Union
  <2> QED BY <2>2, <2>4, <2>5, <2>6, <2>7, SetsAreFinite, LimiterAssumption
<1> QED BY <1>1, LimiterInvariant, PTL DEF Spec, RefusedOnlyAtLimit
==============================================================================
