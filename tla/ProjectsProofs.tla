--------------------------- MODULE ProjectsProofs ---------------------------
(* Proofs about Projects, for any project ids, requests, plans, caps and    *)
(* billing changes.                                                         *)
EXTENDS Projects, FiniteSetTheorems, TLAPS

\* No request has begun.
LEMMA InitIInv == Init => IInv
  BY ProjectAssumptions DEF Init, IInv, TypeOK, OpenIsSeen, TargetIsNamed, PlanIsRead, WriteWasAllowed, AllKinds

\* The inductive step: every step of a handler and every billing change keeps
\* IInv.
LEMMA NextKeepsIInv == IInv /\ [Next]_vars => IInv'
  <1> SUFFICES ASSUME IInv, [Next]_vars PROVE IInv'
    OBVIOUS
  <1>0. TypeOK /\ OpenIsSeen /\ TargetIsNamed /\ PlanIsRead /\ WriteWasAllowed
    BY DEF IInv
  <1> DEFINE Inv == TypeOK /\ OpenIsSeen /\ TargetIsNamed /\ PlanIsRead /\ WriteWasAllowed
  <1>1. ASSUME NEW p \in Requests, NEW k \in AllKinds, NEW i \in Ids,
               NEW s \in {"active", "archived"}, ArriveV1(p, k, i, s)
        PROVE  Inv'
    <2>1. Kinds \subseteq AllKinds
      BY ProjectAssumptions
    <2>2. TypeOK'
      BY <1>0, <1>1, <2>1 DEF TypeOK, AllKinds, ArriveV1, Go
    <2>3. OpenIsSeen' /\ TargetIsNamed' /\ PlanIsRead' /\ WriteWasAllowed'
      BY <1>0, <1>1 DEF TypeOK, OpenIsSeen, TargetIsNamed, PlanIsRead, WriteWasAllowed, AllKinds,
                       ArriveV1, Go
    <2> QED  BY <2>2, <2>3
  <1>2. ASSUME NEW p \in Requests, ArriveV2(p) PROVE Inv'
    <2>1. Kinds \subseteq AllKinds
      BY ProjectAssumptions
    <2>2. TypeOK'
      BY <1>0, <1>2, <2>1 DEF TypeOK, AllKinds, ArriveV2, Go
    <2>3. OpenIsSeen' /\ TargetIsNamed' /\ PlanIsRead' /\ WriteWasAllowed'
      BY <1>0, <1>2 DEF TypeOK, OpenIsSeen, TargetIsNamed, PlanIsRead, WriteWasAllowed, AllKinds,
                       ArriveV2, Go
    <2> QED  BY <2>2, <2>3
  <1>3. ASSUME NEW p \in Requests, ReadPlan(p) PROVE Inv'
    BY <1>0, <1>3, ProjectAssumptions
    DEF TypeOK, OpenIsSeen, TargetIsNamed, PlanIsRead, WriteWasAllowed, AllKinds, ReadPlan, Go
  <1>4. ASSUME NEW p \in Requests, Gate(p) PROVE Inv'
    BY <1>0, <1>4, ProjectAssumptions
    DEF TypeOK, OpenIsSeen, TargetIsNamed, PlanIsRead, WriteWasAllowed, AllKinds, Gate, WriteAllowed, Go
  <1>5. ASSUME NEW p \in Requests, CountOK(p) PROVE Inv'
    BY <1>0, <1>5, ProjectAssumptions
    DEF TypeOK, OpenIsSeen, TargetIsNamed, PlanIsRead, WriteWasAllowed, AllKinds, CountOK, Go
  <1>6. ASSUME NEW p \in Requests, Refuse(p) \/ CountFull(p) \/ Fail(p) PROVE Inv'
    <2>1. Reset(p) /\ UNCHANGED <<project, plan, status, changes, uncounted>>
      BY <1>6 DEF Refuse, CountFull, Fail
    <2>2. TypeOK'
      BY <1>0, <2>1, ProjectAssumptions DEF TypeOK, AllKinds, Reset
    <2>3. OpenIsSeen' /\ TargetIsNamed' /\ PlanIsRead' /\ WriteWasAllowed'
      BY <1>0, <2>1 DEF TypeOK, OpenIsSeen, TargetIsNamed, PlanIsRead, WriteWasAllowed, Reset
    <2> QED  BY <2>2, <2>3
  <1>7. ASSUME NEW p \in Requests, NEW i \in Ids, Create(p, i) PROVE Inv'
    BY <1>0, <1>7, ProjectAssumptions
    DEF TypeOK, OpenIsSeen, TargetIsNamed, PlanIsRead, WriteWasAllowed, AllKinds, Create, Reset
  <1>8. ASSUME NEW p \in Requests, Patch(p) PROVE Inv'
    BY <1>0, <1>8, ProjectAssumptions
    DEF TypeOK, OpenIsSeen, TargetIsNamed, PlanIsRead, WriteWasAllowed, AllKinds, Patch, Reset
  <1>9. ASSUME NEW p \in Requests, Delete(p) PROVE Inv'
    BY <1>0, <1>9, ProjectAssumptions
    DEF TypeOK, OpenIsSeen, TargetIsNamed, PlanIsRead, WriteWasAllowed, AllKinds, Delete, Reset
  <1>10. ASSUME NEW pl \in Plans, NEW st \in Statuses, BillingChange(pl, st) PROVE Inv'
    <2>1. TypeOK'
      BY <1>0, <1>10, ProjectAssumptions DEF TypeOK, BillingChange
    <2>2. \A p \in Requests :
            wasOpen'[p] = (wasOpen[p] \/ (step[p] # "idle" /\ status' \notin Blocked))
      BY <1>10 DEF BillingChange
    <2>3. OpenIsSeen' /\ TargetIsNamed' /\ PlanIsRead' /\ WriteWasAllowed'
      BY <1>0, <1>10, <2>2 DEF OpenIsSeen, TargetIsNamed, PlanIsRead, WriteWasAllowed, BillingChange
    <2> QED  BY <2>1, <2>3
  <1>11. ASSUME UNCHANGED vars PROVE Inv'
    BY <1>0, <1>11, ProjectAssumptions
    DEF TypeOK, OpenIsSeen, TargetIsNamed, PlanIsRead, WriteWasAllowed, AllKinds, vars, reqVars
  <1>12. Inv'
    BY <1>1, <1>2, <1>3, <1>4, <1>5, <1>6, <1>7, <1>8, <1>9, <1>10, <1>11 DEF Next, Handle
  <1> QED  BY <1>12 DEF IInv

\* The inductive invariant holds in every reachable state.
THEOREM Invariance == Spec => []IInv
  BY InitIInv, NextKeepsIInv, PTL DEF Spec

\* Every variable keeps its type.
THEOREM TypeCorrect == Spec => []TypeOK
  <1>1. IInv => TypeOK
    BY DEF IInv
  <1> QED  BY <1>1, Invariance, PTL

\* R11.1: a v1 write that commits was allowed at some moment of its request,
\* whatever webhooks commit between its gate and its COMMIT.
THEOREM WritesWereAllowed == Spec => []WriteWasAllowed
  <1>1. IInv => WriteWasAllowed
    BY DEF IInv
  <1> QED  BY <1>1, Invariance, PTL

\* There is a best cap.
LEMMA BestCap == MaxQuota \in Nat /\ \A pl \in Plans : Quota[pl] <= MaxQuota
  <1> DEFINE Caps == {Quota[pl] : pl \in Plans}
  <1>1. \E q \in Caps : \A pl \in Plans : Quota[pl] <= q
    BY ProjectAssumptions
  <1>2. MaxQuota \in Caps /\ \A pl \in Plans : Quota[pl] <= MaxQuota
    BY <1>1 DEF MaxQuota
  <1> QED  BY <1>2, ProjectAssumptions

\* The active projects that were counted in.
Counted == Active \ uncounted

\* What is counted can be counted.
CountsAreFinite ==
    /\ IsFiniteSet(Counted) /\ IsFiniteSet(Admitted)
    /\ Cardinality(Active) \in Nat /\ Cardinality(Counted) \in Nat
    /\ Cardinality(Admitted) \in Nat /\ Cardinality(Requests) \in Nat
    /\ Cardinality(Counted) <= Cardinality(Active)
    /\ Cardinality(Admitted) <= Cardinality(Requests)

\* What the overshoot counts is finite.
LEMMA FiniteCounts == CountsAreFinite
  <1>1. Active \in SUBSET Ids /\ Counted \in SUBSET Active /\ Admitted \in SUBSET Requests
    BY DEF Active, Counted, Admitted
  <1>2. IsFiniteSet(Active) /\ IsFiniteSet(Admitted)
    BY <1>1, FS_Subset, ProjectAssumptions
  <1>3. IsFiniteSet(Counted) /\ Cardinality(Counted) <= Cardinality(Active)
    BY <1>1, <1>2, FS_Subset
  <1>4. Cardinality(Admitted) <= Cardinality(Requests)
    BY <1>1, FS_Subset, ProjectAssumptions
  <1> QED  BY <1>2, <1>3, <1>4, FS_CardinalityType, ProjectAssumptions DEF CountsAreFinite

\* Only a count adds to what is counted and admitted: a create leaves Admitted
\* when its row appears, and nothing else adds to either.
LEMMA OnlyCountsAdd ==
    ASSUME TypeOK, [Next]_vars, ~\E p \in Requests : CountOK(p)
    PROVE  Cardinality(Counted)' + Cardinality(Admitted)'
                <= Cardinality(Counted) + Cardinality(Admitted)
  <1> DEFINE NoMore == Cardinality(Counted)' + Cardinality(Admitted)'
                            <= Cardinality(Counted) + Cardinality(Admitted)
  <1>a. CountsAreFinite /\ CountsAreFinite'
    BY FiniteCounts, PTL
  <1>1. ASSUME Counted' \subseteq Counted, Admitted' \subseteq Admitted PROVE NoMore
    <2>1. Cardinality(Counted') <= Cardinality(Counted)
          /\ Cardinality(Admitted') <= Cardinality(Admitted)
      BY <1>a, <1>1, FS_Subset DEF CountsAreFinite
    <2> QED  BY <1>a, <2>1 DEF CountsAreFinite
  <1>2. ASSUME NEW p \in Requests, NEW i \in Ids, Create(p, i) PROVE NoMore
    <2>1. CASE kind[p] = "create"
      <3>1. Admitted' = Admitted \ {p} /\ p \in Admitted
        BY <1>2, <2>1 DEF TypeOK, Create, Reset, Admitted
      <3>2. Cardinality(Admitted') = Cardinality(Admitted) - 1
        BY <1>a, <3>1, FS_RemoveElement DEF CountsAreFinite
      <3>3. Counted' \subseteq Counted \cup {i}
        BY <1>2, <2>1 DEF TypeOK, Create, Counted, Active
      <3>4. /\ IsFiniteSet(Counted \cup {i})
            /\ Cardinality(Counted \cup {i}) =
                    IF i \in Counted THEN Cardinality(Counted) ELSE Cardinality(Counted) + 1
        BY <1>a, FS_AddElement, Zenon DEF CountsAreFinite
      <3>5. Cardinality(Counted') <= Cardinality(Counted \cup {i})
        BY <3>3, <3>4, FS_Subset
      <3> QED  BY <1>a, <3>2, <3>4, <3>5 DEF CountsAreFinite
    <2>2. CASE kind[p] = "createV2"
      <3>1. Counted' \subseteq Counted
        BY <1>2, <2>2 DEF TypeOK, Create, Counted, Active
      <3>2. Admitted' \subseteq Admitted
        BY <1>2 DEF TypeOK, Create, Reset, Admitted
      <3> QED  BY <1>1, <3>1, <3>2
    <2> QED  BY <1>2, <2>1, <2>2 DEF Create
  <1>3. ASSUME NEW p \in Requests, Patch(p) \/ Delete(p) PROVE NoMore
    <2>1. Admitted' \subseteq Admitted
      BY <1>3 DEF TypeOK, Patch, Delete, Reset, Admitted
    <2>2. Counted' \subseteq Counted
      BY <1>3 DEF TypeOK, Patch, Delete, Counted, Active
    <2> QED  BY <1>1, <2>1, <2>2
  <1>4. ASSUME UNCHANGED <<project, uncounted>>, Admitted' \subseteq Admitted PROVE NoMore
    BY <1>1, <1>4 DEF Counted, Active
  <1>5. ASSUME NEW p \in Requests, Refuse(p) \/ CountFull(p) \/ Fail(p) PROVE NoMore
    <2>1. Admitted' \subseteq Admitted
      BY <1>5 DEF TypeOK, Refuse, CountFull, Fail, Reset, Admitted
    <2> QED  BY <1>4, <1>5, <2>1 DEF Refuse, CountFull, Fail
  <1>6. ASSUME NEW p \in Requests,
               \/ \E k \in AllKinds, i \in Ids, s \in {"active", "archived"} : ArriveV1(p, k, i, s)
               \/ ArriveV2(p) \/ ReadPlan(p) \/ Gate(p)
        PROVE  NoMore
    <2>1. Admitted' \subseteq Admitted
      BY <1>6 DEF TypeOK, ArriveV1, ArriveV2, ReadPlan, Gate, Go, Admitted
    <2> QED  BY <1>4, <1>6, <2>1 DEF ArriveV1, ArriveV2, ReadPlan, Gate
  <1>7. ASSUME (\E pl \in Plans, st \in Statuses : BillingChange(pl, st)) \/ UNCHANGED vars
        PROVE  NoMore
    <2>1. Admitted' = Admitted
      BY <1>7 DEF BillingChange, vars, reqVars, Admitted
    <2> QED  BY <1>4, <1>7, <2>1 DEF BillingChange, vars
  <1> QED  BY <1>2, <1>3, <1>5, <1>6, <1>7 DEF Next, Handle

\* A count lets its create in only while there is room under the cap.
LEMMA NextKeepsOvershoot ==
    ASSUME IInv, OvershootIsBounded, [Next]_vars
    PROVE  OvershootIsBounded'
  <1>0. TypeOK /\ PlanIsRead /\ MaxQuota' = MaxQuota
    BY DEF IInv, MaxQuota
  <1> DEFINE N == Cardinality(Requests)
  <1>a. CountsAreFinite /\ CountsAreFinite'
    BY FiniteCounts, PTL
  <1>b. MaxQuota \in Nat /\ Cardinality(Counted) + Cardinality(Admitted) < MaxQuota + N
    BY BestCap DEF OvershootIsBounded, Counted
  <1>1. ASSUME Cardinality(Counted)' + Cardinality(Admitted)' < MaxQuota + N
        PROVE  OvershootIsBounded'
    BY <1>0, <1>1 DEF OvershootIsBounded, Counted
  <1>2. ASSUME NEW p \in Requests, CountOK(p) PROVE OvershootIsBounded'
    <2>1. Counted' = Counted
      BY <1>2 DEF CountOK, Counted, Active
    <2>2. Quota[planRead[p]] \in Nat /\ Quota[planRead[p]] <= MaxQuota
      BY <1>0, <1>2, BestCap, ProjectAssumptions DEF PlanIsRead, CountOK
    <2>3. Cardinality(Counted) < MaxQuota
      BY <1>2, <1>a, <1>b, <2>2 DEF CountOK, Fits, CountsAreFinite
    <2> QED  BY <1>1, <1>a, <1>b, <2>1, <2>3 DEF CountsAreFinite
  <1>3. CASE ~\E p \in Requests : CountOK(p)
    <2>1. Cardinality(Counted)' + Cardinality(Admitted)'
                <= Cardinality(Counted) + Cardinality(Admitted)
      BY <1>0, <1>3, OnlyCountsAdd
    <2> QED  BY <1>1, <1>a, <1>b, <2>1 DEF CountsAreFinite
  <1> QED  BY <1>2, <1>3

\* R21.1 under concurrency: creates that count before each other's commit
\* overshoot the best cap by fewer than the requests in flight.
THEOREM OvershootsAreBounded == Spec => []OvershootIsBounded
  <1>1. Init => OvershootIsBounded
    <2> SUFFICES ASSUME Init PROVE OvershootIsBounded
      OBVIOUS
    <2>1. Active \ uncounted = {} /\ Admitted = {}
      BY DEF Init, Active, Admitted
    <2>2. Cardinality(Requests) \in Nat \ {0}
      BY ProjectAssumptions, FS_CardinalityType, FS_EmptySet
    <2> QED  BY <2>1, <2>2, BestCap, FS_EmptySet DEF OvershootIsBounded
  <1>2. IInv /\ OvershootIsBounded /\ [Next]_vars => OvershootIsBounded'
    BY NextKeepsOvershoot
  <1> QED  BY <1>1, <1>2, Invariance, PTL DEF Spec

-----------------------------------------------------------------------------
(* What keeps WithinQuota, which does not hold in general.                  *)

\* No two handlers are in flight at once.
OneAtATime == \A p, q \in Requests : step[p] # "idle" /\ step[q] # "idle" => p = q

\* The plan that a handler has read is the plan.
PlanIsFresh == \A p \in Requests : step[p] \in {"gate", "count"} => planRead[p] = plan

\* What is counted in, and who is about to be, fits under the cap.
CountedFits == Cardinality(Counted) + Cardinality(Admitted) <= Quota[plan]

\* While the plan stays, what was read of it stays true.
LEMMA FreshStep == TypeOK /\ PlanIsFresh /\ [Next]_vars /\ plan' = plan => PlanIsFresh'
  <1> SUFFICES ASSUME TypeOK, PlanIsFresh, [Next]_vars, plan' = plan PROVE PlanIsFresh'
    OBVIOUS
  <1>1. ASSUME NEW p \in Requests, Handle(p) PROVE PlanIsFresh'
    <2>1. \A q \in Requests \ {p} : step'[q] = step[q] /\ planRead'[q] = planRead[q]
      BY <1>1 DEF TypeOK, Handle, ArriveV1, ArriveV2, ReadPlan, Gate, Refuse, CountOK, CountFull,
                  Create, Patch, Delete, Fail, Go, Reset
    <2>2. step'[p] \in {"gate", "count"} => planRead'[p] = plan
      BY <1>1 DEF TypeOK, PlanIsFresh, Handle, ArriveV1, ArriveV2, ReadPlan, Gate, Refuse,
                  CountOK, CountFull, Create, Patch, Delete, Fail, Go, Reset
    <2> QED  BY <2>1, <2>2 DEF PlanIsFresh
  <1>2. CASE (\E pl \in Plans, st \in Statuses : BillingChange(pl, st)) \/ UNCHANGED vars
    BY <1>2 DEF PlanIsFresh, BillingChange, vars, reqVars
  <1> QED  BY <1>1, <1>2 DEF Next

\* A count made alone and against the plan is still true when its create commits.
LEMMA FitsStep ==
    ASSUME IInv, OneAtATime, PlanIsFresh, CountedFits, [Next]_vars, plan' = plan
    PROVE  CountedFits'
  <1>0. TypeOK /\ plan \in Plans /\ Quota[plan] \in Nat
    BY ProjectAssumptions DEF IInv, TypeOK
  <1>a. CountsAreFinite /\ CountsAreFinite'
    BY FiniteCounts, PTL
  <1>1. ASSUME NEW p \in Requests, CountOK(p) PROVE CountedFits'
    <2>1. Counted' = Counted /\ Cardinality(Counted) < Quota[plan]
      BY <1>0, <1>1, <1>a
      DEF CountOK, Counted, Active, Fits, PlanIsFresh, CountsAreFinite
    <2>2. Admitted' \subseteq {p}
      BY <1>0, <1>1 DEF TypeOK, CountOK, Go, OneAtATime, Admitted
    <2>3. IsFiniteSet({p}) /\ Cardinality({p}) = 1
      BY FS_Singleton
    <2>4. Cardinality(Admitted') <= 1
      BY <2>2, <2>3, FS_Subset
    <2> QED  BY <1>0, <1>a, <2>1, <2>4 DEF CountedFits, CountsAreFinite
  <1>2. CASE ~\E p \in Requests : CountOK(p)
    <2>1. Cardinality(Counted)' + Cardinality(Admitted)'
                <= Cardinality(Counted) + Cardinality(Admitted)
      BY <1>0, <1>2, OnlyCountsAdd
    <2> QED  BY <1>0, <1>a, <2>1 DEF CountedFits, CountsAreFinite
  <1> QED  BY <1>1, <1>2

\* R21.1, and what it takes: with requests one at a time and a plan that stays,
\* the cap holds whenever no active project came past the count.  So it is lost
\* in three ways only: overlapping creates, a smaller plan, and the routes that
\* count nothing (POST of v2, un-archiving).
THEOREM QuotaHoldsIfCounted ==
    Spec /\ []OneAtATime /\ [][plan' = plan]_vars => [](uncounted = {} => WithinQuota)
  <1>1. Init => PlanIsFresh /\ CountedFits
    <2> SUFFICES ASSUME Init PROVE PlanIsFresh /\ CountedFits
      OBVIOUS
    <2>1. Counted = {} /\ Admitted = {} /\ Quota[plan] \in Nat
      BY ProjectAssumptions DEF Init, Counted, Active, Admitted
    <2> QED  BY <2>1, FS_EmptySet DEF Init, PlanIsFresh, CountedFits
  <1>2. IInv /\ OneAtATime /\ PlanIsFresh /\ CountedFits /\ [Next]_vars /\ [plan' = plan]_vars
            => PlanIsFresh' /\ CountedFits'
    BY FreshStep, FitsStep DEF IInv, vars
  <1>3. IInv /\ CountedFits => (uncounted = {} => WithinQuota)
    <2> SUFFICES ASSUME IInv, CountedFits, uncounted = {} PROVE WithinQuota
      OBVIOUS
    <2>1. Counted = Active /\ Quota[plan] \in Nat
      BY ProjectAssumptions DEF IInv, TypeOK, Counted
    <2> QED  BY <2>1, FiniteCounts DEF CountedFits, WithinQuota, CountsAreFinite
  <1> QED  BY <1>1, <1>2, <1>3, Invariance, PTL DEF Spec
=============================================================================
