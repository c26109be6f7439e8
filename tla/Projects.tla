------------------------------ MODULE Projects ------------------------------
(* The projects of one tenant behind plan enforcement: the handlers of      *)
(* src/src/routes/v1/projects.routes.ts and v2/projects.routes.ts over      *)
(* projects.service.ts, with the gates of billing/enforcement.service.ts.   *)
(* TenantContext shows that another tenant neither reads nor writes here.   *)
(*                                                                          *)
(* A handler reads the plan, then the subscription status (two queries on   *)
(* the owner pool), then counts active projects in the request's own        *)
(* READ COMMITTED transaction, then writes, then commits; webhooks and      *)
(* other handlers run between any two of those.                             *)
EXTENDS Integers, FiniteSets

CONSTANTS
    Ids,          \* project rows
    Requests,     \* handlers in flight
    Kinds,        \* the write routes in use, a subset of AllKinds
    Plans,        \* plan names in organizations.plan
    Quota,        \* PROJECT_QUOTA: [Plans -> Nat], a cap no run reaches for null
    Statuses,     \* values of subscriptions.status
    MaxChanges,   \* bound: billing changes
    None

AllKinds == {"create", "createV2", "patch", "delete"}
Blocked  == {"past_due", "canceled"}

ASSUME ProjectAssumptions ==
    /\ Kinds \subseteq AllKinds
    /\ Quota \in [Plans -> Nat]
    /\ MaxChanges \in Nat
    /\ IsFiniteSet(Ids) /\ IsFiniteSet(Requests) /\ Requests # {}
    /\ \E top \in Plans : \A pl \in Plans : Quota[pl] <= Quota[top]
    /\ "active" \in Statuses
    /\ None \notin Plans \cup Ids

VARIABLES
    project,    \* [Ids -> {"none", "active", "archived"}]: committed status
    plan,       \* organizations.plan
    status,     \* status of the latest subscription, "active" without one
    changes,    \* billing changes so far
    step,       \* [Requests -> {"idle", "plan", "gate", "count", "write"}]
    kind,       \* [Requests -> AllKinds]: the route
    target,     \* [Requests -> Ids \cup {None}]: :id, or the row to insert
    to,         \* [Requests -> ...]: the status a PATCH sets
    planRead,   \* [Requests -> Plans \cup {None}]: what getBillingState returned
    wasOpen,    \* history: [Requests -> BOOLEAN], writes were allowed at some
                \*          moment since the request began
    uncounted   \* history: active projects that no quota check has counted in

reqVars == <<step, kind, target, to, planRead, wasOpen>>
vars    == <<project, plan, status, changes, reqVars, uncounted>>

TypeOK ==
    /\ project \in [Ids -> {"none", "active", "archived"}]
    /\ plan \in Plans
    /\ status \in Statuses
    /\ changes \in 0 .. MaxChanges
    /\ step \in [Requests -> {"idle", "plan", "gate", "count", "write"}]
    /\ kind \in [Requests -> AllKinds]
    /\ target \in [Requests -> Ids \cup {None}]
    /\ to \in [Requests -> {"active", "archived"}]
    /\ planRead \in [Requests -> Plans \cup {None}]
    /\ wasOpen \in [Requests -> BOOLEAN]
    /\ uncounted \in SUBSET Ids

Init ==
    /\ project = [i \in Ids |-> "none"]
    /\ plan \in Plans
    /\ status = "active"
    /\ changes = 0
    /\ step = [p \in Requests |-> "idle"]
    /\ kind = [p \in Requests |-> "create"]
    /\ target = [p \in Requests |-> None]
    /\ to = [p \in Requests |-> "active"]
    /\ planRead = [p \in Requests |-> None]
    /\ wasOpen = [p \in Requests |-> FALSE]
    /\ uncounted = {}

Active == {i \in Ids : project[i] = "active"}

\* The next thing request p does.
Go(p, s) == step' = [step EXCEPT ![p] = s]

\* The request is answered, or fails and rolls back.
Reset(p) ==
    /\ step' = [step EXCEPT ![p] = "idle"]
    /\ target' = [target EXCEPT ![p] = None]
    /\ planRead' = [planRead EXCEPT ![p] = None]
    /\ wasOpen' = [wasOpen EXCEPT ![p] = FALSE]
    /\ kind' = [kind EXCEPT ![p] = "create"]
    /\ to' = [to EXCEPT ![p] = "active"]

-----------------------------------------------------------------------------
\* A write route of v1 is called; enforcement comes first.
ArriveV1(p, k, i, s) ==
    /\ step[p] = "idle"
    /\ k \in Kinds \ {"createV2"}
    /\ s = "active" \/ k = "patch"
    /\ Go(p, "plan")
    /\ kind' = [kind EXCEPT ![p] = k]
    /\ target' = [target EXCEPT ![p] = IF k = "create" THEN None ELSE i]
    /\ to' = [to EXCEPT ![p] = s]
    /\ wasOpen' = [wasOpen EXCEPT ![p] = status \notin Blocked]
    /\ UNCHANGED <<project, plan, status, changes, planRead, uncounted>>

\* POST of v2: straight to the service.
ArriveV2(p) ==
    /\ step[p] = "idle"
    /\ "createV2" \in Kinds
    /\ Go(p, "write")
    /\ kind' = [kind EXCEPT ![p] = "createV2"]
    /\ wasOpen' = [wasOpen EXCEPT ![p] = status \notin Blocked]
    /\ UNCHANGED <<project, plan, status, changes, target, to, planRead, uncounted>>

\* getBillingState, first query: organizations.plan.
ReadPlan(p) ==
    /\ step[p] = "plan"
    /\ planRead' = [planRead EXCEPT ![p] = plan]
    /\ Go(p, "gate")
    /\ UNCHANGED <<project, plan, status, changes, kind, target, to, wasOpen, uncounted>>

\* Mutant of WriteAllowed: past_due is forgotten.
WriteAllowedPastDue(st) == st # "canceled"

\* assertWriteAllowed.
WriteAllowed(st) == st \notin Blocked

\* getBillingState, second query, and the 402 gate.
Gate(p) ==
    /\ step[p] = "gate"
    /\ WriteAllowed(status)
    /\ Go(p, IF kind[p] = "create" THEN "count" ELSE "write")
    /\ UNCHANGED <<project, plan, status, changes, kind, target, to, planRead, wasOpen, uncounted>>

\* 402.
Refuse(p) ==
    /\ step[p] = "gate"
    /\ ~WriteAllowed(status)
    /\ Reset(p)
    /\ UNCHANGED <<project, plan, status, changes, uncounted>>

\* Mutant of Fits: off by one.
FitsOneMore(p) == Cardinality(Active) <= Quota[planRead[p]]

\* assertProjectQuota: another active project fits under the cap.
Fits(p) == Cardinality(Active) < Quota[planRead[p]]

CountOK(p) ==
    /\ step[p] = "count"
    /\ Fits(p)
    /\ Go(p, "write")
    /\ UNCHANGED <<project, plan, status, changes, kind, target, to, planRead, wasOpen, uncounted>>

\* 403 QUOTA_EXCEEDED.
CountFull(p) ==
    /\ step[p] = "count"
    /\ ~Fits(p)
    /\ Reset(p)
    /\ UNCHANGED <<project, plan, status, changes, uncounted>>

\* createProject and COMMIT.
Create(p, i) ==
    /\ step[p] = "write"
    /\ kind[p] \in {"create", "createV2"}
    /\ project[i] = "none"
    /\ project' = [project EXCEPT ![i] = "active"]
    /\ uncounted' = IF kind[p] = "createV2" THEN uncounted \cup {i} ELSE uncounted
    /\ Reset(p)
    /\ UNCHANGED <<plan, status, changes>>

\* updateProject and COMMIT; no row: 404.
Patch(p) ==
    /\ step[p] = "write"
    /\ kind[p] = "patch"
    /\ project' = [project EXCEPT ![target[p]] = IF @ = "none" THEN @ ELSE to[p]]
    /\ uncounted' = IF project[target[p]] = "archived" /\ to[p] = "active"
                    THEN uncounted \cup {target[p]} ELSE uncounted
    /\ Reset(p)
    /\ UNCHANGED <<plan, status, changes>>

\* Mutant of Delete: a status the list of statuses does not know.
DeleteSoftly(p) ==
    /\ step[p] = "write"
    /\ kind[p] = "delete"
    /\ project' = [project EXCEPT ![target[p]] = "deleted"]
    /\ uncounted' = uncounted \ {target[p]}
    /\ Reset(p)
    /\ UNCHANGED <<plan, status, changes>>

\* deleteProject and COMMIT; no row: 404.
Delete(p) ==
    /\ step[p] = "write"
    /\ kind[p] = "delete"
    /\ project' = [project EXCEPT ![target[p]] = "none"]
    /\ uncounted' = uncounted \ {target[p]}
    /\ Reset(p)
    /\ UNCHANGED <<plan, status, changes>>

\* A query fails or the process dies: ROLLBACK.
Fail(p) ==
    /\ step[p] # "idle"
    /\ Reset(p)
    /\ UNCHANGED <<project, plan, status, changes, uncounted>>

\* A webhook commits a new plan and subscription status.
BillingChange(pl, st) ==
    /\ changes < MaxChanges
    /\ changes' = changes + 1
    /\ plan' = pl
    /\ status' = st
    /\ wasOpen' = [p \in Requests |->
            wasOpen[p] \/ (step[p] # "idle" /\ st \notin Blocked)]
    /\ UNCHANGED <<project, step, kind, target, to, planRead, uncounted>>

Handle(p) ==
    \/ \E k \in AllKinds, i \in Ids, s \in {"active", "archived"} : ArriveV1(p, k, i, s)
    \/ ArriveV2(p)
    \/ ReadPlan(p)
    \/ Gate(p) \/ Refuse(p)
    \/ CountOK(p) \/ CountFull(p)
    \/ \E i \in Ids : Create(p, i)
    \/ Patch(p) \/ Delete(p)
    \/ Fail(p)

Next ==
    \/ \E p \in Requests : Handle(p)
    \/ \E pl \in Plans, st \in Statuses : BillingChange(pl, st)

Spec == Init /\ [][Next]_vars

-----------------------------------------------------------------------------
(* Properties.                                                              *)

\* Creates of v1 that have passed the quota check and have yet to commit.
Admitted == {p \in Requests : step[p] = "write" /\ kind[p] = "create"}

MaxQuota == CHOOSE q \in {Quota[pl] : pl \in Plans} : \A pl \in Plans : Quota[pl] <= q

\* How far concurrent creates can overshoot: together with the creates that
\* hold a stale count, the active projects that were counted in exceed the best
\* cap by fewer than the requests in flight (R21.1).
OvershootIsBounded ==
    Cardinality(Active \ uncounted) + Cardinality(Admitted) < MaxQuota + Cardinality(Requests)

\* A write of v1 commits only if the subscription allowed writes at some moment
\* of the request: the status that the gate has read may be stale when the
\* write commits, but never from before the request (R11.1).
WriteWasAllowed ==
    \A p \in Requests : step[p] \in {"count", "write"} /\ kind[p] # "createV2" => wasOpen[p]

\* The strengthening that makes WriteWasAllowed inductive: what is writable now
\* has been so within the request.
OpenIsSeen == \A p \in Requests : step[p] # "idle" /\ status \notin Blocked => wasOpen[p]

\* A PATCH or DELETE in flight names the row it is for.
TargetIsNamed ==
    \A p \in Requests : step[p] # "idle" /\ kind[p] \in {"patch", "delete"} => target[p] \in Ids

\* A count is held against the plan that was read.
PlanIsRead == \A p \in Requests : step[p] \in {"gate", "count"} => planRead[p] \in Plans

IInv == TypeOK /\ OpenIsSeen /\ TargetIsNamed /\ PlanIsRead /\ WriteWasAllowed

\* R21.1 read literally, while the plan never changes: the active projects stay
\* within the plan's cap.
WithinQuota == Cardinality(Active) <= Quota[plan]
=============================================================================
