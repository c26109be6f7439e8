---------------------------- MODULE TenantStore ----------------------------
(* What the request path promises about tenant data, with no connection,   *)
(* transaction or policy in sight: every tenant has a store of its own, a   *)
(* request works for at most one tenant, and answering it applies all the   *)
(* changes it has asked for to the store of that one tenant, or none, in a  *)
(* single step.  None although the answer is "ok" only if its session was   *)
(* lost before that.                                                        *)
(* Requirements R6.4, R6.6 and R6.7 of                                      *)
(* src/.kiro/specs/tenantforge/requirements.md say this in prose.           *)
CONSTANTS Requests, Tenants, NoTenant, RowIds

VARIABLES
    store,    \* [Tenants -> SUBSET RowIds]: the committed rows of each tenant
    actsFor,  \* [Requests -> Tenants \cup {NoTenant}]: whom a request acts for
    draft,    \* [Requests -> SUBSET Change]: what it has asked for so far
    fate,     \* [Requests -> {"open", "lost", "failed"}]: what can become of that
    answer    \* [Requests -> {"none", "ok", "error"}]: what the client was told

vars == <<store, actsFor, draft, fate, answer>>

Change == [op : {"insert", "update", "delete"}, id : RowIds]

\* The rows that a set of changes leaves of ids.
Applied(ids, changes) ==
    (ids \cup {c.id : c \in {x \in changes : x.op = "insert"}})
        \ {c.id : c \in {x \in changes : x.op = "delete"}}

Init ==
    /\ store = [t \in Tenants |-> {}]
    /\ actsFor = [r \in Requests |-> NoTenant]
    /\ draft = [r \in Requests |-> {}]
    /\ fate = [r \in Requests |-> "open"]
    /\ answer = [r \in Requests |-> "none"]

\* A request is authenticated: from now on it acts for that tenant alone.
Adopt(r, t) ==
    /\ answer[r] = "none" /\ fate[r] = "open"
    /\ actsFor[r] = NoTenant
    /\ actsFor' = [actsFor EXCEPT ![r] = t]
    /\ UNCHANGED <<store, draft, fate, answer>>

\* It asks for a change, which nobody else can see yet.
Ask(r, c) ==
    /\ answer[r] = "none" /\ fate[r] = "open"
    /\ actsFor[r] \in Tenants
    /\ draft' = [draft EXCEPT ![r] = @ \cup {c}]
    /\ UNCHANGED <<store, actsFor, fate, answer>>

\* Its session is lost, and what it has asked for with it; nobody notices yet.
Lose(r) ==
    /\ answer[r] = "none" /\ fate[r] = "open"
    /\ fate' = [fate EXCEPT ![r] = "lost"]
    /\ draft' = [draft EXCEPT ![r] = {}]
    /\ UNCHANGED <<store, actsFor, answer>>

\* It is refused or fails: only an error can be its answer now.
GiveUp(r) ==
    /\ answer[r] = "none" /\ fate[r] # "failed"
    /\ fate' = [fate EXCEPT ![r] = "failed"]
    /\ draft' = [draft EXCEPT ![r] = {}]
    /\ UNCHANGED <<store, actsFor, answer>>

\* A success makes every change at once, to the request's own tenant.
Succeed(r) ==
    /\ answer[r] = "none" /\ fate[r] # "failed"
    /\ actsFor[r] \in Tenants
    /\ store' = [store EXCEPT ![actsFor[r]] = Applied(@, draft[r])]
    /\ answer' = [answer EXCEPT ![r] = "ok"]
    /\ draft' = [draft EXCEPT ![r] = {}]
    /\ fate' = [fate EXCEPT ![r] = "open"]
    /\ UNCHANGED actsFor

\* A failure changes nothing.
Fail(r) ==
    /\ answer[r] = "none" /\ fate[r] = "failed"
    /\ answer' = [answer EXCEPT ![r] = "error"]
    /\ UNCHANGED <<store, actsFor, draft, fate>>

\* The answer is out; the next request starts with no tenant.
Restart(r) ==
    /\ answer[r] # "none"
    /\ answer' = [answer EXCEPT ![r] = "none"]
    /\ actsFor' = [actsFor EXCEPT ![r] = NoTenant]
    /\ draft' = [draft EXCEPT ![r] = {}]
    /\ fate' = [fate EXCEPT ![r] = "open"]
    /\ UNCHANGED store

Next ==
    \E r \in Requests :
        \/ \E t \in Tenants : Adopt(r, t)
        \/ \E c \in Change : Ask(r, c)
        \/ Lose(r) \/ GiveUp(r)
        \/ Succeed(r)
        \/ Fail(r)
        \/ Restart(r)

Spec == Init /\ [][Next]_vars
=============================================================================
