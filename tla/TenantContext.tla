--------------------------- MODULE TenantContext ---------------------------
(* The tenant-scoped request path: makeAuthenticate and makeWithTenant of   *)
(* src/src/middleware/tenant.ts, the pool of app-role connections they      *)
(* share, and the row-level-security policies of src/src/db/rls.ts that     *)
(* decide what a statement on such a connection sees and may write.         *)
(*                                                                          *)
(* A request runs through the Fastify hooks and its handler; it awaits      *)
(* between any two actions below, so the actions of different requests      *)
(* interleave.  A transaction runs at READ COMMITTED, keeps its writes in   *)
(* pend until COMMIT, and its rows of all eight tenant-scoped tables are    *)
(* one set: every one of them carries the same two policies.                *)
CONSTANTS
    Requests,    \* the requests in flight: each serves one after the other
    Conns,       \* the slots of the app-role pool
    Tenants,
    RowIds,      \* primary keys: random UUIDs, never used twice
    NoTenant,    \* no tenant: req.auth unset, or the setting empty
    NoConn,      \* req.db undefined
    Nobody       \* a connection in the idle pool

ASSUME NullsAreNotValues ==
    /\ NoTenant \notin Tenants
    /\ NoConn \notin Conns
    /\ Nobody \notin Requests

VARIABLES
    phase,      \* [Requests -> Phases]: the hook the request has reached
    tenant,     \* [Requests -> Tenants \cup {NoTenant}]: req.auth.tenantId
    client,     \* [Requests -> Conns \cup {NoConn}]: the client it refers to
    status,     \* [Requests -> {"none", "ok", "error"}]: reply.statusCode
    seen,       \* [Requests -> SUBSET Tenants]: whose rows it has read
    holder,     \* [Conns -> Requests \cup {Nobody}]: who checked it out
    alive,      \* [Conns -> BOOLEAN]: the server still serves this session
    inTx,       \* [Conns -> BOOLEAN]: a transaction block is open
    setting,    \* [Conns -> Tenants \cup {NoTenant}]: app.current_tenant_id
    pend,       \* [Conns -> SUBSET Write]: uncommitted writes
    rows,       \* SUBSET Row: what is committed
    cancelled   \* SUBSET Tenants: organizations.deleted_at IS NOT NULL

reqVars  == <<phase, tenant, client, status, seen>>
connVars == <<holder, alive, inTx, setting, pend>>
vars     == <<reqVars, connVars, rows, cancelled>>

Phases == {"new", "authed", "connected", "bound", "handling", "replying", "sent"}
Row    == [id : RowIds, tenant : Tenants]
Write  == [op : {"insert", "update", "delete"}, row : Row]

TypeOK ==
    /\ phase \in [Requests -> Phases]
    /\ tenant \in [Requests -> Tenants \cup {NoTenant}]
    /\ client \in [Requests -> Conns \cup {NoConn}]
    /\ status \in [Requests -> {"none", "ok", "error"}]
    /\ seen \in [Requests -> SUBSET Tenants]
    /\ holder \in [Conns -> Requests \cup {Nobody}]
    /\ alive \in [Conns -> BOOLEAN]
    /\ inTx \in [Conns -> BOOLEAN]
    /\ setting \in [Conns -> Tenants \cup {NoTenant}]
    /\ pend \in [Conns -> SUBSET Write]
    /\ rows \in SUBSET Row
    /\ cancelled \in SUBSET Tenants

Init ==
    /\ phase = [r \in Requests |-> "new"]
    /\ tenant = [r \in Requests |-> NoTenant]
    /\ client = [r \in Requests |-> NoConn]
    /\ status = [r \in Requests |-> "none"]
    /\ seen = [r \in Requests |-> {}]
    /\ holder = [c \in Conns |-> Nobody]
    /\ alive = [c \in Conns |-> TRUE]
    /\ inTx = [c \in Conns |-> FALSE]
    /\ setting = [c \in Conns |-> NoTenant]
    /\ pend = [c \in Conns |-> {}]
    /\ rows = {}
    /\ cancelled = {}

-----------------------------------------------------------------------------
(* What PostgreSQL does with a statement on connection c.                   *)

\* The rows a set of writes leaves behind.
After(base, writes) ==
    (base \cup {w.row : w \in {x \in writes : x.op = "insert"}})
        \ {w.row : w \in {x \in writes : x.op = "delete"}}

\* Mutant of Visible: no policy, or one that does not bind the role.
VisibleToAll(c) == After(rows, pend[c])

\* USING: the policies show the rows of the tenant the setting names; an empty
\* setting becomes NULL and shows nothing.
Visible(c) == {x \in After(rows, pend[c]) : x.tenant = setting[c]}

\* WITH CHECK: the tenant_id an inserted or updated row may carry.
MayWrite(c, x) == x.tenant = setting[c]

\* Mutant of EndTx: set_config(..., false), a setting of the session.
EndTxKeepsSetting(c) ==
    /\ inTx' = [inTx EXCEPT ![c] = FALSE]
    /\ pend' = [pend EXCEPT ![c] = {}]
    /\ UNCHANGED setting

\* The end of a transaction: the transaction-local setting ends with it.
EndTx(c) ==
    /\ inTx' = [inTx EXCEPT ![c] = FALSE]
    /\ setting' = [setting EXCEPT ![c] = NoTenant]
    /\ pend' = [pend EXCEPT ![c] = {}]

\* client.release(): back to the pool, which replaces a dead session by a new
\* one before it hands the slot out again.
Release(c) ==
    /\ holder' = [holder EXCEPT ![c] = Nobody]
    /\ alive' = [alive EXCEPT ![c] = TRUE]

-----------------------------------------------------------------------------
(* The hooks.                                                               *)

\* authenticate: the tenant comes from the verified token or the API key.
Authenticate(r, t) ==
    /\ phase[r] = "new"
    /\ tenant' = [tenant EXCEPT ![r] = t]
    /\ phase' = [phase EXCEPT ![r] = "authed"]
    /\ UNCHANGED <<client, status, seen, connVars, rows, cancelled>>

\* A hook throws while the request has no client: 401 from authenticate, 403
\* from withTenant when there is no tenant, 500 when connect() fails.
RejectEarly(r) ==
    /\ phase[r] \in {"new", "authed"}
    /\ status' = [status EXCEPT ![r] = "error"]
    /\ phase' = [phase EXCEPT ![r] = "replying"]
    /\ UNCHANGED <<tenant, client, seen, connVars, rows, cancelled>>

\* withTenant: appPool.connect() hands out an idle connection.
Connect(r) ==
    /\ phase[r] = "authed"
    /\ tenant[r] # NoTenant
    /\ \E c \in Conns :
        /\ holder[c] = Nobody
        /\ holder' = [holder EXCEPT ![c] = r]
        /\ client' = [client EXCEPT ![r] = c]
    /\ phase' = [phase EXCEPT ![r] = "connected"]
    /\ UNCHANGED <<tenant, status, seen, alive, inTx, setting, pend, rows, cancelled>>

\* Mutant of Bind: set_config is missing.
BindWithoutSetting(r) ==
    /\ phase[r] = "connected"
    /\ alive[client[r]]
    /\ inTx' = [inTx EXCEPT ![client[r]] = TRUE]
    /\ phase' = [phase EXCEPT ![r] = "bound"]
    /\ UNCHANGED <<tenant, client, status, seen, holder, alive, setting, pend, rows, cancelled>>

\* withTenant: BEGIN, then set_config(..., true).  BEGIN inside an open
\* transaction is only a warning: that transaction and its writes go on.
Bind(r) ==
    LET c == client[r] IN
    /\ phase[r] = "connected"
    /\ alive[c]
    /\ inTx' = [inTx EXCEPT ![c] = TRUE]
    /\ setting' = [setting EXCEPT ![c] = tenant[r]]
    /\ phase' = [phase EXCEPT ![r] = "bound"]
    /\ UNCHANGED <<tenant, client, status, seen, holder, alive, pend, rows, cancelled>>

\* Mutant of Admit: deleted_at is not looked at.
AdmitCancelled(r) ==
    /\ phase[r] = "bound"
    /\ alive[client[r]]
    /\ phase' = [phase EXCEPT ![r] = "handling"]
    /\ UNCHANGED <<tenant, client, status, seen, connVars, rows, cancelled>>

\* withTenant: the organisation is not cancelled, so req.db is set.
Admit(r) ==
    /\ phase[r] = "bound"
    /\ alive[client[r]]
    /\ tenant[r] \notin cancelled
    /\ phase' = [phase EXCEPT ![r] = "handling"]
    /\ UNCHANGED <<tenant, client, status, seen, connVars, rows, cancelled>>

\* withTenant's catch: the organisation is cancelled (403) or any of the three
\* statements failed (500); ROLLBACK, release, rethrow.
OpenFails(r) ==
    LET c == client[r] IN
    /\ phase[r] \in {"connected", "bound"}
    /\ EndTx(c)
    /\ Release(c)
    /\ client' = [client EXCEPT ![r] = NoConn]
    /\ status' = [status EXCEPT ![r] = "error"]
    /\ phase' = [phase EXCEPT ![r] = "replying"]
    /\ UNCHANGED <<tenant, seen, rows, cancelled>>

\* A handler's SELECT, by id, by cursor or for an export: what it returns is
\* what the policy shows.
Select(r) ==
    LET c == client[r] IN
    /\ phase[r] = "handling"
    /\ alive[c]
    /\ seen' = [seen EXCEPT ![r] = @ \cup {x.tenant : x \in Visible(c)}]
    /\ UNCHANGED <<phase, tenant, client, status, connVars, rows, cancelled>>

\* A handler's INSERT of a row with a fresh id and the caller's tenant_id.
Insert(r, i) ==
    LET c == client[r]
        x == [id |-> i, tenant |-> tenant[r]]
    IN  /\ phase[r] = "handling"
        /\ alive[c]
        /\ \A y \in rows : y.id # i
        /\ \A d \in Conns : \A w \in pend[d] : w.row.id # i
        /\ MayWrite(c, x)
        /\ pend' = [pend EXCEPT ![c] = @ \cup {[op |-> "insert", row |-> x]}]
        /\ UNCHANGED <<reqVars, holder, alive, inTx, setting, rows, cancelled>>

\* A handler's UPDATE or DELETE by an id the client chose: no row, unless the
\* policy shows one.
Modify(r, op, i) ==
    LET c == client[r] IN
    /\ phase[r] = "handling"
    /\ alive[c]
    /\ \E x \in Visible(c) :
        /\ x.id = i
        /\ op = "update" => MayWrite(c, x)
        /\ pend' = [pend EXCEPT ![c] = @ \cup {[op |-> op, row |-> x]}]
    /\ UNCHANGED <<reqVars, holder, alive, inTx, setting, rows, cancelled>>

\* The handler returns a reply, with a 2xx/3xx status or with a 4xx/5xx one.
Return(r, s) ==
    /\ phase[r] = "handling"
    /\ status' = [status EXCEPT ![r] = s]
    /\ phase' = [phase EXCEPT ![r] = "replying"]
    /\ UNCHANGED <<tenant, client, seen, connVars, rows, cancelled>>

\* Mutant of OnError: req.db is left set, so that onSend ends it again.
OnErrorKeepsClient(r) ==
    /\ phase[r] = "handling"
    /\ EndTx(client[r])
    /\ Release(client[r])
    /\ status' = [status EXCEPT ![r] = "error"]
    /\ phase' = [phase EXCEPT ![r] = "replying"]
    /\ UNCHANGED <<tenant, client, seen, rows, cancelled>>

\* onError: the handler threw; req.db is cleared, ROLLBACK, RESET, release.
OnError(r) ==
    LET c == client[r] IN
    /\ phase[r] = "handling"
    /\ EndTx(c)
    /\ Release(c)
    /\ client' = [client EXCEPT ![r] = NoConn]
    /\ status' = [status EXCEPT ![r] = "error"]
    /\ phase' = [phase EXCEPT ![r] = "replying"]
    /\ UNCHANGED <<tenant, seen, rows, cancelled>>

\* onSend, when req.db is undefined: nothing to end.
SendBare(r) ==
    /\ phase[r] = "replying"
    /\ client[r] = NoConn
    /\ phase' = [phase EXCEPT ![r] = "sent"]
    /\ UNCHANGED <<tenant, client, status, seen, connVars, rows, cancelled>>

\* Mutant of OnSend: COMMIT whatever the status.
OnSendAlwaysCommits(r) ==
    LET c == client[r] IN
    /\ phase[r] = "replying"
    /\ c # NoConn
    /\ rows' = IF alive[c] THEN After(rows, pend[c]) ELSE rows
    /\ EndTx(c)
    /\ Release(c)
    /\ client' = [client EXCEPT ![r] = NoConn]
    /\ phase' = [phase EXCEPT ![r] = "sent"]
    /\ UNCHANGED <<tenant, status, seen, cancelled>>

\* onSend: req.db is cleared; COMMIT below 400, ROLLBACK otherwise; RESET,
\* release; then the response goes out.  When COMMIT throws because the
\* session is lost, the hook sends the same response all the same.
OnSend(r) ==
    LET c == client[r] IN
    /\ phase[r] = "replying"
    /\ c # NoConn
    /\ \/ /\ status[r] = "ok" /\ alive[c]
          /\ rows' = After(rows, pend[c])
       \/ /\ status[r] = "error" \/ ~alive[c]
          /\ rows' = rows
    /\ EndTx(c)
    /\ Release(c)
    /\ client' = [client EXCEPT ![r] = NoConn]
    /\ phase' = [phase EXCEPT ![r] = "sent"]
    /\ UNCHANGED <<tenant, status, seen, cancelled>>

\* The connection carries another request.
NextRequest(r) ==
    /\ phase[r] = "sent"
    /\ phase' = [phase EXCEPT ![r] = "new"]
    /\ tenant' = [tenant EXCEPT ![r] = NoTenant]
    /\ status' = [status EXCEPT ![r] = "none"]
    /\ seen' = [seen EXCEPT ![r] = {}]
    /\ UNCHANGED <<client, connVars, rows, cancelled>>

\* The session of a checked-out connection is lost (failover, kill, network).
Lose(c) ==
    /\ holder[c] # Nobody
    /\ alive[c]
    /\ alive' = [alive EXCEPT ![c] = FALSE]
    /\ UNCHANGED <<reqVars, holder, inTx, setting, pend, rows, cancelled>>

\* cancelTenant commits, on the other pool.
Cancel(t) ==
    /\ cancelled' = cancelled \cup {t}
    /\ t \notin cancelled
    /\ UNCHANGED <<reqVars, connVars, rows>>

Handle(r) ==
    \/ Select(r)
    \/ \E i \in RowIds : Insert(r, i)
    \/ \E i \in RowIds, op \in {"update", "delete"} : Modify(r, op, i)

Step(r) ==
    \/ \E t \in Tenants \cup {NoTenant} : Authenticate(r, t)
    \/ RejectEarly(r)
    \/ Connect(r)
    \/ Bind(r)
    \/ Admit(r)
    \/ OpenFails(r)
    \/ Handle(r)
    \/ \E s \in {"ok", "error"} : Return(r, s)
    \/ OnError(r)
    \/ SendBare(r)
    \/ OnSend(r)
    \/ NextRequest(r)

Next ==
    \/ \E r \in Requests : Step(r)
    \/ \E c \in Conns : Lose(c)
    \/ \E t \in Tenants : Cancel(t)

Spec == Init /\ [][Next]_vars

-----------------------------------------------------------------------------
(* Properties.                                                              *)

\* A connection is checked out by exactly the request that refers to it: no
\* client leaks when a hook fails half-way, none is released twice or used
\* after its release (the three places of tenant.ts that release).
Exclusive ==
    \A c \in Conns, r \in Requests : holder[c] = r <=> client[r] = c

\* Nothing of a request outlives it on a pooled connection: no open
\* transaction, no tenant setting and no pending write (R6.4, "context cannot
\* bleed across pooled requests").
IdleIsClean ==
    \A c \in Conns : holder[c] = Nobody =>
        ~inTx[c] /\ setting[c] = NoTenant /\ pend[c] = {}

\* A request reads rows of its own tenant only, whatever ids a client sends
\* and whoever used the connection before (R6.6).
ReadsOwnTenant == \A r \in Requests : seen[r] \subseteq {tenant[r]}

\* Every write waiting for COMMIT is to a row of the tenant of the request
\* that will commit it (R6.7).
WritesOwnTenant ==
    \A c \in Conns : \A w \in pend[c] :
        /\ holder[c] # Nobody
        /\ w.row.tenant = tenant[holder[c]]

\* The tenant is cancelled and the requests admitted before that are over.
Drained(t) ==
    /\ t \in cancelled
    /\ \A r \in Requests : tenant[r] = t =>
            ~(phase[r] = "handling" \/ (phase[r] = "replying" /\ client[r] # NoConn))

RowsOf(t) == {x \in rows : x.tenant = t}

\* Once a cancelled tenant's admitted requests have drained, no request of
\* this path works for it again and its rows are frozen (R2.3).
CancelledIsFrozen ==
    [][\A t \in Tenants : Drained(t) =>
            Drained(t)' /\ RowsOf(t)' = RowsOf(t)]_vars

\* The strengthening that makes the isolation invariants inductive: which
\* phases have a client, and what that client's session carries in them.
WorkingClient(r) ==
    phase[r] \in {"bound", "handling"} \/ (phase[r] = "replying" /\ client[r] # NoConn)

ClientMatchesPhase ==
    \A r \in Requests :
        /\ phase[r] \in {"connected", "bound", "handling"} => client[r] # NoConn
        /\ phase[r] \in {"new", "authed", "sent"} => client[r] = NoConn
        /\ phase[r] = "connected" => tenant[r] # NoTenant
        /\ WorkingClient(r) => tenant[r] # NoTenant /\ setting[client[r]] = tenant[r]

StatusMatchesPhase ==
    \A r \in Requests :
        /\ phase[r] = "new" => tenant[r] = NoTenant
        /\ phase[r] \in {"new", "authed", "connected", "bound"} => seen[r] = {}
        /\ phase[r] \in {"replying", "sent"} <=> status[r] # "none"
        /\ phase[r] = "replying" /\ client[r] = NoConn => status[r] = "error"

Isolation == Exclusive /\ IdleIsClean /\ ReadsOwnTenant /\ WritesOwnTenant

IInv == TypeOK /\ Isolation /\ ClientMatchesPhase /\ StatusMatchesPhase

\* The whole path implements one store per tenant, changed atomically and only
\* by requests of that tenant (R6.4, R6.6, R6.7): a reply that says "ok" has made
\* all of the request's changes, unless its session was lost before the COMMIT.
Dead(r) == client[r] # NoConn /\ ~alive[client[r]]

Draft(r) ==
    IF client[r] = NoConn \/ status[r] = "error" \/ Dead(r) THEN {}
    ELSE {[op |-> w.op, id |-> w.row.id] : w \in pend[client[r]]}

Fate(r) ==
    IF status[r] = "error" THEN "failed" ELSE IF Dead(r) THEN "lost" ELSE "open"

Store == INSTANCE TenantStore WITH
    store <- [t \in Tenants |-> {x.id : x \in RowsOf(t)}],
    actsFor <- tenant,
    draft <- [r \in Requests |-> Draft(r)],
    fate <- [r \in Requests |-> Fate(r)],
    answer <- [r \in Requests |-> IF phase[r] = "sent" THEN status[r] ELSE "none"]

ImplementsStore == Store!Spec
=============================================================================
