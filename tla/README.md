# TenantForge: a TLA+ verification project

TenantForge is a multi-tenant SaaS backend in TypeScript: Fastify, PostgreSQL
with row-level security, Redis and Stripe. Its difficult promises are about
order and failure: a tenant's data stays its own although requests of all
tenants share ten connections, a session that was ended stays ended, an event
that Stripe delivers twice or out of order is applied once, a quota holds while
several requests count. This project models the code that keeps these promises,
checks the models with TLC and proves their safety properties, tenant isolation first
of all, with TLAPS. Paths below are relative to the repository's `src/` directory.

## 1. Inventory

| Component | State | Operations | Module |
|---|---|---|---|
| Tenant request path (`middleware/tenant.ts`, `db/rls.ts`, `db/client.ts`) | the app pool's connections (transaction, setting, owner), `req.auth`, `req.db`, rows | `authenticate`, `withTenant.open`, handlers, `onSend`, `onError` | `TenantContext`, `TenantStore` |
| Sessions and password reset (`auth/*.service.ts`, `tenants/lifecycle.service.ts`) | `refresh_tokens`, `auth_tokens`, `users.password_hash`, `organizations.deleted_at` | login, rotate, reuse detection, request and confirm a reset, cancel a tenant | `Sessions`, `TenantAccess` |
| Billing (`billing/billing.service.ts`, `webhook.service.ts`, `stripe.gateway.ts`) | `organizations.plan`, `stripe_customer_id`, `subscriptions`, `processed_webhooks`; Stripe's own objects | ensure a customer, checkout, portal, webhook | `Billing`, `SubscriptionSync` |
| Projects and plan enforcement (`projects/`, `billing/enforcement.service.ts`, both route versions) | `projects`, plan and status read | create, patch, delete, gate, quota | `Projects` |
| Team (`team/team.service.ts`, `auth/signup.service.ts`, `auth/rbac.ts`) | `users.role`, `invitations`, roles signed into access tokens | signup, invite, accept, change a role | `Team` |
| Rate limiting (`ratelimit/limiter.ts`) | the bucket in Redis, the loaded script, `this.sha` | `consume`, reload | `RateLimiter` |
| Application assembly (`app.ts`, `server.ts`, `routes/`) | both pools of connections, who waits for them | every route as the sequence of its hooks, checks and awaits | `Gateway`, `TenantAccess` |
| API keys (`apikeys/`) | `api_keys` | create, list, revoke, authenticate, `last_used_at` | `Gateway`; its writes also inside `TenantContext` |
| Access tokens (`auth/token.service.ts`) | none: a signed token with its expiry | sign, verify | `Gateway` (expiry), `Team` (role) |
| Export (`exports/`) | none of its own | read all tables, audit | inside `TenantContext` and `Gateway` |
| Migrations and roles (`db/migrate.ts`, `db/rls.ts`) | tables, the app role, policies, grants, default privileges | DDL, role, policies, grants | `Deployment` |
| Delivery pipeline (`.github/workflows/cd.yml`) | job steps, the ECS service and its tasks | apply, record, migrate, deploy, smoke test, roll back, run again | `Deployment` |
| Audit log, configuration, web page, other infrastructure | | | not modelled, see section 7 |

How they interact:

* Every request of `/v1/projects`, `/v2/projects`, `/v1/api-keys` and the export
  runs `authenticate`, `withTenant.open`, the handler and `onSend`/`onError` on a
  client of the **app pool** (max 10), whose role the policies bind.
* Sessions, team, billing and enforcement use the **owner pool**, whose role
  "owns tables / bypasses RLS" (`.env.example:9`; the integration tests use the
  superuser, `tests/integration/helpers/postgres.ts:23`). The policies do not
  filter there; a `WHERE` that is missing is missing.
* A v1 write therefore holds an app connection with its transaction open while it
  reads the billing state on an owner connection (`enforcement.service.ts:22`).
* Webhooks change plan and status under requests that have already read them.
* Access tokens carry the role and tenant of the moment they were signed, and live
  up to 900 seconds whatever happens to the account.
* Every API-key request uses the owner pool twice: for the check and for an UPDATE of
  `last_used_at` that it does not wait for (`apikey.service.ts:87`).
* The pipeline migrates the database between two states of the service, so tasks of
  either image may run at any step of it; two pushes make two pipelines.

What is hard: every `await` is a point where all other requests run; every
multi-statement operation can fail at each statement or die with the process;
transactions run at READ COMMITTED, so two statements of one transaction see
different states, and most services read *before* their transaction; Stripe
repeats and reorders; the callers of Redis stamp their own time. `PROJECT.json`
lists these hazards at their lines with the properties that address each.

What makes each component correct:

* **Request path**: a connection belongs to one request at a time and carries
  nothing of it afterwards; rows of another tenant are neither read nor written;
  a request takes effect entirely or not at all, and a success reply has taken effect;
  everybody is answered.
* **Sessions**: what has been revoked stays revoked; a family is one chain from
  one login; a reset and a cancellation are final.
* **Billing**: an event is taken over once, in one step, and lost never; the row
  converges to Stripe's state; a checkout is for the customer on record.
* **Projects**: caps and blocked subscriptions stop writes.
* **Team**: an invitation makes one user; an organisation keeps an owner.
* **Rate limiter**: one budget for all processes.
* **Assembly**: nobody waits for ever; a revoked key or a cancelled tenant is out, and
  what may still get in is known exactly.
* **Migrations**: no tenant's table is ever usable without its policies once a
  migration has ended, and none goes back behind another.

## 2. Plan

In order of importance; all but the last are here, each with proofs.

1. `TenantStore`, `TenantContext`, `TenantContextProofs`.
2. `Sessions`, `SessionsProofs`.
3. `Billing`, `BillingProofs`.
4. `Projects`, `ProjectsProofs`.
5. `Team`, `TeamProofs`.
6. `RateLimiter`, `RateLimiterProofs`.
7. `Gateway`, `GatewayProofs`: the assembled routes, both pools, API keys and access
   tokens against revocation and cancellation.
8. `Deployment`, `DeploymentProofs`: migrations inside overlapping pipelines.
9. Abstract specifications that detailed ones implement: `TenantStore`
   (`TenantContext`), `SubscriptionSync` (`Billing`), `TenantAccess` (`Sessions` and
   `Gateway`), each with its refinement proved.
10. What it takes for the properties of section 7 that do not hold:
   `QuotaHoldsIfCounted`, `AnOwnerRemains`, `OneAtATimeNeverRegresses`,
   `OneAtATimeIsCurrent`.
11. Open: an ideal bucket that `RateLimiter` implements while calls run in order; a
   database clock of its own in `Sessions`, one clock per process in `RateLimiter`; the
   slug's retry.

Composition: `TenantContext` shows that another tenant is invisible, which is
why `Projects` has a single tenant; `Team` and `Sessions` model the owner pool,
where that argument does not apply, so both keep organisations apart themselves.
`Gateway` puts all routes beside each other; of the tables it keeps only what a later
credential check reads, and takes the rest of each handler as a step that succeeds or
fails, since the other modules say what it does. Its `Effect` is what `Sessions` and
`Team` do to `organizations` and `refresh_tokens`, seen from outside; that it is the same
access to tenants which `Sessions` works out row by row is no longer a matter of reading,
since both implement `TenantAccess`. `Deployment` ends
where `TenantContext` begins: its `Usable` tables are the ones whose policies `Visible`
and `MayWrite` take for granted. The plan changes that `Projects` takes as an
environment action (`BillingChange`) are what `Billing`'s `Sync` commits.

## 3. Modules and code

**TenantContext.** One action per hook, and per statement inside a hook where
another request can run. `Connect` is `appPool.connect()`; `Bind` is `BEGIN` with
`set_config(..., true)`; `Admit` is the `deleted_at` check; `OpenFails` the catch
block; `Select`, `Insert`, `Modify` are what handlers do to rows; `Return` is a
reply of the handler, `OnError` a throw; `OnSend` commits below status 400 and
rolls back otherwise. `Visible` and `MayWrite` are the policies' USING and WITH
CHECK. `Lose` kills a session that is checked out, so every statement can fail;
`Cancel` is a cancellation by another request. A handler's failure before the
first statement, between two, or after the last is the interleaving of those
actions with `OnError`. All eight tenant-scoped tables are one set of rows: they
carry the same two policies.

**TenantStore** is the promise: one store per tenant, changed in one step, only by
a request of that tenant, which applies its whole draft. A request keeps its draft from
its first change to its reply; with "ok" the draft is in the store, unless the session
was lost, and with "error" it is dropped. `TenantContext` implements it through `Store`,
where the draft is what is pending on the request's connection (`Draft`) and the fate
is in the reply (`Fate`).

**Sessions.** Each operation but cancellation is a lookup and a later transaction
(`LoginLookup`/`LoginCommit`, `AcceptToken`/`Rotate`, `DetectReuse`/`RevokeFamily`,
`ResetLookup`/`ResetCommit`, `ConfirmLookup`/`ConfirmUpdate`); `Abandon` is a
failed transaction or a dead process. A transaction that revokes is two steps, because at
READ COMMITTED its UPDATE reaches what is committed when it starts and others see the
result at COMMIT: `RevokeFamily`/`RevokeCommit`, `ConfirmUpdate`/`ConfirmCommit`,
`CancelUpdate`/`CancelCommit`. `doomed` is what the UPDATE has reached. In between, logins
and rotations read the old password and the unrevoked tokens, insert and commit: a foreign
key takes `FOR KEY SHARE`, which an UPDATE of other columns does not block, and a rotation
in its overlap window updates no row. A second reset of the user, or cancellation of the
tenant, does wait, for the row the first has updated, and that wait is in the guard.
`raced` (history) says that a token the transaction is about was inserted since its UPDATE.
Transactions that only insert, or stamp `used_at`, stay one step: nobody else waits for or
reads what they do but at COMMIT. A password is the number of its resets; the
history variable `epoch` remembers which password the first token of a family was
opened with. `OpenTenants` are those with a live token, `OpeningTenants` those for whom a
login or rotation is between its two halves; `Access` maps them to `TenantAccess`. An expiry
is computed just before the insert it is for, so the clock does
not move between the two; process and database share one clock.

**Billing.** `LockOrg` to `OpenSession` is `ensureCustomer` with its
`FOR UPDATE`; `FailCall` may leave a customer at Stripe. `StripeChange` and
`OtherEvent` are Stripe; `Refetch`, `Duplicate`, `Ignore`, `Claim`, `Sync`,
`FailHook` are `processWebhookEvent`, where `Claim` is the insert into
`processed_webhooks` that makes a second delivery wait. `ver` counts the changes
at Stripe; it exists to tell older from newer, and the code does not see it; `top` is the
newest that a row has ever shown, not what it shows now, which is `ver`.
`trialing` behaves as `active` does and is left out of the runs.

**SubscriptionSync** is what the endpoint promises of the copies: an event is taken
over exactly once, in one step, to some state that Stripe has reached since the event
(`Take`), or noted if it is about nothing that is copied (`Note`), and only an event that
was taken over is acknowledged. Nothing in it claims, refetches, waits or rolls back.
`Billing` implements it through `Copies`: `Sync` is the step that takes over, the
acknowledgement of a duplicate is `Again`, everything else a delivery does is a stutter.
The copy may go back to an older state, as in `Billing_regress`; how far is what
`RecordedIsCurrent` bounds.

**TenantAccess** is what login, refresh and cancellation promise of a tenant's sessions:
one is opened only by an attempt that began while the organisation was not deleted or
had a session, and a cancellation ends the tenant's unless one was opened while it was
under way (`cancelling`, `missed`). It leaves open whether a
cancellation ends those of others, which the code does (section 7).

**Projects.** `ArriveV1`, `ReadPlan`, `Gate`, `CountOK`, then the write; `ArriveV2`
goes straight to the write, as `routes/v2/projects.routes.ts:53` does. `uncounted`
(history) holds the active projects no quota check has counted in.

**Team.** `ReadTarget`, `CountOwners`, `UpdateRole` are the three statements of
`changeRole`; `claims` are the roles signed into access tokens; `raced` (history)
marks a request that another role change has overlapped.

**RateLimiter.** `Send` stamps a call, `Run` is the Lua script, atomic in Redis.
Tokens are counted in parts so that a tick refills an integer. `Retry` is the
NOSCRIPT branch, `Restart` a Redis that comes back empty, `Expire` the TTL.

**Gateway.** A route is the sequence of its awaits (`Program`), taken from the
`preHandler` lists and the handlers. `Acquire` is `pool.connect()`, explicit or inside
`pool.query()`; `Pass` a step that succeeds, with what its transaction does to
credentials (`Effect`); `Fail` a step that is refused or throws, from which the finally
blocks and `onError` give everything back; `Send` the `onSend` hook, where a key that was
made or revoked becomes visible. `StartBump` and `EndBump` are the `last_used_at` UPDATE.
`Ready` says that a step has the connection it runs on: an app client stays with the
request to its end, an owner client with one step. `left` counts down the life of the
newest access token of a role, from the commit of the login or refresh that returns it;
the code signs before that (`login.service.ts:56`), so a token lives no longer than `left`
says. A cancellation is one step here, its COMMIT: a session opened since its UPDATE counts
as opened right after it, and what `Gateway` says of a cancelled tenant holds of one that
has such sessions. The rate limiter and Stripe are taken to be configured. `late` is history.

**Deployment.** `Ddl`, `Role`, `Rls` and `Grants` are the four statements of
`runMigrations`; each is one transaction (drizzle applies what its journal lacks in one;
a multi-statement query is an implicit one). `Apply`, `Record`, `Deploy`, `Smoke`,
`Rollback` are the other steps of the staging job, `Fail` and `Rerun` may strike at each.
A `workflow_run` job checks out main as it is when the job is triggered (`src`), while the
image it deploys is that of the commit CI has passed (`v`). A table is known by the
commit that brought it; what else a migration does to it is left out. The service follows
`Apply` because its `task_definition` is not in `ignore_changes`
(`infra/modules/ecs/main.tf:100-102`). `before` (history) is the image that a pipeline's
apply has replaced, if that image's own pipeline had passed its smoke test.

## 4. Runs

All passing runs finish in about three minutes or less. Each checks the module's `IInv`, the
inductive invariant of the proofs, of which the type invariant `TypeOK` is the first
conjunct.

| Run | Bounds | What it shows |
|---|---|---|
| `TenantContext_safety` | 2 requests, 2 connections, 2 tenants, 2 rows | `Exclusive`, `IdleIsClean`, `ReadsOwnTenant`, `IInv` (with `WritesOwnTenant`), `ImplementsStore`, `CancelledIsFrozen` |
| `Sessions_safety` | 1 user, 3 tokens, 1 ticket, 2 requests, time 0..3 | `FamiliesAreWhole`, `DeadFamilyStaysDead`, `FirstUseStands`, `ResetEndsOldSessions`, `SpentTicketIsFinal`, `ImplementsAccess`, `IInv` |
| `Sessions_cancel_scope` | 2 users of 2 tenants | `CancelIsScoped` is **violated** |
| `Billing_sync` | 1 organisation, 2 customers and a foreign one, 2 events, 2 calls, 2 deliveries | `RecordedOnceSyncedOnce`, `RecordedIsCurrent`, `SessionsArePersisted`, `PlanFollowsRow`, `ImplementsSync`, `IInv`, `Converges` |
| `Billing_regress` | 2 deliveries at a time | `NoRegress` is **violated** |
| `Projects_safety` | 3 projects, 2 requests, caps 1 and 2, 2 billing changes | `OvershootIsBounded`, `WriteWasAllowed`, `IInv` |
| `Projects_quota` | as above, one plan | `WithinQuota` is **violated** |
| `Team_safety` | 1 organisation, 2 addresses, 2 invitations, 2 requests | `InvitationJoinsOnce`, `ClosedStaysClosed`, `OwnerLostOnlyToRace`, `IInv` |
| `RateLimiter_budget` | 2 processes, bucket of two calls, 5 calls, time 0..8, lag 2 | `BudgetInOrder`, `RetryAfterIsEnough`, `IInv` |
| `Gateway_pools` | 2 requests, 1 connection in each pool, 1 tenant, 1 key, 10 kinds of route, token life 1 | `LateReachesOwnerRoutesOnly`, `NoStandstill`, `RevokedKeyIsOut`, `OutOfReachForGood`, `ImplementsAccess`, `Answered`, `IInv` |
| `Deployment_pipelines` | 2 commits, 3 tables | `MigratedIsSafe`, `IInv` |
| `Deployment_rollback` | 2 commits | `RollbackRestoresPrevious` is **violated** |

Why these bounds are enough to see the interesting cases. Two requests are what a
race of two needs, and each serves any number of requests one after the other, so
a connection's history is unbounded. Two connections let a request come back on
either. Two tenants with two rows give each a row of the
other to guess at. Three tokens make a chain of two rotations, or a chain and a
second family; overlap 1 and lifetime 2 within time 0..3 put a use inside the
window, outside it and past expiry. Two versions at Stripe are an older and a
newer state. Every status that counts as active behaves as `active` does, so the run
takes `active` and `incomplete_expired`, which `mapStatus` rewrites to canceled and free.
Caps of one and two let a plan change lower the cap below what exists.
Capacity 6, cost 3, refill 2 make refills that are no whole number of calls, which
is where rounding decides; time 8 lets the key expire (7 ticks) and be used again.
One connection in each pool is the worst case for standing still, and the proof of
`NoStandstill` is for any sizes; two requests let one hold what the other waits for,
beside the bumps of earlier ones. The ten routes cover every step, check and effect; the six left out
(v1 and key lists, export, reset request, tickets, webhooks that refetch) are made of
the same steps and have no effect of their own on credentials. Two commits, of which the second brings a tenant's table, are
an older and a newer pipeline; more of both is what the theorems are for.

Named bounds are `MaxTime`, `MaxVersion`, `MaxChanges`, `MaxCalls` and `MaxLag`;
each stands in a guard and limits only the environment or the clock. `AccessTtl` and
`Releases` bound by their meaning. Symmetry is
declared in the MC modules over sets whose members occur in no `CHOOSE` and in no
order; it is switched off in the runs that check liveness.
Deadlock is checked in every run.

## 5. Fairness

* `Gateway!FairSpec`: a step that has the connection it runs on returns or throws, a
  reply is sent, an UPDATE ends (weak fairness). pg-pool serves its waiters first come
  first served, so none is passed over for ever: strong fairness of `Acquire`. Nothing is
  assumed of clients, of time, or of which way a step ends. A step may hang only on a
  connection: neither pool sets `connectionTimeoutMillis` (`server.ts:11-16`), so no wait ends by
  itself and the model has no timeout for it.
* `Billing!FairSpec`: Stripe redelivers an event until it is acknowledged (strong
  fairness of the delivery of an unacknowledged event), and deliveries do not fail
  for ever (strong fairness of `Begin` and `Sync` per event). Without the second a
  database that is always down refutes convergence. `Converges` is about the state the row
  holds in the end, and supposes that no two deliveries of different events about one
  subscription overlap (`Apart`): with overlaps the last event may leave an older state in
  the row for ever, which is the run `Billing_regress` and refutes the formula without its
  premise. Failures, repetitions, deliveries in any order and overlapping deliveries of one
  event remain in it.

The other specifications are checked for safety only and have no fairness.

## 6. Proofs

Every theorem holds for any sets of requests, connections, tenants, tokens, events,
tables and so on, assuming only what the modules' ASSUMEs say: that the null values are
none of the values, that windows, pool sizes and bounds are natural numbers, that quotas
and statuses are of their types, and in `Projects` that requests are finitely many and a
largest cap exists. Each proof module has `Invariance` (`Spec => []IInv`, in
`RateLimiterProofs` under the condition below), and `IInv` is an invariant of the module's run.

**TenantContextProofs** (from `NullsAreNotValues`): `TypeCorrect`, `TenantIsolation`
(`Exclusive`, `IdleIsClean`, `ReadsOwnTenant`, `WritesOwnTenant`, each also a theorem of its
own), `FrozenAfterCancel` and `Refinement` (`Spec => ImplementsStore`). The four isolation
invariants are not inductive. Whether `OnSend` may commit what is pending depends
on the setting under which it was written, and whether a release frees the right
connection depends on who refers to it. `IInv` adds two facts that the hooks
establish: `ClientMatchesPhase` says in which phases a request has a client and what
that client's session carries then (from `bound` on the setting is the request's
tenant), and `StatusMatchesPhase` says that nothing has been read before the handler
runs, that a reply has a status, and that one without a client is an error. A dead session keeps its setting and pending writes
in the model until it is released, so the argument need not distinguish it. Refinement
follows step by step (`StoreStep`): a statement of a handler adds to the request's own
draft and to no other (`OneMoves`, `OthersStay`), since connections are exclusive; what
`OnSend` applies is the draft, because all that is pending belongs to the request's tenant
(`CommitApplies`); a lost session empties the draft and is the only way to an "ok" that
changes nothing; every other step stutters, sets for whom a request acts, or gives it up.

**SessionsProofs**: `TypeCorrect`, `WholeFamilies`, `DeadFamiliesStayDead`,
`CancelledTenantsStayOut` (`CancelledStaysOut`, which no run states any more because
`ImplementsAccess` implies it), `ResetsEndOldSessions`, `SpentTicketsAreFinal`,
`FirstUsesStand`, and `Refinement` (`Spec => ImplementsAccess`). The second half of an operation looks at nothing again, so the
invariant has to say that what the first half has read is still there:
`PendingIsGrounded` (and `IssuedHaveUsers`). `UpdatesReachAll` is the same for a transaction
between its UPDATE and its COMMIT: every live token it is about is in `doomed`, unless one
was inserted since (`raced`). It is why a reset that nothing has raced leaves no older
session, and a cancellation none of the tenant's; it needs that two transactions of one user
or tenant never overlap. `FamiliesAreWhole` follows because a new
token either starts its family or copies the family and user of an issued one. The
action properties follow from it and from the exceptions they state: only a rotation
in flight adds to a family, only a login or rotation that read before the COMMIT opens a
session of the old password, only a confirmation in flight uses a ticket. For the refinement a lookup is `Begin`
(`LookupStep`), and the transaction of a login or rotation opens a session of the tenant
its first half has read (`MintStep`), where `PendingIsGrounded` is what ties the two
together: the tenant of a token in hand does not change under the request.

**BillingProofs**: `TypeCorrect`, `PersistedSessions`, `AckedEventsAreRecorded`,
`SyncedExactlyOnce`, `RowsNotAhead`, `NothingIsMissed`, `OneAtATimeIsCurrent`,
`OneAtATimeNeverRegresses`, `PlansFollowRows` and `Refinement` (`Spec => ImplementsSync`). Two
chains of facts meet in `SyncedExactlyOnce`. `LocksMatchCalls` and `CustomersMatchCalls`
follow a customer from the locked row to the session: while a call holds the lock the
organisation has no customer, so the UPDATE stores the one just made, and a session is
for a stored one. `EventsNameCustomers` and `HooksHoldEvents` follow an event to its
commit: the subscription's customer came by such a session or is foreign, so `Ignore` is
never of an event of ours, and a claim is exclusive and of an event not yet recorded, so
`Sync` applies it for the first time. `OneAtATimeNeverRegresses` is the other side of the
run `Billing_regress`: if at most one delivery is in flight, what it has fetched is not
older than the row, so the row never goes back. `SyncInv` is the second invariant, over
`IInv`: no row is ahead of Stripe, every version has its event (`EventsTell`), and a recorded
event of ours has been reflected in its row (`RecordedIsReflected`). From it come
`NothingIsMissed` (`RecordedIsCurrent`: once all events of a subscription are recorded the row
has held Stripe's last state, in whatever order they came and whatever failed), with
one delivery at a time `OneAtATimeIsCurrent` (it holds that state now), and the refinement:
what `Sync` writes was fetched after the event and before now, which is `Take`, and the
claim makes it the first time. `PlansFollowRows` needs that no
customer has two subscriptions (`OneSubEach`), because the code has no such check.

**ProjectsProofs**: `TypeCorrect`, `WritesWereAllowed`, with `OpenIsSeen` (as long as the
status allows writes the history has noted it, so the gate need only look at the
present), and `OvershootsAreBounded`, an argument about cardinalities: a request that
passes the count finds fewer than a cap, so those counted in and those admitted but
not yet done exceed the largest cap by less than the number of requests. Only a count
adds to that sum (`OnlyCountsAdd`). The same lemma gives `QuotaHoldsIfCounted`, the other side
of the run `Projects_quota`: with requests one at a time and a plan that stays, the cap holds
in every state in which no active project came past the count.

**TeamProofs**: `TypeCorrect`, `InvitationsJoinOnce`, with `JoinedStay` (whoever has joined
stays a member, so the unique index refuses every later accept, stale or not),
`ClosedInvitationsStayClosed`, and `LastOwnerLostToRace` for one organisation: an
uncontested change still knows what it has read (`UnracedIsSafe`). The other side of
that race is `AnOwnerRemains`, for any organisations: if no change commits that another
has overlapped, somebody is an owner from the first signup on; `TheOrgHasAnOwner` is the
corollary for one organisation. It needs that tokens and invitations come from members
(`MembersCameFirst`), so that an invited member never precedes every owner.

**RateLimiterProofs**: `TypeCorrect`, `RetryAfterSuffices`, and `BudgetHoldsInOrder`. The
budget of an interval is not inductive: the bucket remembers only its last state.
`SpentIsRefilled` says of every moment since which the bucket can be followed that what has
been allowed since and what is left come from the capacity and the refill. When the key
expires the bucket is forgotten and counts as full, so it must be full by then even
for a call that was stamped before and runs after; that is the theorem's condition
`LagIsShort` (`MaxLag * Refill <= Capacity + Refill`): a call is not on its way for longer than
the TTL exceeds the time to fill the bucket.

**GatewayProofs**: `TypeCorrect`, `NeverStandsStill`, `LateReach`, `RevokedKeysStayOut`,
`OutOfReachIsForGood` and `Refinement` (`Spec => ImplementsAccess`). `HoldersAreActive` and `PoolsAreBounded` say that a connection is held only by a
request that is in flight, an owner connection only by one that uses it now, and
never more than there are; if all owner connections are taken, a holder is ready to go
on, and if only app connections are, some holder needs an owner connection that is free
or is ready itself. `LateStaysOut` and `KeysAreMembers` carry the order of hooks: past `open`
means the organisation was not deleted then. The action properties
need no more than `IInv`: each is a case analysis of what a step can do to a request
(`RequestSteps`). In the refinement the step after the lookup is where a tenant is being
opened (`WhoOpens`), so passing the lookup is `Begin`, passing the transaction `Open`, and a
failure there `GiveUp`.

**DeploymentProofs**: `TypeCorrect`, `MigrationsAreSafe`. `Reached` says
what each step of a pipeline may rely on (`Behind`), whoever else runs: everything that
migrations do only grows (`applied`, `policied`, `granted`), so an old checkout that runs late
cannot take a table's policies away, and `GrantsAreTables` keeps the grants from running
ahead of the tables that exist.

Only model-checked: `Answered` and `Converges` (liveness under fairness and ENABLED are
out of the proof system's reach). `WritesOwnTenant`, `AckedIsRecorded` and `CancelledStaysOut` are
proved and not run by themselves, since a conjunct of `IInv`, `IInv` and `ImplementsAccess`
imply them. Of the four disagreements that open section 7 the runs give
counterexamples. No module declares a RECURSIVE operator and nothing here needs induction
over data.

## 7. Where code and documents disagree, and what is not modelled

Four runs show a disagreement; `PROJECT.json` quotes the sentences.

* `Sessions_cancel_scope`: the unfiltered UPDATE of `lifecycle.service.ts:21`, run by
  a role the policies do not bind, revokes everybody's sessions.
* `Billing_regress`: refetching before the transaction does not order two commits.
* `Projects_quota`: v2 creates, un-archiving by PATCH and concurrent creates pass
  the cap.
* `Deployment_rollback`: the runbook (`infra/RUNBOOK.md:26-27`) and R18.5 promise a rollback
  to the previous image. `PREV_TASK_DEF` is read after `terraform apply` has given the
  service the new one (`cd.yml:53`, `65`), so the rollback restores what has just failed.
  One release after another is enough.

Others are visible in the models and have no run of their own. The properties
that hold are stated so as to delimit them:

* `commitTenant` swallows a failing COMMIT (`middleware/tenant.ts:83`) and the
  success reply goes out, although the comment at `tenant.ts:70` promises a durable
  write first. In the model: `OnSend` with a lost session, the one case that
  `ImplementsStore` excepts.
* A rotation that has read its token before the family is revoked for reuse adds a
  live token to it. `DeadFamilyStaysDead` therefore excepts rotations in flight.
* R22.3 (`requirements.md:151`) and `password-reset.service.ts:63-64` say that a reset revokes
  all of the user's families. A login or rotation that inserts and commits between the reset's
  UPDATE (line 84) and its COMMIT (line 20) is not reached by the UPDATE, and its session
  outlives the reset although nothing is in flight at the COMMIT. One that has read before
  the COMMIT and inserts after it keeps a session of the old password too.
  `ResetEndsOldSessions` excepts these two races (`Overlapped`, `OldMint`) and no other.
* Two owners demoted at once both count two owners (`team.service.ts:105` takes no lock), and
  none is left, against `requirements.md:139` ("every organization retains at least one
  `owner`"). `OwnerLostOnlyToRace` says that an owner is lost to nothing else.
* A cancellation has the same window (`lifecycle.service.ts:20`, `28`): a session opened in it
  survives, can be rotated on, and is only kept from routes with `withTenant`. It is what
  `TenantAccess` calls `missed`, and part of what `ShutOut` and `OutOfReachForGood` presuppose
  the absence of.
* Two confirmations that overlap both use one ticket (`password-reset.service.ts:82`
  does not ask for `consumed_at IS NULL`). `SpentTicketIsFinal` excepts the second.
* `mapStatus` lets `incomplete` and `paused` through (`webhook.service.ts:20`) although
  `db/schema/subscriptions.ts:16` lists four values; they count as writable.
* POST `/v2/projects` also skips the 402 gate, which is why `WriteWasAllowed` speaks of
  v1 only.
* The owner count of `team.service.ts:106` names no tenant, so with two organisations
  the last owner of one can go without a race. `OwnerLostOnlyToRace` is about one.
* The limiter stores the caller's clock even when it goes back (`limiter.ts:44`), so
  clocks that differ, or calls that overtake each other, refill an interval twice.
  `BudgetInOrder` excepts runs in which that has happened, against R12.5
  (`requirements.md:278`).
* R2.3 (`requirements.md:78-79`) asks that all authenticated requests of a cancelled tenant
  get 403, and `lifecycle.service.ts:39-41` says that `isTenantDeleted` is "Used by the auth path"; nothing
  calls it. Only routes with `withTenant` refuse. `LateReachesOwnerRoutesOnly` says which
  others a late access token reaches (team, billing, tenant), and `OutOfReachForGood`
  that the life of the last token ends it. API keys are not revoked by a cancellation
  but get no further than 403.
* Because the apply comes first, tasks of the new image may start before the migrations have run,
  against R18.3. And since the checkout is not the image's commit, what is migrated may
  be newer than what is deployed; `MigratedIsSafe` says it is never older.
* `createAppRoleSql` repairs the attributes of an existing role but never its password
  (`db/rls.ts:55-65`), so rotating `APP_DB_PASSWORD` changes what the tasks present only.
* `db/schema/index.ts:16` says that a table absent from both lists fails CI;
  `scripts/rls-lint.ts` iterates over one list and never sees such a table. In the model
  it is a member of `Tables \ Scoped`, usable without policies.

Not modelled: JWT, Argon2id and webhook signatures (libraries); the slug's random
suffix; validation, configuration and error envelopes; audit rows (written in the
transactions that are modelled, read by nobody); the precision of cursor timestamps in
the keyset pagination (`projects.service.ts:97`: SQL and driver behaviour, which a model
would state rather than the code); several subscriptions of one customer, where
`enforcement.service.ts:28` takes the latest updated row and nothing says which is right;
clocks that differ between database and processes; the production job of the pipeline,
which has neither safeguards nor rollback, and a manual restore; the static page, load
scripts and the rest of the infrastructure.
