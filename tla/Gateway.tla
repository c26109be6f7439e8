------------------------------- MODULE Gateway -------------------------------
(* The assembled application (src/src/app.ts): which hooks each route runs  *)
(* in which order, which credential each hook accepts, and the two pools of *)
(* connections that hooks and services wait for.  What a service does with  *)
(* its tables is the subject of the other modules; here a route is the      *)
(* sequence of its awaits, and of the tables only what a later credential   *)
(* check reads is kept.                                                     *)
EXTENDS Integers, Sequences, FiniteSets

CONSTANTS
    Requests,       \* HTTP requests in flight: each slot serves one after the other
    Tenants, Keys,
    Roles,          \* the roles of the users considered
    Routes,         \* the routes that clients call
    AppSize,        \* appPool max
    OwnerSize,      \* ownerPool max
    AccessTtl,      \* life of an access token, in ticks
    None

VARIABLES
    req,        \* [Requests -> Call \cup {Idle}]: what it calls and how far it has come
    app,        \* SUBSET Requests: who has a client of the app pool
    owner,      \* SUBSET Users: who has a client of the owner pool
    bump,       \* SUBSET Requests: a last_used_at UPDATE is outstanding
    org,        \* [Tenants -> {"none", "live", "deleted"}]: organizations
    sessions,   \* SUBSET Tenants: those with a live refresh token
    left,       \* [Tenants -> [Roles -> 0 .. AccessTtl]]: ticks the newest access token lives
    keyOf,      \* [Keys -> Tenants \cup {None}]: api_keys.tenant_id
    revoked     \* SUBSET Keys: api_keys.revoked_at IS NOT NULL

pools == <<app, owner, bump>>
creds == <<org, sessions, left, keyOf, revoked>>
vars  == <<req, pools, creds>>

-----------------------------------------------------------------------------
(* The routes.  A step is one await of a hook or of the handler:            *)
(*   auth, jwt    the credential is checked (jwt: without API keys)         *)
(*   ip, limit    the rate limiters; limit first reads the plan             *)
(*   open         withTenant: BEGIN on a client that the request then keeps *)
(*   role         requireRole                                               *)
(*   state        getBillingState                                           *)
(*   work         statements on req.db                                      *)
(*   lookup, tx   a read, then a transaction, of a service on ownerPool     *)
(*   stripe       a call to Stripe                                          *)

ProjectsV1Write == <<"auth", "limit", "open", "state", "work">>
ProjectsV1Read  == <<"auth", "limit", "open", "work">>
ProjectsV2      == <<"auth", "open", "work">>
ApiKeyList      == <<"auth", "open", "work">>
ApiKeyWrite     == <<"auth", "open", "role", "work">>
Export          == <<"auth", "open", "role", "work">>
CancelTenant    == <<"auth", "role", "tx">>
BillingSession  == <<"auth", "role", "tx", "stripe">>
Team            == <<"jwt", "role", "tx">>
Signup          == <<"ip", "tx">>
Credential      == <<"ip", "lookup", "tx">>
Ticket          == <<"lookup", "tx">>
Webhook         == <<"stripe", "tx">>
WebhookRecord   == <<"tx">>

Program ==
    [v1Write |-> ProjectsV1Write, v1Read |-> ProjectsV1Read, v2 |-> ProjectsV2,
     keyList |-> ApiKeyList, keyWrite |-> ApiKeyWrite, export |-> Export,
     cancel |-> CancelTenant, billing |-> BillingSession, team |-> Team, signup |-> Signup,
     login |-> Credential, refresh |-> Credential, resetRequest |-> Credential,
     ticket |-> Ticket, webhook |-> Webhook, webhookRecord |-> WebhookRecord]

ASSUME GatewayAssumptions ==
    /\ Routes \subseteq DOMAIN Program
    /\ AppSize \in Nat \ {0} /\ OwnerSize \in Nat \ {0} /\ AccessTtl \in Nat
    /\ Roles \subseteq {"member", "admin", "owner"} /\ Roles \cap Keys = {}
    /\ None \notin Requests \cup Tenants \cup Keys \cup Roles \cup DOMAIN Program

\* A route that asks for a credential, and one that works on req.db.
Has(rt, step)     == \E i \in DOMAIN Program[rt] : Program[rt][i] = step
Protected(rt)     == Has(rt, "auth") \/ Has(rt, "jwt")
OnTenantPath(rt)  == Has(rt, "open")

\* The roles that requireRole lets through.
AtLeast(rt) ==
    CASE rt = "cancel" -> {"owner"}
      [] rt \in {"keyWrite", "export", "billing", "team"} -> {"admin", "owner"}
      [] OTHER -> {"member", "admin", "owner"}

-----------------------------------------------------------------------------
Call ==
    [route : Routes, tenant : Tenants,
     cred : Keys \cup Roles \cup {None},    \* an API key, or an access token by its role;
                                            \* at login and refresh the role of the user
     at : Nat \ {0},                        \* the step in hand
     late : BOOLEAN]                        \* history: sent after the cancellation
Idle  == [route |-> None, tenant |-> None, cred |-> None, at |-> 1, late |-> FALSE]
Users == Requests \X {"request", "bump"}

Active(r)  == req[r].route # None
Serving(r) == Active(r) /\ req[r].at <= Len(Program[req[r].route])
Step(r)    == Program[req[r].route][req[r].at]
\* A step that is still to be passed.
Ahead(r, step) ==
    \E i \in DOMAIN Program[req[r].route] : i >= req[r].at /\ Program[req[r].route][i] = step

TypeOK ==
    /\ req \in [Requests -> Call \cup {Idle}]
    /\ app \in SUBSET Requests
    /\ owner \in SUBSET Users
    /\ bump \in SUBSET Requests
    /\ org \in [Tenants -> {"none", "live", "deleted"}]
    /\ sessions \in SUBSET Tenants
    /\ left \in [Tenants -> [Roles -> 0 .. AccessTtl]]
    /\ keyOf \in [Keys -> Tenants \cup {None}]
    /\ revoked \in SUBSET Keys

Init ==
    /\ req = [r \in Requests |-> Idle]
    /\ app = {} /\ owner = {} /\ bump = {}
    /\ org = [t \in Tenants |-> "none"]
    /\ sessions = {}
    /\ left = [t \in Tenants |-> [x \in Roles |-> 0]]
    /\ keyOf = [k \in Keys |-> None]
    /\ revoked = {}

-----------------------------------------------------------------------------
(* The pools.                                                               *)

\* What the step in hand runs on.  An access token is verified without a query.
Needs(r) ==
    IF Step(r) = "open" THEN "app"
    ELSE IF Step(r) \in {"limit", "state", "lookup", "tx"} THEN "owner"
    ELSE IF Step(r) = "auth" /\ req[r].cred \in Keys THEN "owner"
    ELSE "nothing"

Ready(r) ==
    /\ Serving(r)
    /\ Needs(r) = "app" => r \in app
    /\ Needs(r) = "owner" => <<r, "request">> \in owner

AppHasRoom   == Cardinality(app) < AppSize
OwnerHasRoom == Cardinality(owner) < OwnerSize

\* A request calls a route; the tenant of a key is the key's.  A slot is used
\* again once the bump of its last request is over.
Arrive(r, rt, t, c) ==
    /\ ~Active(r) /\ r \notin bump
    /\ CASE Protected(rt) -> c \in Keys \cup Roles /\ (c \in Keys => keyOf[c] = t)
         [] rt \in {"login", "refresh"} -> c \in Roles
         [] OTHER -> c = None
    /\ req' = [req EXCEPT ![r] = [route |-> rt, tenant |-> t, cred |-> c, at |-> 1,
                                  late |-> org[t] = "deleted"]]
    /\ UNCHANGED <<pools, creds>>

\* pool.connect(), or the connect inside pool.query().
Acquire(r) ==
    /\ Serving(r) /\ ~Ready(r)
    /\ \/ /\ Needs(r) = "app" /\ AppHasRoom
          /\ app' = app \cup {r}
          /\ UNCHANGED owner
       \/ /\ Needs(r) = "owner" /\ OwnerHasRoom
          /\ owner' = owner \cup {<<r, "request">>}
          /\ UNCHANGED app
    /\ UNCHANGED <<req, bump, creds>>

\* The UPDATE of last_used_at that authenticateApiKey does not wait for.
StartBump(r) ==
    /\ r \in bump /\ <<r, "bump">> \notin owner
    /\ OwnerHasRoom
    /\ owner' = owner \cup {<<r, "bump">>}
    /\ UNCHANGED <<req, app, bump, creds>>

EndBump(r) ==
    /\ <<r, "bump">> \in owner
    /\ owner' = owner \ {<<r, "bump">>}
    /\ bump' = bump \ {r}
    /\ UNCHANGED <<req, app, creds>>

-----------------------------------------------------------------------------
(* The checks.                                                              *)

\* Mutant of Accepted: revoked_at is not looked at.
AcceptedRevoked(r) ==
    IF req[r].cred \in Keys THEN Step(r) = "auth"
    ELSE left[req[r].tenant][req[r].cred] > 0

\* authenticate.  Invitation routes are built without the owner pool, so they
\* refuse API keys.
Accepted(r) ==
    IF req[r].cred \in Keys
    THEN req[r].cred \notin revoked /\ Step(r) = "auth"
    ELSE left[req[r].tenant][req[r].cred] > 0

\* Mutant of RoleOf: keys act with the role of who made them.
RoleOfMaker(r) == IF req[r].cred \in Keys THEN "admin" ELSE req[r].cred

\* The role that authenticate gives a request.
RoleOf(r) == IF req[r].cred \in Keys THEN "member" ELSE req[r].cred

\* Mutant of Found: login does not join organizations.
FoundAnyOrg(r) ==
    CASE req[r].route \in {"login", "resetRequest"} -> org[req[r].tenant] # "none"
      [] req[r].route = "refresh" -> req[r].tenant \in sessions
      [] OTHER -> TRUE

\* What a service looks up before its transaction.
Found(r) ==
    CASE req[r].route \in {"login", "resetRequest"} -> org[req[r].tenant] = "live"
      [] req[r].route = "refresh" -> req[r].tenant \in sessions
      [] OTHER -> TRUE

\* The condition under which the step in hand goes on to the next.
Gate(r) ==
    CASE Step(r) \in {"auth", "jwt"} -> Accepted(r)
      [] Step(r) = "open" -> org[req[r].tenant] # "deleted"
      [] Step(r) = "role" -> RoleOf(r) \in AtLeast(req[r].route)
      [] Step(r) = "lookup" -> Found(r)
      [] OTHER -> TRUE

\* What the services' transactions do to credentials.
Effect(r) ==
    LET t == req[r].tenant IN
    CASE Step(r) = "tx" /\ req[r].route = "signup" ->
            /\ org' = [org EXCEPT ![t] = IF @ = "none" THEN "live" ELSE @]
            /\ UNCHANGED <<sessions, left>>
      [] Step(r) = "tx" /\ req[r].route = "cancel" ->
            \* the UPDATE of refresh_tokens has no tenant in it; it is one step
            \* with the COMMIT here, two in Sessions: what opens between
            \* them counts as opened after
            /\ org' = [org EXCEPT ![t] = "deleted"]
            /\ sessions' = {}
            /\ UNCHANGED left
      [] Step(r) = "tx" /\ req[r].route \in {"login", "refresh"} ->
            /\ sessions' = sessions \cup {t}
            /\ left' = [left EXCEPT ![t][req[r].cred] = AccessTtl]
            /\ UNCHANGED org
      [] OTHER -> UNCHANGED <<org, sessions, left>>

-----------------------------------------------------------------------------
\* Mutant of Pass: a client of the owner pool is not released.
PassKeepsOwner(r) ==
    /\ Ready(r) /\ Gate(r)
    /\ req' = [req EXCEPT ![r].at = @ + 1]
    /\ bump' = IF Step(r) = "auth" /\ req[r].cred \in Keys THEN bump \cup {r} ELSE bump
    /\ Effect(r)
    /\ UNCHANGED <<app, owner, keyOf, revoked>>

\* A step succeeds.  pool.query and the services release the owner pool's client;
\* the app pool's stays with the request.
Pass(r) ==
    /\ Ready(r) /\ Gate(r)
    /\ req' = [req EXCEPT ![r].at = @ + 1]
    /\ owner' = owner \ {<<r, "request">>}
    /\ bump' = IF Step(r) = "auth" /\ req[r].cred \in Keys THEN bump \cup {r} ELSE bump
    /\ Effect(r)
    /\ UNCHANGED <<app, keyOf, revoked>>

\* Mutant of Fail: onError has no hook, or open releases nothing when it throws.
FailKeepsApp(r) ==
    /\ Serving(r)
    /\ req' = [req EXCEPT ![r] = Idle]
    /\ owner' = owner \ {<<r, "request">>}
    /\ UNCHANGED <<app, bump, creds>>

\* A step throws, refused or broken: the services' finally, withTenant's catch
\* and onError give back what the request has, and the error is the answer.
Fail(r) ==
    /\ Serving(r)
    /\ req' = [req EXCEPT ![r] = Idle]
    /\ owner' = owner \ {<<r, "request">>}
    /\ app' = app \ {r}
    /\ UNCHANGED <<bump, creds>>

\* createApiKey and revokeApiKey, as COMMIT makes them visible.
KeyWrite(r) ==
    \/ \E k \in Keys : /\ keyOf[k] = None
                       /\ keyOf' = [keyOf EXCEPT ![k] = req[r].tenant]
                       /\ UNCHANGED revoked
    \/ \E k \in Keys \ revoked : /\ keyOf[k] = req[r].tenant
                                 /\ revoked' = revoked \cup {k}
                                 /\ UNCHANGED keyOf

\* The handler has replied: onSend commits (or its COMMIT fails, which it
\* swallows), releases the client, and the reply goes out.
Send(r) ==
    /\ Active(r) /\ ~Serving(r)
    /\ \/ req[r].route = "keyWrite" /\ KeyWrite(r)
       \/ UNCHANGED <<keyOf, revoked>>
    /\ req' = [req EXCEPT ![r] = Idle]
    /\ app' = app \ {r}
    /\ UNCHANGED <<owner, bump, org, sessions, left>>

\* The refresh tokens of a tenant are revoked by a reset or by reuse, or expire.
SessionsEnd(t) ==
    /\ t \in sessions
    /\ sessions' = sessions \ {t}
    /\ UNCHANGED <<req, pools, org, left, keyOf, revoked>>

\* Time passes for the access tokens.
Tick ==
    /\ left' = [t \in Tenants |-> [x \in Roles |->
                    IF left[t][x] = 0 THEN 0 ELSE left[t][x] - 1]]
    /\ UNCHANGED <<req, pools, org, sessions, keyOf, revoked>>

Next ==
    \/ \E r \in Requests :
        \/ \E rt \in Routes, t \in Tenants, c \in Keys \cup Roles \cup {None} : Arrive(r, rt, t, c)
        \/ Acquire(r) \/ Pass(r) \/ Fail(r) \/ Send(r)
        \/ StartBump(r) \/ EndBump(r)
    \/ \E t \in Tenants : SessionsEnd(t)
    \/ Tick

Spec == Init /\ [][Next]_vars

(* Fairness.  A step that has what it runs on returns or throws, replies are  *)
(* sent and queries end (weak); pg-pool serves waiters in their order, so one *)
(* is not passed over for ever (strong).  A request still waiting for a       *)
(* connection need not time out: neither pool sets connectionTimeoutMillis.   *)
FairSpec ==
    /\ Spec
    /\ \A r \in Requests :
        /\ WF_vars(Ready(r) /\ (Pass(r) \/ Fail(r)))
        /\ WF_vars(Send(r))
        /\ WF_vars(EndBump(r))
        /\ SF_vars(Acquire(r))

-----------------------------------------------------------------------------
(* Properties.                                                              *)

\* The credential has been checked; the account has been found.
Admitted(r) == Active(r) /\ Protected(req[r].route) /\ ~Ahead(r, "auth") /\ ~Ahead(r, "jwt")
Issuing(r)  == req[r].route \in {"login", "refresh"} /\ ~Ahead(r, "lookup")

\* Nothing stands between the request and the statements of its handler.
Handling(r) == Admitted(r) /\ ~Ahead(r, "limit") /\ ~Ahead(r, "open") /\ ~Ahead(r, "role")

\* What the pools have given out: to requests in flight only, the owner pool's
\* clients only for the step or the bump that uses them, and never too many.
HoldersAreActive ==
    /\ \A r \in app : Active(r)
    /\ \A r \in Requests : <<r, "request">> \in owner => Serving(r) /\ Needs(r) = "owner"
    /\ \A r \in Requests : <<r, "bump">> \in owner => r \in bump

PoolsAreBounded ==
    /\ IsFiniteSet(app) /\ Cardinality(app) <= AppSize
    /\ IsFiniteSet(owner) /\ Cardinality(owner) <= OwnerSize

\* A request sent after the cancellation is not past withTenant.
LateStaysOut ==
    \A r \in Requests : Active(r) /\ req[r].late =>
        /\ org[req[r].tenant] = "deleted"
        /\ OnTenantPath(req[r].route) => Ahead(r, "open")

\* Protected routes are called with a credential; a key is not past a check
\* that its role fails.
KeysAreMembers ==
    \A r \in Requests : Active(r) /\ Protected(req[r].route) =>
        /\ req[r].cred \in Keys \cup Roles
        /\ req[r].cred \in Keys /\ "member" \notin AtLeast(req[r].route) =>
                Ahead(r, "jwt") \/ Ahead(r, "role")

\* The strengthening that makes the invariants below inductive.
IInv == TypeOK /\ HoldersAreActive /\ PoolsAreBounded /\ LateStaysOut /\ KeysAreMembers

\* Of what is sent after a cancellation only calls of owner-pool routes with an
\* access token that is still valid reach their handler: R2.3 asks for a 403
\* there too, but those routes do not run withTenant.  No API key gets in.
LateReachesOwnerRoutesOnly ==
    \A r \in Requests : req[r].late /\ Handling(r) =>
        ~OnTenantPath(req[r].route) /\ req[r].cred \in Roles

\* The two pools cannot stand still on each other, although a v1 write waits for
\* an owner client with an app client in hand: while a request is in flight, one
\* can take a step, or a bump is about to give its client back.
CanMove(r) ==
    \/ Active(r) /\ ~Serving(r)
    \/ Ready(r)
    \/ Serving(r) /\ Needs(r) = "app" /\ AppHasRoom
    \/ Serving(r) /\ Needs(r) = "owner" /\ OwnerHasRoom

NoStandstill ==
    (\E r \in Requests : Active(r)) =>
        \E r \in Requests : CanMove(r) \/ <<r, "bump">> \in owner

\* Once a key is revoked and what it was checked for is over, it lets nothing in
\* again (R5.3), whatever checks and revocations overlap.
Out(k) == k \in revoked /\ \A r \in Requests : Admitted(r) => req[r].cred # k
RevokedKeyIsOut == [][\A k \in Keys : Out(k) => Out(k)']_vars

\* Once a cancelled tenant has no session, no access token that lives and no
\* request past its check, none of its users gets in again and it gets no new
\* session (R2.3): the token's life bounds the time after a cancellation.
OutOfReach(t) ==
    /\ org[t] = "deleted" /\ t \notin sessions
    /\ \A x \in Roles : left[t][x] = 0
    /\ \A r \in Requests : req[r].tenant = t =>
            ~Issuing(r) /\ (Admitted(r) => req[r].cred \in Keys)
OutOfReachForGood == [][\A t \in Tenants : OutOfReach(t) => OutOfReach(t)']_vars

\* The assembled routes implement the same notion of access as the sessions
\* behind them: only an attempt whose lookup found a live organisation, or a
\* session, ends in a session (R2.2, R2.3).
Opens(r, t) == Serving(r) /\ Issuing(r) /\ req[r].tenant = t

Deleted == {t \in Tenants : org[t] = "deleted"}
Opening == {t \in Tenants : \E r \in Requests : Opens(r, t)}

Access == INSTANCE TenantAccess WITH
    deleted <- Deleted, open <- sessions, opening <- Opening, cancelling <- {}, missed <- {}

ImplementsAccess == Access!Spec

\* Every request is answered, whatever it has to wait for in either pool.
Answered == \A r \in Requests : Active(r) ~> ~Active(r)
=============================================================================
