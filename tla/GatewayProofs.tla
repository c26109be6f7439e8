---------------------------- MODULE GatewayProofs ----------------------------
(* Proofs about Gateway, for any requests, tenants, keys, roles, routes of  *)
(* the table, pool sizes and token lifetime.                                *)
EXTENDS Gateway, FiniteSetTheorems, TLAPS

\* The routes that ask for a credential but do not run withTenant.
LEMMA OwnerRoutes ==
    ASSUME NEW rt \in DOMAIN Program, Protected(rt), ~OnTenantPath(rt)
    PROVE  rt \in {"cancel", "billing", "team"}
  <1> USE DEF Program, Protected, OnTenantPath, Has
  <1>1. rt \notin {"signup", "login", "refresh", "resetRequest", "ticket", "webhook", "webhookRecord"}
    BY DEF Signup, Credential, Ticket, Webhook, WebhookRecord
  <1>2. rt \notin {"v1Write", "v1Read"}
    <2>1. ProjectsV1Write[3] = "open" /\ 3 \in DOMAIN ProjectsV1Write
      BY DEF ProjectsV1Write
    <2>2. ProjectsV1Read[3] = "open" /\ 3 \in DOMAIN ProjectsV1Read
      BY DEF ProjectsV1Read
    <2> QED  BY <2>1, <2>2
  <1>3. rt \notin {"v2", "keyList", "keyWrite", "export"}
    <2>1. /\ ProjectsV2[2] = "open" /\ 2 \in DOMAIN ProjectsV2
          /\ ApiKeyList[2] = "open" /\ 2 \in DOMAIN ApiKeyList
      BY DEF ProjectsV2, ApiKeyList
    <2>2. /\ ApiKeyWrite[2] = "open" /\ 2 \in DOMAIN ApiKeyWrite
          /\ Export[2] = "open" /\ 2 \in DOMAIN Export
      BY DEF ApiKeyWrite, Export
    <2> QED  BY <2>1, <2>2
  <1> QED  BY <1>1, <1>2, <1>3

\* What a step can do to a request: nothing, end it, begin it, or move it on.
Begun(q, rt, t, c) ==
    /\ Arrive(q, rt, t, c)
    /\ req'[q] = [route |-> rt, tenant |-> t, cred |-> c, at |-> 1, late |-> org[t] = "deleted"]

Moved(q) == Pass(q) /\ req'[q] = [req[q] EXCEPT !.at = @ + 1]

\* Every step changes each request in one of these ways.
LEMMA RequestSteps ==
    ASSUME TypeOK, [Next]_vars, NEW q \in Requests
    PROVE  \/ req'[q] = req[q]
           \/ req'[q] = Idle
           \/ \E rt \in Routes, t \in Tenants, c \in Keys \cup Roles \cup {None} : Begun(q, rt, t, c)
           \/ Moved(q)
  <1> USE DEF TypeOK
  <1>1. ASSUME NEW r \in Requests, NEW rt \in Routes, NEW t \in Tenants,
               NEW c \in Keys \cup Roles \cup {None}, Arrive(r, rt, t, c)
        PROVE  req'[q] = req[q] \/ Begun(q, rt, t, c)
    BY <1>1 DEF Arrive, Begun
  <1>2. ASSUME NEW r \in Requests, Pass(r) PROVE req'[q] = req[q] \/ Moved(q)
    BY <1>2 DEF Pass, Moved
  <1>3. ASSUME NEW r \in Requests, Fail(r) \/ Send(r) PROVE req'[q] = req[q] \/ req'[q] = Idle
    BY <1>3 DEF Fail, Send
  <1>4. ASSUME NEW r \in Requests, Acquire(r) \/ StartBump(r) \/ EndBump(r) PROVE req'[q] = req[q]
    BY <1>4 DEF Acquire, StartBump, EndBump
  <1>5. ASSUME NEW t \in Tenants, SessionsEnd(t) PROVE req'[q] = req[q]
    BY <1>5 DEF SessionsEnd
  <1>6. CASE Tick \/ UNCHANGED vars
    BY <1>6 DEF Tick, vars
  <1> QED  BY <1>1, <1>2, <1>3, <1>4, <1>5, <1>6 DEF Next

\* Moving on passes the step in hand and nothing else.
LEMMA MovedAhead ==
    ASSUME TypeOK, NEW q \in Requests, Moved(q), NEW g
    PROVE  /\ Ahead(q, g)' => Ahead(q, g)
           /\ Ahead(q, g) /\ Step(q) # g => Ahead(q, g)'
  <1>1. /\ req[q].at \in Nat /\ req'[q].at = req[q].at + 1 /\ req'[q].route = req[q].route
        /\ Serving(q) /\ req[q].route \in DOMAIN Program
    BY GatewayAssumptions DEF TypeOK, Call, Idle, Moved, Pass, Ready, Serving, Active
  <1>2. \A i \in DOMAIN Program[req[q].route] : i \in Nat
    BY <1>1 DEF Program, ProjectsV1Write, ProjectsV1Read, ProjectsV2, ApiKeyList, ApiKeyWrite,
                Export, CancelTenant, BillingSession, Team, Signup, Credential, Ticket, Webhook,
                WebhookRecord
  <1> QED  BY <1>1, <1>2 DEF Ahead, Step

\* The type invariant, one action at a time.
LEMMA Typing == TypeOK /\ [Next]_vars => TypeOK'
  <1> SUFFICES ASSUME TypeOK, [Next]_vars PROVE TypeOK'
    OBVIOUS
  <1> USE GatewayAssumptions
  <1>1. ASSUME NEW r \in Requests, NEW rt \in Routes, NEW t \in Tenants,
               NEW c \in Keys \cup Roles \cup {None}, Arrive(r, rt, t, c)
        PROVE  TypeOK'
    <2>1. [route |-> rt, tenant |-> t, cred |-> c, at |-> 1, late |-> org[t] = "deleted"] \in Call
      BY DEF Call
    <2> QED  BY <1>1, <2>1 DEF TypeOK, Arrive, pools, creds
  <1>2. ASSUME NEW r \in Requests, Acquire(r) PROVE TypeOK'
    BY <1>2 DEF TypeOK, Acquire, Users, creds
  <1>3. ASSUME NEW r \in Requests, Pass(r) PROVE TypeOK'
    <2>1. req[r] \in Call
      BY <1>3 DEF TypeOK, Pass, Ready, Serving, Active, Idle
    <2>11. [req[r] EXCEPT !.at = @ + 1] \in Call
      BY <2>1 DEF Call
    <2>2. req' \in [Requests -> Call \cup {Idle}] /\ owner' \in SUBSET Users /\ bump' \in SUBSET Requests
      BY <1>3, <2>11 DEF TypeOK, Pass
    <2>3. /\ org' \in [Tenants -> {"none", "live", "deleted"}]
          /\ sessions' \in SUBSET Tenants /\ left' \in [Tenants -> [Roles -> 0 .. AccessTtl]]
      <3>1. CASE Step(r) = "tx" /\ req[r].route = "signup"
        BY <1>3, <3>1 DEF TypeOK, Pass, Effect
      <3>2. CASE Step(r) = "tx" /\ req[r].route = "cancel"
        BY <1>3, <3>2 DEF TypeOK, Pass, Effect
      <3>3. CASE Step(r) = "tx" /\ req[r].route \in {"login", "refresh"}
        <4>1. org' = org /\ sessions' = sessions \cup {req[r].tenant}
              /\ left' = [left EXCEPT ![req[r].tenant][req[r].cred] = AccessTtl]
          BY <1>3, <3>3 DEF Pass, Effect
        <4>2. req[r].tenant \in Tenants
          BY <2>1 DEF Call
        <4> DEFINE row == [left[req[r].tenant] EXCEPT ![req[r].cred] = AccessTtl]
        <4>3. row \in [Roles -> 0 .. AccessTtl]
          <5>1. left[req[r].tenant] \in [Roles -> 0 .. AccessTtl] /\ AccessTtl \in 0 .. AccessTtl
            BY <4>2 DEF TypeOK
          <5> QED  BY <5>1
        <4>4. left' = [left EXCEPT ![req[r].tenant] = row]
          BY <4>1
        <4> HIDE DEF row
        <4>5. left' \in [Tenants -> [Roles -> 0 .. AccessTtl]]
          BY <4>3, <4>4 DEF TypeOK
        <4> QED  BY <4>1, <4>2, <4>5 DEF TypeOK
      <3>4. CASE ~(Step(r) = "tx" /\ req[r].route \in {"signup", "cancel", "login", "refresh"})
        BY <1>3, <3>4 DEF TypeOK, Pass, Effect
      <3> QED  BY <3>1, <3>2, <3>3, <3>4
    <2> QED  BY <1>3, <2>2, <2>3 DEF TypeOK, Pass
  <1>4. ASSUME NEW r \in Requests, Fail(r) PROVE TypeOK'
    BY <1>4 DEF TypeOK, Fail, creds
  <1>5. ASSUME NEW r \in Requests, Send(r) PROVE TypeOK'
    <2>0. req[r] \in Call
      BY <1>5 DEF TypeOK, Send, Active, Idle
    <2>1. req' \in [Requests -> Call \cup {Idle}]
      BY <1>5 DEF TypeOK, Send
    <2>2. keyOf' \in [Keys -> Tenants \cup {None}] /\ revoked' \in SUBSET Keys
      BY <1>5, <2>0 DEF TypeOK, Call, Send, KeyWrite
    <2> QED  BY <1>5, <2>1, <2>2 DEF TypeOK, Send
  <1>6. ASSUME NEW r \in Requests, StartBump(r) \/ EndBump(r) PROVE TypeOK'
    BY <1>6 DEF TypeOK, StartBump, EndBump, Users, creds
  <1>7. ASSUME NEW t \in Tenants, SessionsEnd(t) PROVE TypeOK'
    BY <1>7 DEF TypeOK, SessionsEnd, pools
  <1>8. CASE Tick
    BY <1>8 DEF TypeOK, Tick, pools
  <1>9. CASE UNCHANGED vars
    BY <1>9 DEF TypeOK, vars, pools, creds
  <1> QED  BY <1>1, <1>2, <1>3, <1>4, <1>5, <1>6, <1>7, <1>8, <1>9 DEF Next

-----------------------------------------------------------------------------
(* The pools.                                                               *)

\* Who has a client is in flight and uses it.
LEMMA NextKeepsHolders == TypeOK /\ HoldersAreActive /\ [Next]_vars => HoldersAreActive'
  <1> SUFFICES ASSUME TypeOK, HoldersAreActive, [Next]_vars PROVE HoldersAreActive'
    OBVIOUS
  <1> USE GatewayAssumptions DEF TypeOK
  <1>1. ASSUME NEW r \in Requests, NEW rt \in Routes, NEW t \in Tenants,
               NEW c \in Keys \cup Roles \cup {None}, Arrive(r, rt, t, c)
        PROVE  HoldersAreActive'
    <2>1. \A q \in Requests \ {r} : req'[q] = req[q]
      BY <1>1 DEF Arrive
    <2>2. ~Active(r) /\ ~Serving(r) /\ Active(r)' /\ UNCHANGED <<app, owner, bump>>
      BY <1>1 DEF Arrive, Active, Serving, pools
    <2> QED  BY <2>1, <2>2 DEF HoldersAreActive, Active, Serving, Needs, Step
  <1>2. ASSUME NEW r \in Requests, Acquire(r) PROVE HoldersAreActive'
    BY <1>2 DEF Acquire, HoldersAreActive, Active, Serving, Needs, Step
  <1>3. ASSUME NEW r \in Requests, Pass(r) PROVE HoldersAreActive'
    <2>1. \A q \in Requests \ {r} : req'[q] = req[q]
      BY <1>3 DEF Pass
    <2>2. Active(r) /\ Active(r)'
      BY <1>3 DEF Pass, Ready, Serving, Active, Call
    <2>3. UNCHANGED app /\ owner' = owner \ {<<r, "request">>} /\ bump \subseteq bump'
      BY <1>3 DEF Pass
    <2> QED  BY <2>1, <2>2, <2>3 DEF HoldersAreActive, Active, Serving, Needs, Step
  <1>4. ASSUME NEW r \in Requests, Fail(r) PROVE HoldersAreActive'
    <2>1. \A q \in Requests \ {r} : req'[q] = req[q]
      BY <1>4 DEF Fail
    <2>2. app' = app \ {r} /\ owner' = owner \ {<<r, "request">>} /\ UNCHANGED bump
      BY <1>4 DEF Fail
    <2> QED  BY <2>1, <2>2 DEF HoldersAreActive, Active, Serving, Needs, Step
  <1>5. ASSUME NEW r \in Requests, Send(r) PROVE HoldersAreActive'
    <2>1. \A q \in Requests \ {r} : req'[q] = req[q]
      BY <1>5 DEF Send
    <2>2. app' = app \ {r} /\ ~Serving(r) /\ UNCHANGED <<owner, bump>>
      BY <1>5 DEF Send
    <2> QED  BY <2>1, <2>2 DEF HoldersAreActive, Active, Serving, Needs, Step
  <1>6. ASSUME NEW r \in Requests, StartBump(r) \/ EndBump(r) PROVE HoldersAreActive'
    BY <1>6 DEF StartBump, EndBump, HoldersAreActive, Active, Serving, Needs, Step
  <1>7. CASE (\E t \in Tenants : SessionsEnd(t)) \/ Tick \/ UNCHANGED vars
    BY <1>7 DEF SessionsEnd, Tick, vars, pools, HoldersAreActive, Active, Serving, Needs, Step
  <1> QED  BY <1>1, <1>2, <1>3, <1>4, <1>5, <1>6, <1>7 DEF Next

\* A set that gains a member while it has room, or only loses members, stays
\* within its bound.
LEMMA StaysBounded ==
    ASSUME NEW S, NEW x, NEW n \in Nat, IsFiniteSet(S), Cardinality(S) <= n
    PROVE  /\ Cardinality(S) < n => IsFiniteSet(S \cup {x}) /\ Cardinality(S \cup {x}) <= n
           /\ IsFiniteSet(S \ {x}) /\ Cardinality(S \ {x}) <= n
  <1>1. Cardinality(S) \in Nat
    BY FS_CardinalityType
  <1>2. IsFiniteSet(S \cup {x}) /\ Cardinality(S \cup {x}) <= Cardinality(S) + 1
    BY <1>1, FS_AddElement
  <1>3. IsFiniteSet(S \ {x}) /\ Cardinality(S \ {x}) <= Cardinality(S)
    BY <1>1, FS_RemoveElement
  <1>4. Cardinality(S \cup {x}) \in Nat /\ Cardinality(S \ {x}) \in Nat
    BY <1>2, <1>3, FS_CardinalityType
  <1> QED  BY <1>1, <1>2, <1>3, <1>4

\* No more clients are out than the pools have.
LEMMA NextKeepsPoolsBounded == PoolsAreBounded /\ [Next]_vars => PoolsAreBounded'
  <1> SUFFICES ASSUME PoolsAreBounded, [Next]_vars PROVE PoolsAreBounded'
    OBVIOUS
  <1> USE GatewayAssumptions
  <1>1. ASSUME app' = app \/ (\E x : app' = app \ {x}) \/ (AppHasRoom /\ \E x : app' = app \cup {x})
        PROVE  IsFiniteSet(app') /\ Cardinality(app') <= AppSize
    <2>1. CASE app' = app
      BY <2>1 DEF PoolsAreBounded
    <2>2. ASSUME NEW x, app' = app \ {x} \/ (AppHasRoom /\ app' = app \cup {x})
          PROVE  IsFiniteSet(app') /\ Cardinality(app') <= AppSize
      <3>1. AppSize \in Nat /\ IsFiniteSet(app) /\ Cardinality(app) <= AppSize
        BY DEF PoolsAreBounded
      <3>2. /\ AppHasRoom => IsFiniteSet(app \cup {x}) /\ Cardinality(app \cup {x}) <= AppSize
            /\ IsFiniteSet(app \ {x}) /\ Cardinality(app \ {x}) <= AppSize
        BY <3>1, StaysBounded DEF AppHasRoom
      <3> QED  BY <2>2, <3>2
    <2> QED  BY <1>1, <2>1, <2>2
  <1>2. ASSUME owner' = owner \/ (\E x : owner' = owner \ {x})
                  \/ (OwnerHasRoom /\ \E x : owner' = owner \cup {x})
        PROVE  IsFiniteSet(owner') /\ Cardinality(owner') <= OwnerSize
    <2>1. CASE owner' = owner
      BY <2>1 DEF PoolsAreBounded
    <2>2. ASSUME NEW x, owner' = owner \ {x} \/ (OwnerHasRoom /\ owner' = owner \cup {x})
          PROVE  IsFiniteSet(owner') /\ Cardinality(owner') <= OwnerSize
      <3>1. OwnerSize \in Nat /\ IsFiniteSet(owner) /\ Cardinality(owner) <= OwnerSize
        BY DEF PoolsAreBounded
      <3>2. /\ OwnerHasRoom => IsFiniteSet(owner \cup {x}) /\ Cardinality(owner \cup {x}) <= OwnerSize
            /\ IsFiniteSet(owner \ {x}) /\ Cardinality(owner \ {x}) <= OwnerSize
        BY <3>1, StaysBounded DEF OwnerHasRoom
      <3> QED  BY <2>2, <3>2
    <2> QED  BY <1>2, <2>1, <2>2
  <1>3. app' = app \/ (\E x : app' = app \ {x}) \/ (AppHasRoom /\ \E x : app' = app \cup {x})
    BY DEF Next, Arrive, Acquire, Pass, Fail, Send, StartBump, EndBump, SessionsEnd, Tick, vars, pools
  <1>4. owner' = owner \/ (\E x : owner' = owner \ {x})
            \/ (OwnerHasRoom /\ \E x : owner' = owner \cup {x})
    BY DEF Next, Arrive, Acquire, Pass, Fail, Send, StartBump, EndBump, SessionsEnd, Tick, vars, pools
  <1> QED  BY <1>1, <1>2, <1>3, <1>4 DEF PoolsAreBounded

\* A full pool has somebody in it.
LEMMA FullPoolIsHeld ==
    ASSUME NEW S, NEW n \in Nat \ {0}, IsFiniteSet(S), ~(Cardinality(S) < n)
    PROVE  S # {}
  <1>1. Cardinality({}) = 0
    BY FS_EmptySet
  <1> QED  BY <1>1

\* Whoever waits for the app pool waits for a request that has a client of it;
\* that one waits for the owner pool at most, and whoever has a client there
\* does not wait.
LEMMA PoolsMove == TypeOK /\ HoldersAreActive /\ PoolsAreBounded => NoStandstill
  <1> SUFFICES ASSUME TypeOK, HoldersAreActive, PoolsAreBounded,
                      NEW r \in Requests, Active(r),
                      \A q \in Requests : ~CanMove(q) /\ <<q, "bump">> \notin owner
               PROVE  FALSE
    BY DEF NoStandstill
  <1> USE GatewayAssumptions
  <1>1. OwnerHasRoom
    <2> SUFFICES ASSUME ~OwnerHasRoom PROVE FALSE
      OBVIOUS
    <2>1. PICK u : u \in owner
      BY FullPoolIsHeld DEF OwnerHasRoom, PoolsAreBounded
    <2>2. PICK q \in Requests : u = <<q, "request">>
      BY <2>1 DEF TypeOK, Users
    <2>3. Ready(q)
      BY <2>1, <2>2 DEF HoldersAreActive, Ready
    <2> QED  BY <2>3 DEF CanMove
  <1>2. \A q \in Requests : Active(q) => Serving(q) /\ Needs(q) = "app" /\ q \notin app
    BY <1>1 DEF CanMove, Ready, Needs
  <1>3. ~AppHasRoom
    BY <1>2 DEF CanMove
  <1>4. PICK q : q \in app
    BY <1>3, FullPoolIsHeld DEF AppHasRoom, PoolsAreBounded
  <1> QED  BY <1>2, <1>4 DEF HoldersAreActive, TypeOK

-----------------------------------------------------------------------------
(* Cancelled tenants and revoked keys.                                      *)

\* A cancellation is not undone, nor a revocation, and a key keeps its tenant.
LEMMA NothingComesBack ==
    ASSUME TypeOK, [Next]_vars
    PROVE  /\ \A t \in Tenants : org[t] = "deleted" => org'[t] = "deleted"
           /\ revoked \subseteq revoked'
  <1> USE DEF TypeOK
  <1>1. ASSUME NEW r \in Requests, Pass(r)
        PROVE  /\ \A t \in Tenants : org[t] = "deleted" => org'[t] = "deleted"
               /\ revoked \subseteq revoked'
    <2>1. \/ org' = org
          \/ org' = [org EXCEPT ![req[r].tenant] =
                        IF org[req[r].tenant] = "none" THEN "live" ELSE org[req[r].tenant]]
          \/ org' = [org EXCEPT ![req[r].tenant] = "deleted"]
      BY <1>1 DEF Pass, Effect
    <2> QED  BY <1>1, <2>1 DEF Pass
  <1>2. ASSUME NEW r \in Requests, Send(r) PROVE UNCHANGED org /\ revoked \subseteq revoked'
    BY <1>2 DEF Send, KeyWrite
  <1>3. ASSUME NEW r \in Requests, Acquire(r) \/ Fail(r) \/ StartBump(r) \/ EndBump(r)
        PROVE  UNCHANGED <<org, revoked>>
    BY <1>3 DEF Acquire, Fail, StartBump, EndBump, creds
  <1>4. ASSUME NEW r \in Requests, NEW rt \in Routes, NEW t \in Tenants,
               NEW c \in Keys \cup Roles \cup {None}, Arrive(r, rt, t, c)
        PROVE  UNCHANGED <<org, revoked>>
    BY <1>4 DEF Arrive, creds
  <1>5. CASE (\E t \in Tenants : SessionsEnd(t)) \/ Tick \/ UNCHANGED vars
    BY <1>5 DEF SessionsEnd, Tick, vars, creds
  <1> QED  BY <1>1, <1>2, <1>3, <1>4, <1>5 DEF Next

\* Who was sent after the cancellation is stopped at withTenant.
LEMMA NextKeepsLateOut == TypeOK /\ LateStaysOut /\ [Next]_vars => LateStaysOut'
  <1> SUFFICES ASSUME TypeOK, LateStaysOut, [Next]_vars, NEW q \in Requests,
                      Active(q)', req'[q].late
               PROVE  /\ org'[req'[q].tenant] = "deleted"
                      /\ OnTenantPath(req'[q].route) => Ahead(q, "open")'
    BY DEF LateStaysOut
  <1> USE GatewayAssumptions
  <1>1. CASE req'[q] = req[q]
    <2>1. req[q].tenant \in Tenants
      BY <1>1 DEF TypeOK, Active, Call, Idle
    <2> QED  BY <1>1, <2>1, NothingComesBack DEF LateStaysOut, Active, Ahead
  <1>2. CASE req'[q] = Idle
    BY <1>2 DEF Idle, Active
  <1>3. ASSUME NEW rt \in Routes, NEW t \in Tenants, NEW c \in Keys \cup Roles \cup {None},
               Begun(q, rt, t, c)
        PROVE  /\ org'[req'[q].tenant] = "deleted"
               /\ OnTenantPath(req'[q].route) => Ahead(q, "open")'
    <2>1. req'[q].route = rt /\ req'[q].at = 1 /\ req'[q].tenant = t
      BY <1>3 DEF Begun
    <2>11. org[t] = "deleted"
      <3> DEFINE d == org[t] = "deleted"
      <3>1. req'[q] = [route |-> rt, tenant |-> t, cred |-> c, at |-> 1, late |-> d]
        BY <1>3, Zenon DEF Begun
      <3> HIDE DEF d
      <3>2. req'[q].late = d
        BY <3>1
      <3>3. d
        BY <3>2, Zenon
      <3> QED  BY <3>3 DEF d
    <2>2. \A i \in DOMAIN Program[rt] : i >= 1
      BY DEF Program, ProjectsV1Write, ProjectsV1Read, ProjectsV2, ApiKeyList, ApiKeyWrite,
             Export, CancelTenant, BillingSession, Team, Signup, Credential, Ticket, Webhook,
             WebhookRecord
    <2> QED  BY <2>1, <2>11, <2>2, NothingComesBack DEF OnTenantPath, Has, Ahead
  <1>4. CASE Moved(q)
    <2>1. /\ req[q] \in Call /\ req'[q].tenant = req[q].tenant /\ req'[q].route = req[q].route
          /\ req[q].late /\ Active(q) /\ req[q].tenant \in Tenants
      BY <1>4 DEF TypeOK, Moved, Pass, Ready, Serving, Active, Call, Idle
    <2>2. org[req[q].tenant] = "deleted" /\ org'[req[q].tenant] = "deleted"
      BY <2>1, NothingComesBack DEF LateStaysOut
    <2>3. Step(q) # "open"
      BY <1>4, <2>2 DEF Moved, Pass, Gate
    <2> QED  BY <1>4, <2>1, <2>2, <2>3, MovedAhead DEF LateStaysOut
  <1> QED  BY <1>1, <1>2, <1>3, <1>4, RequestSteps

\* A key does not get past a check that "member" fails.
LEMMA NextKeepsKeysMembers == TypeOK /\ KeysAreMembers /\ [Next]_vars => KeysAreMembers'
  <1> SUFFICES ASSUME TypeOK, KeysAreMembers, [Next]_vars, NEW q \in Requests,
                      Active(q)', Protected(req'[q].route)
               PROVE  /\ req'[q].cred \in Keys \cup Roles
                      /\ req'[q].cred \in Keys /\ "member" \notin AtLeast(req'[q].route) =>
                            Ahead(q, "jwt")' \/ Ahead(q, "role")'
    BY DEF KeysAreMembers
  <1> USE GatewayAssumptions
  <1>1. CASE req'[q] = req[q]
    BY <1>1 DEF KeysAreMembers, Active, Ahead
  <1>2. CASE req'[q] = Idle
    BY <1>2 DEF Idle, Active
  <1>3. ASSUME NEW rt \in Routes, NEW t \in Tenants, NEW c \in Keys \cup Roles \cup {None},
               Begun(q, rt, t, c)
        PROVE  /\ req'[q].cred \in Keys \cup Roles
               /\ req'[q].cred \in Keys /\ "member" \notin AtLeast(req'[q].route) =>
                        Ahead(q, "jwt")' \/ Ahead(q, "role")'
    <2>1. req'[q].route = rt /\ req'[q].at = 1 /\ req'[q].cred = c /\ c \in Keys \cup Roles
      BY <1>3 DEF Begun, Arrive
    <2>2. ASSUME "member" \notin AtLeast(rt)
          PROVE  \E i \in DOMAIN Program[rt] : i >= 1 /\ Program[rt][i] = "role"
      <3>1. rt \in {"cancel", "keyWrite", "export", "billing", "team"}
        BY <2>2 DEF AtLeast
      <3>2. Program["cancel"] = CancelTenant /\ Program["keyWrite"] = ApiKeyWrite
            /\ Program["export"] = Export /\ Program["billing"] = BillingSession
            /\ Program["team"] = Team
        BY DEF Program
      <3>3. CancelTenant[2] = "role" /\ BillingSession[2] = "role" /\ Team[2] = "role"
            /\ 2 \in DOMAIN CancelTenant /\ 2 \in DOMAIN BillingSession /\ 2 \in DOMAIN Team
        BY DEF CancelTenant, BillingSession, Team
      <3>4. ApiKeyWrite[3] = "role" /\ Export[3] = "role"
            /\ 3 \in DOMAIN ApiKeyWrite /\ 3 \in DOMAIN Export
        BY DEF ApiKeyWrite, Export
      <3> QED  BY <3>1, <3>2, <3>3, <3>4
    <2> QED  BY <2>1, <2>2 DEF Ahead
  <1>4. CASE Moved(q)
    <2>1. /\ req'[q].cred = req[q].cred /\ req'[q].route = req[q].route
          /\ Active(q) /\ Gate(q)
      BY <1>4 DEF TypeOK, Moved, Pass, Ready, Serving, Active, Call, Idle
    <2>2. ASSUME req[q].cred \in Keys, "member" \notin AtLeast(req[q].route)
          PROVE  Step(q) # "jwt" /\ Step(q) # "role"
      BY <2>1, <2>2 DEF Gate, Accepted, RoleOf
    <2> QED  BY <1>4, <2>1, <2>2, MovedAhead DEF KeysAreMembers
  <1> QED  BY <1>1, <1>2, <1>3, <1>4, RequestSteps

-----------------------------------------------------------------------------
\* Nothing is in flight.
LEMMA InitIInv == Init => IInv
  <1> SUFFICES ASSUME Init PROVE IInv
    OBVIOUS
  <1> USE GatewayAssumptions DEF Init
  <1>1. TypeOK
    BY DEF TypeOK
  <1>2. ~\E r \in Requests : Active(r)
    BY DEF Active, Idle
  <1>3. HoldersAreActive /\ LateStaysOut /\ KeysAreMembers
    BY <1>2 DEF HoldersAreActive, LateStaysOut, KeysAreMembers
  <1>4. PoolsAreBounded
    BY FS_EmptySet DEF PoolsAreBounded
  <1> QED  BY <1>1, <1>3, <1>4 DEF IInv

\* Every step keeps the inductive invariant.
LEMMA NextKeepsIInv == IInv /\ [Next]_vars => IInv'
  BY Typing, NextKeepsHolders, NextKeepsPoolsBounded, NextKeepsLateOut, NextKeepsKeysMembers
  DEF IInv

\* The inductive invariant: who has clients, how many, and who is not past
\* which check.
THEOREM Invariance == Spec => []IInv
  BY InitIInv, NextKeepsIInv, PTL DEF Spec

\* The type invariant of requests, pools and credentials.
THEOREM TypeCorrect == Spec => []TypeOK
  <1>1. IInv => TypeOK
    BY DEF IInv
  <1> QED  BY <1>1, Invariance, PTL

\* The pools never stand still on each other, whatever their sizes, however many
\* requests of whatever routes compete.
THEOREM NeverStandsStill == Spec => []NoStandstill
  <1>1. IInv => NoStandstill
    BY PoolsMove DEF IInv
  <1> QED  BY <1>1, Invariance, PTL

\* After a cancellation only owner-pool routes with a valid access token reach
\* their handler.
THEOREM LateReach == Spec => []LateReachesOwnerRoutesOnly
  <1>1. IInv => LateReachesOwnerRoutesOnly
    <2> SUFFICES ASSUME IInv, NEW r \in Requests, req[r].late, Handling(r)
                 PROVE  ~OnTenantPath(req[r].route) /\ req[r].cred \in Roles
      BY DEF LateReachesOwnerRoutesOnly
    <2>1. ~OnTenantPath(req[r].route)
      BY DEF IInv, LateStaysOut, Handling, Admitted
    <2>2. Active(r) /\ Protected(req[r].route) /\ req[r].route \in DOMAIN Program
      BY GatewayAssumptions DEF IInv, TypeOK, Call, Idle, Handling, Admitted, Active
    <2>3. req[r].route \in {"cancel", "billing", "team"}
      BY <2>1, <2>2, OwnerRoutes
    <2>4. "member" \notin AtLeast(req[r].route)
      BY <2>3 DEF AtLeast
    <2> QED  BY <2>1, <2>2, <2>4 DEF IInv, KeysAreMembers, Handling, Admitted
  <1> QED  BY <1>1, Invariance, PTL

\* A request passes its credential check only by the check.
LEMMA AdmittedByCheck ==
    ASSUME TypeOK, [Next]_vars, NEW q \in Requests, Admitted(q)'
    PROVE  \/ Admitted(q) /\ req'[q].cred = req[q].cred /\ req'[q].tenant = req[q].tenant
           \/ Moved(q) /\ Accepted(q) /\ Active(q) /\ Protected(req[q].route)
                /\ req'[q].cred = req[q].cred /\ req'[q].tenant = req[q].tenant
  <1> USE GatewayAssumptions
  <1>1. CASE req'[q] = req[q]
    BY <1>1 DEF Admitted, Active, Ahead
  <1>2. CASE req'[q] = Idle
    BY <1>2 DEF Admitted, Active, Idle
  <1>3. ASSUME NEW rt \in Routes, NEW t \in Tenants, NEW c \in Keys \cup Roles \cup {None},
               Begun(q, rt, t, c)
        PROVE  FALSE
    <2>1. req'[q].route = rt /\ req'[q].at = 1
      BY <1>3 DEF Begun
    <2>2. \A i \in DOMAIN Program[rt] : i >= 1
      BY DEF Program, ProjectsV1Write, ProjectsV1Read, ProjectsV2, ApiKeyList, ApiKeyWrite,
             Export, CancelTenant, BillingSession, Team, Signup, Credential, Ticket, Webhook,
             WebhookRecord
    <2> QED  BY <2>1, <2>2 DEF Admitted, Protected, Has, Ahead
  <1>4. CASE Moved(q)
    <2>1. /\ req'[q].cred = req[q].cred /\ req'[q].tenant = req[q].tenant
          /\ req'[q].route = req[q].route /\ Active(q) /\ Gate(q)
      BY <1>4 DEF TypeOK, Moved, Pass, Ready, Serving, Active, Call, Idle
    <2>2. CASE Step(q) \in {"auth", "jwt"}
      BY <1>4, <2>1, <2>2 DEF Gate, Admitted
    <2>3. CASE Step(q) \notin {"auth", "jwt"}
      BY <1>4, <2>1, <2>3, MovedAhead DEF Admitted, Active
    <2> QED  BY <2>2, <2>3
  <1> QED  BY <1>1, <1>2, <1>3, <1>4, RequestSteps

\* R5.3: a revoked key that nothing in flight was checked with stays out.
THEOREM RevokedKeysStayOut == Spec => RevokedKeyIsOut
  <1>1. TypeOK /\ [Next]_vars => [\A k \in Keys : Out(k) => Out(k)']_vars
    <2> SUFFICES ASSUME TypeOK, [Next]_vars, NEW k \in Keys, Out(k) PROVE Out(k)'
      OBVIOUS
    <2>1. k \in revoked'
      BY NothingComesBack DEF Out
    <2>2. ASSUME NEW q \in Requests, Admitted(q)', req'[q].cred = k PROVE FALSE
      BY <2>2, AdmittedByCheck DEF Out, Accepted
    <2> QED  BY <2>1, <2>2 DEF Out
  <1> QED  BY <1>1, TypeCorrect, PTL DEF Spec, RevokedKeyIsOut

\* Who issues a token has found its account by the lookup.
LEMMA IssuingByLookup ==
    ASSUME TypeOK, [Next]_vars, NEW q \in Requests, Issuing(q)'
    PROVE  \/ Issuing(q) /\ req'[q].tenant = req[q].tenant
           \/ /\ Moved(q) /\ Found(q) /\ req'[q].tenant = req[q].tenant
              /\ req[q].route \in {"login", "refresh"}
  <1> USE GatewayAssumptions
  <1>1. CASE req'[q] = req[q]
    BY <1>1 DEF Issuing, Ahead
  <1>2. CASE req'[q] = Idle
    BY <1>2 DEF Issuing, Idle, Program
  <1>3. ASSUME NEW rt \in Routes, NEW t \in Tenants, NEW c \in Keys \cup Roles \cup {None},
               Begun(q, rt, t, c)
        PROVE  FALSE
    <2>1. req'[q].route = rt /\ req'[q].at = 1
      BY <1>3 DEF Begun
    <2>2. Program["login"] = Credential /\ Program["refresh"] = Credential
          /\ Credential[2] = "lookup" /\ 2 \in DOMAIN Credential
      BY DEF Program, Credential
    <2> QED  BY <2>1, <2>2 DEF Issuing, Ahead
  <1>4. CASE Moved(q)
    <2>1. /\ req'[q].tenant = req[q].tenant /\ req'[q].route = req[q].route /\ Gate(q)
      BY <1>4 DEF TypeOK, Moved, Pass, Ready, Serving, Active, Call, Idle
    <2>2. CASE Step(q) = "lookup"
      BY <1>4, <2>1, <2>2 DEF Gate, Issuing
    <2>3. CASE Step(q) # "lookup"
      BY <1>4, <2>1, <2>3, MovedAhead DEF Issuing
    <2> QED  BY <2>2, <2>3
  <1> QED  BY <1>1, <1>2, <1>3, <1>4, RequestSteps

\* Only a transaction of login or refresh gives out a session or a token.
LEMMA OnlyIssuersIssue ==
    ASSUME TypeOK, [Next]_vars, NEW t \in Tenants,
           \A r \in Requests : req[r].tenant = t => ~Issuing(r)
    PROVE  /\ t \notin sessions => t \notin sessions'
           /\ (\A x \in Roles : left[t][x] = 0) => \A x \in Roles : left'[t][x] = 0
  <1> USE GatewayAssumptions DEF TypeOK
  <1>1. ASSUME NEW r \in Requests, Pass(r)
        PROVE  /\ t \notin sessions => t \notin sessions'
               /\ (\A x \in Roles : left[t][x] = 0) => \A x \in Roles : left'[t][x] = 0
    <2>1. CASE Step(r) = "tx" /\ req[r].route \in {"login", "refresh"}
      <3>1. req[r].at = 3
        <4>1. /\ Program["login"] = Credential /\ Program["refresh"] = Credential
              /\ Credential[1] = "ip" /\ Credential[2] = "lookup" /\ Len(Credential) = 3
          BY DEF Program, Credential
        <4>2. Serving(r) /\ req[r] \in Call
          BY <1>1 DEF Pass, Ready, Serving, Active, Idle
        <4>3. Program[req[r].route] = Credential
          BY <2>1, <4>1
        <4>4. req[r].at \in Nat \ {0} /\ req[r].at <= 3
          <5>1. req[r].at \in Nat \ {0}
            BY <4>2 DEF Call
          <5>2. req[r].at <= Len(Program[req[r].route])
            BY <4>2 DEF Serving
          <5> QED  BY <4>1, <4>3, <5>1, <5>2
        <4>5. Step(r) = Credential[req[r].at]
          BY <4>3 DEF Step
        <4> QED  BY <2>1, <4>1, <4>4, <4>5
      <3>2. Issuing(r)
        <4>1. Program["login"] = Credential /\ Program["refresh"] = Credential
          BY DEF Program
        <4>2. \A i \in DOMAIN Credential : i >= 3 => Credential[i] # "lookup"
          BY DEF Credential
        <4> QED  BY <2>1, <3>1, <4>1, <4>2 DEF Issuing, Ahead
      <3>3. /\ sessions' = sessions \cup {req[r].tenant}
            /\ left' = [left EXCEPT ![req[r].tenant][req[r].cred] = AccessTtl]
        BY <1>1, <2>1 DEF Pass, Effect
      <3>4. req[r].tenant # t
        BY <3>2
      <3> QED  BY <3>3, <3>4
    <2>2. CASE ~(Step(r) = "tx" /\ req[r].route \in {"login", "refresh"})
      <3>1. left' = left /\ sessions' \subseteq sessions
        BY <1>1, <2>2 DEF Pass, Effect
      <3> QED  BY <3>1
    <2> QED  BY <2>1, <2>2
  <1>2. CASE Tick
    BY <1>2 DEF Tick
  <1>3. ASSUME NEW u \in Tenants, SessionsEnd(u)
        PROVE  UNCHANGED left /\ (t \notin sessions => t \notin sessions')
    BY <1>3 DEF SessionsEnd
  <1>4. ASSUME NEW r \in Requests,
               \/ \E rt \in Routes, u \in Tenants, c \in Keys \cup Roles \cup {None} :
                    Arrive(r, rt, u, c)
               \/ Acquire(r) \/ Fail(r) \/ Send(r) \/ StartBump(r) \/ EndBump(r)
        PROVE  UNCHANGED <<sessions, left>>
    BY <1>4 DEF Arrive, Acquire, Fail, Send, StartBump, EndBump, creds
  <1>5. CASE UNCHANGED vars
    BY <1>5 DEF vars, creds
  <1> QED  BY <1>1, <1>2, <1>3, <1>4, <1>5 DEF Next

\* R2.3: a cancelled tenant without session, token or request past its check
\* stays out for good.
THEOREM OutOfReachIsForGood == Spec => OutOfReachForGood
  <1>1. IInv /\ [Next]_vars => [\A t \in Tenants : OutOfReach(t) => OutOfReach(t)']_vars
    <2> SUFFICES ASSUME IInv, [Next]_vars, NEW t \in Tenants, OutOfReach(t) PROVE OutOfReach(t)'
      OBVIOUS
    <2>0. TypeOK
      BY DEF IInv
    <2>1. org'[t] = "deleted"
      BY <2>0, NothingComesBack DEF OutOfReach
    <2>2. t \notin sessions' /\ \A x \in Roles : left'[t][x] = 0
      BY <2>0, OnlyIssuersIssue DEF OutOfReach
    <2>3. ASSUME NEW q \in Requests, req'[q].tenant = t, Issuing(q)' PROVE FALSE
      BY <2>0, <2>3, IssuingByLookup DEF OutOfReach, Found
    <2>4. ASSUME NEW q \in Requests, req'[q].tenant = t, Admitted(q)', req'[q].cred \notin Keys
          PROVE  FALSE
      <3>1. Moved(q) /\ Accepted(q) /\ Active(q) /\ req[q].tenant = t /\ req[q].cred \notin Keys
            /\ Protected(req[q].route)
        BY <2>0, <2>4, AdmittedByCheck DEF OutOfReach
      <3>2. req[q].cred \in Roles
        BY <3>1 DEF IInv, KeysAreMembers
      <3> QED  BY <3>1, <3>2 DEF Accepted, OutOfReach
    <2> QED  BY <2>1, <2>2, <2>3, <2>4 DEF OutOfReach
  <1> QED  BY <1>1, Invariance, PTL DEF Spec, OutOfReachForGood

-----------------------------------------------------------------------------
(* Access to tenants.                                                       *)

\* Nobody has a session, and nobody is opening one.
LEMMA AccessInit == Init => Access!Init
  BY GatewayAssumptions DEF Init, Access!Init, Deleted, Opening, Opens, Serving, Active, Idle

\* The steps of login and refresh, and where an account has been found.
LEMMA CredentialSteps ==
    ASSUME TypeOK, NEW r \in Requests, req[r].route \in {"login", "refresh"}
    PROVE  /\ req[r].at \in Nat \ {0}
           /\ Serving(r) <=> req[r].at <= 3
           /\ req[r].at = 1 => Step(r) = "ip"
           /\ req[r].at = 2 => Step(r) = "lookup"
           /\ req[r].at = 3 => Step(r) = "tx"
           /\ Issuing(r) <=> req[r].at >= 3
  <1> USE GatewayAssumptions
  <1>1. /\ Program["login"] = Credential /\ Program["refresh"] = Credential
        /\ Credential[1] = "ip" /\ Credential[2] = "lookup" /\ Credential[3] = "tx"
        /\ Len(Credential) = 3 /\ DOMAIN Credential = 1 .. 3
    BY DEF Program, Credential
  <1>2. Program[req[r].route] = Credential
    BY <1>1
  <1>3. Active(r) /\ req[r].at \in Nat \ {0}
    <2>1. {"login", "refresh"} \subseteq DOMAIN Program
      BY DEF Program
    <2>2. req[r].route # None
      BY <2>1
    <2>3. req[r] \in Call
      BY <2>2 DEF TypeOK, Idle
    <2> QED  BY <2>2, <2>3 DEF Active, Call
  <1>4. Serving(r) <=> req[r].at <= 3
    BY <1>1, <1>2, <1>3 DEF Serving
  <1>5. Issuing(r) <=> req[r].at >= 3
    BY <1>1, <1>2, <1>3 DEF Issuing, Ahead
  <1> QED  BY <1>1, <1>2, <1>3, <1>4, <1>5 DEF Step

\* A request opens a session of a tenant in the last step of login or refresh,
\* and nowhere else.
OpensLast ==
    \A r \in Requests, t \in Tenants :
        Opens(r, t) <=> /\ req[r].route \in {"login", "refresh"}
                        /\ req[r].at = 3 /\ req[r].tenant = t

LEMMA WhoOpens == TypeOK => OpensLast
  BY CredentialSteps DEF OpensLast, Opens, Issuing

\* What a step of one request can do to the tenants being opened.
LEMMA OpeningBy ==
    ASSUME TypeOK, TypeOK', NEW r \in Requests,
           \A q \in Requests \ {r} : req'[q] = req[q]
    PROVE  /\ \A n \in Tenants :
                (\A m \in Tenants : Opens(r, m)' <=> Opens(r, m) \/ m = n)
                    => Opening' = Opening \cup {n}
           /\ \A n \in Tenants :
                (\A m \in Tenants : ~Opens(r, m)' /\ (Opens(r, m) => m = n))
                    => Opening' \in {Opening, Opening \ {n}}
           /\ (\A m \in Tenants : Opens(r, m)' <=> Opens(r, m)) => Opening' = Opening
  <1>1. \A q \in Requests \ {r}, m \in Tenants : Opens(q, m)' <=> Opens(q, m)
    <2> SUFFICES ASSUME NEW q \in Requests \ {r}, NEW m \in Tenants
                 PROVE  Opens(q, m)' <=> Opens(q, m)
      OBVIOUS
    <2>1. req'[q] = req[q]
      OBVIOUS
    <2> QED  BY <2>1 DEF Opens, Serving, Active, Issuing, Ahead
  <1>2. ASSUME NEW n \in Tenants, \A m \in Tenants : Opens(r, m)' <=> Opens(r, m) \/ m = n
        PROVE  Opening' = Opening \cup {n}
    BY <1>1, <1>2 DEF Opening
  <1>3. ASSUME NEW n \in Tenants, \A m \in Tenants : ~Opens(r, m)' /\ (Opens(r, m) => m = n)
        PROVE  Opening' \in {Opening, Opening \ {n}}
    <2>1. \A m \in Tenants \ {n} : m \in Opening' <=> m \in Opening
      BY <1>1, <1>3 DEF Opening
    <2>2. n \in Opening' => n \in Opening
      BY <1>1, <1>3 DEF Opening
    <2>3. Opening \subseteq Tenants /\ Opening' \subseteq Tenants
      BY DEF Opening
    <2> QED  BY <2>1, <2>2, <2>3
  <1>4. ASSUME \A m \in Tenants : Opens(r, m)' <=> Opens(r, m)
        PROVE  Opening' = Opening
    BY <1>1, <1>4 DEF Opening
  <1> QED  BY <1>2, <1>3, <1>4

\* A step that a request passes: the lookup of login and refresh begins to open
\* a session, their transaction opens it, a cancellation closes the tenant's.
LEMMA PassStep ==
    ASSUME TypeOK, TypeOK', NEW r \in Requests, Pass(r)
    PROVE  [Access!Next]_(Access!vars)
  <1> USE GatewayAssumptions
  <1>1. /\ Serving(r) /\ req[r] \in Call /\ Gate(r) /\ Effect(r)
        /\ req'[r] = [req[r] EXCEPT !.at = @ + 1]
        /\ \A q \in Requests \ {r} : req'[q] = req[q]
    BY DEF TypeOK, Pass, Ready, Serving, Active, Idle
  <1>2. PICK n \in Tenants : n = req[r].tenant
    BY <1>1 DEF Call
  <1>3. /\ req[r].at \in Nat \ {0} /\ req'[r].at = req[r].at + 1
        /\ req'[r].route = req[r].route /\ req'[r].tenant = n
    BY <1>1, <1>2 DEF Call
  <1>4. \A m \in Tenants :
            /\ Opens(r, m) <=> req[r].route \in {"login", "refresh"} /\ req[r].at = 3 /\ m = n
            /\ Opens(r, m)' <=> req[r].route \in {"login", "refresh"} /\ req[r].at = 2 /\ m = n
    <2>1. OpensLast /\ OpensLast'
      BY WhoOpens, PTL
    <2> QED  BY <1>2, <1>3, <2>1 DEF OpensLast
  <1>5. CASE req[r].route \notin {"login", "refresh"}
    <2>1. Opening' = Opening
      BY <1>1, <1>4, <1>5, OpeningBy
    <2>2. CASE Step(r) = "tx" /\ req[r].route = "cancel"
      <3>1. org' = [org EXCEPT ![n] = "deleted"] /\ sessions' = {}
        BY <1>1, <1>2, <2>2 DEF Effect
      <3>2. Deleted' = Deleted \cup {n}
        BY <3>1 DEF TypeOK, Deleted
      <3>3. Access!Cancel(n)
        BY <2>1, <3>1, <3>2 DEF Access!Cancel, Access!EndCancel
      <3> QED  BY <3>3 DEF Access!Next
    <2>3. CASE Step(r) = "tx" /\ req[r].route = "signup"
      <3>1. /\ org' = [org EXCEPT ![n] = IF @ = "none" THEN "live" ELSE @]
            /\ sessions' = sessions
        BY <1>1, <1>2, <2>3 DEF Effect
      <3>2. \A t \in Tenants : org'[t] = "deleted" <=> org[t] = "deleted"
        BY <3>1 DEF TypeOK
      <3>3. Deleted' = Deleted
        BY <3>2 DEF Deleted
      <3> QED  BY <2>1, <3>1, <3>3 DEF Access!vars
    <2>4. CASE ~(Step(r) = "tx" /\ req[r].route \in {"cancel", "signup"})
      <3>1. org' = org /\ sessions' = sessions
        BY <1>1, <1>5, <2>4 DEF Effect
      <3> QED  BY <2>1, <3>1 DEF Access!vars, Deleted
    <2> QED  BY <2>2, <2>3, <2>4
  <1>6. CASE req[r].route \in {"login", "refresh"} /\ req[r].at = 1
    <2>1. Step(r) = "ip"
      BY <1>6, CredentialSteps
    <2>2. org' = org /\ sessions' = sessions
      BY <1>1, <2>1 DEF Effect
    <2>3. Opening' = Opening
      BY <1>1, <1>4, <1>6, OpeningBy
    <2> QED  BY <2>2, <2>3 DEF Access!vars, Deleted
  <1>7. CASE req[r].route \in {"login", "refresh"} /\ req[r].at = 2
    <2>1. Step(r) = "lookup"
      BY <1>7, CredentialSteps
    <2>2. org' = org /\ sessions' = sessions
      BY <1>1, <2>1 DEF Effect
    <2>3. Opening' = Opening \cup {n}
      BY <1>1, <1>4, <1>7, OpeningBy
    <2>4. n \notin Deleted \/ n \in sessions
      BY <1>1, <1>2, <1>7, <2>1 DEF Gate, Found, Deleted
    <2>5. Access!Begin(n)
      BY <2>2, <2>3, <2>4 DEF Access!Begin, Deleted
    <2> QED  BY <2>5 DEF Access!Next
  <1>8. CASE req[r].route \in {"login", "refresh"} /\ req[r].at = 3
    <2>1. Step(r) = "tx"
      BY <1>8, CredentialSteps
    <2>2. org' = org /\ sessions' = sessions \cup {n}
      BY <1>1, <1>2, <1>8, <2>1 DEF Effect
    <2>3. Opening' \in {Opening, Opening \ {n}}
      BY <1>1, <1>4, <1>8, OpeningBy
    <2>4. n \in Opening
      BY <1>4, <1>8 DEF Opening
    <2>5. Access!Open(n)
      BY <2>2, <2>3, <2>4 DEF Access!Open, Deleted
    <2> QED  BY <2>5 DEF Access!Next
  <1>9. req[r].route \in {"login", "refresh"} => req[r].at \in {1, 2, 3}
    BY <1>1, <1>3, CredentialSteps
  <1> QED  BY <1>5, <1>6, <1>7, <1>8, <1>9

\* Every step of the routes is one of access to tenants, or a stutter.
LEMMA AccessStep == TypeOK /\ [Next]_vars => [Access!Next]_(Access!vars)
  <1> SUFFICES ASSUME TypeOK, [Next]_vars PROVE [Access!Next]_(Access!vars)
    OBVIOUS
  <1>0. TypeOK'
    BY Typing
  <1> USE GatewayAssumptions
  <1>1. ASSUME NEW r \in Requests, NEW rt \in Routes, NEW t \in Tenants,
               NEW c \in Keys \cup Roles \cup {None}, Arrive(r, rt, t, c)
        PROVE  UNCHANGED Access!vars
    <2>1. /\ UNCHANGED <<org, sessions>>
          /\ \A q \in Requests \ {r} : req'[q] = req[q]
          /\ req'[r].at = 1 /\ ~Active(r)
      BY <1>1 DEF TypeOK, Arrive, creds
    <2>2. \A m \in Tenants : ~Opens(r, m)
      BY <2>1 DEF Opens, Serving
    <2>3. \A m \in Tenants : ~Opens(r, m)'
      <3>1. OpensLast'
        BY <1>0, WhoOpens, PTL
      <3> QED  BY <2>1, <3>1 DEF OpensLast
    <2>4. Opening' = Opening
      BY <1>0, <2>1, <2>2, <2>3, OpeningBy
    <2> QED  BY <2>1, <2>4 DEF Access!vars, Deleted
  <1>2. ASSUME NEW r \in Requests, Pass(r) PROVE [Access!Next]_(Access!vars)
    BY <1>0, <1>2, PassStep
  <1>3. ASSUME NEW r \in Requests, Fail(r) \/ Send(r) PROVE [Access!Next]_(Access!vars)
    <2>1. /\ UNCHANGED <<org, sessions>>
          /\ \A q \in Requests \ {r} : req'[q] = req[q]
          /\ req'[r] = Idle
      BY <1>3 DEF TypeOK, Fail, Send, creds
    <2>2. \A m \in Tenants : ~Opens(r, m)'
      BY <2>1 DEF Opens, Serving, Active, Idle
    <2>3. CASE \A m \in Tenants : ~Opens(r, m)
      <3>1. Opening' = Opening
        BY <1>0, <2>1, <2>2, <2>3, OpeningBy
      <3> QED  BY <2>1, <3>1 DEF Access!vars, Deleted
    <2>4. ASSUME NEW n \in Tenants, Opens(r, n) PROVE [Access!Next]_(Access!vars)
      <3>1. \A m \in Tenants : Opens(r, m) => m = n
        BY <2>4 DEF Opens
      <3>2. Opening' \in {Opening, Opening \ {n}}
        BY <1>0, <2>1, <2>2, <3>1, OpeningBy
      <3>3. CASE Opening' = Opening
        BY <2>1, <3>3 DEF Access!vars, Deleted
      <3>4. CASE Opening' = Opening \ {n}
        <4>1. Access!GiveUp(n)
          BY <2>1, <3>4 DEF Access!GiveUp, Deleted
        <4> QED  BY <4>1 DEF Access!Next
      <3> QED  BY <3>2, <3>3, <3>4
    <2> QED  BY <2>3, <2>4
  <1>4. ASSUME NEW t \in Tenants, SessionsEnd(t) PROVE Access!Next
    <2>1. Opening' = Opening /\ Deleted' = Deleted /\ sessions' \in SUBSET sessions
      BY <1>4 DEF SessionsEnd, Opening, Opens, Serving, Active, Issuing, Ahead, Deleted
    <2>2. Access!Close
      BY <2>1 DEF Access!Close
    <2> QED  BY <2>2 DEF Access!Next
  <1>5. ASSUME \/ \E r \in Requests : Acquire(r) \/ StartBump(r) \/ EndBump(r)
               \/ Tick \/ UNCHANGED vars
        PROVE  UNCHANGED Access!vars
    <2>1. UNCHANGED <<req, org, sessions>>
      BY <1>5 DEF Acquire, StartBump, EndBump, Tick, vars, creds
    <2> QED
      BY <2>1 DEF Access!vars, Deleted, Opening, Opens, Serving, Active, Issuing, Ahead
  <1> QED  BY <1>1, <1>2, <1>3, <1>4, <1>5 DEF Next

\* The assembled routes implement access to tenants: only an attempt whose
\* lookup found a live organisation, or a session of it, ends in a session, and
\* a cancellation ends the tenant's (R2.2, R2.3).
THEOREM Refinement == Spec => ImplementsAccess
  <1>1. TypeOK /\ [Next]_vars => [Access!Next]_(Access!vars)
    BY AccessStep
  <1> QED  BY AccessInit, <1>1, TypeCorrect, PTL DEF Spec, ImplementsAccess, Access!Spec
=============================================================================
