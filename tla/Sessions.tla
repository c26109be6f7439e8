------------------------------ MODULE Sessions ------------------------------
(* Refresh-token sessions: login (src/src/auth/login.service.ts), rotation  *)
(* and reuse detection (auth/refresh.service.ts), password reset            *)
(* (auth/password-reset.service.ts) and tenant cancellation                 *)
(* (tenants/lifecycle.service.ts), all on the owner pool.                   *)
(*                                                                          *)
(* Each of them but cancellation first reads a row outside any transaction, *)
(* decides, and only then writes in a transaction of its own: two actions   *)
(* here, between which the other requests run.  A transaction that revokes  *)
(* is two more, its UPDATE of refresh_tokens and its COMMIT: at READ        *)
(* COMMITTED the UPDATE reaches what is committed when it starts, and others *)
(* see it only from the COMMIT on.  A transaction that fails, and a process *)
(* that dies before it commits, write nothing: Abandon.                     *)
(*                                                                          *)
(* Those first reads name no tenant, so they find rows only because the     *)
(* owner pool's role is exempt from row-level security (.env.example:9, the *)
(* superuser of the integration tests and of the README); the module        *)
(* models that role.                                                        *)
EXTENDS Integers

CONSTANTS
    Users, Tenants,
    Tokens,             \* refresh_tokens rows; a family is named by its first
    Tickets,            \* auth_tokens rows of type 'password_reset'
    Requests,           \* the requests in flight
    TenantOf,           \* users.tenant_id
    Overlap,            \* rotationOverlapMs
    TokenTTL,           \* the refresh token's lifetime
    TicketTTL,          \* the reset token's lifetime
    MaxTime,            \* bound: the clock stops here
    None

ASSUME SessionAssumptions ==
    /\ TenantOf \in [Users -> Tenants]
    /\ Overlap \in Nat /\ TokenTTL \in Nat /\ TicketTTL \in Nat /\ MaxTime \in Nat
    /\ None \notin Users \cup Tokens \cup Tickets \cup Nat

VARIABLES
    now,        \* the clock
    family,     \* [Tokens -> Tokens \cup {None}]: family_id, None: no such row
    user,       \* [Tokens -> Users \cup {None}]: user_id
    usedAt,     \* [Tokens -> Nat \cup {None}]: used_at
    expires,    \* [Tokens -> Nat]: expires_at
    revoked,    \* SUBSET Tokens: revoked_at IS NOT NULL
    cancelled,  \* SUBSET Tenants: deleted_at IS NOT NULL
    password,   \* [Users -> Nat]: how often password_hash has been reset
    ticketFor,  \* [Tickets -> Users \cup {None}]: user_id, None: no such row
    ticketEnd,  \* [Tickets -> Nat]: expires_at
    consumed,   \* SUBSET Tickets: consumed_at IS NOT NULL
    step,       \* [Requests -> Steps]: what a request will write
    about,      \* [Requests -> ...]: the user, token or ticket it has read
    proof,      \* [Requests -> Nat]: password version that a login verified
    doomed,     \* [Requests -> SUBSET Tokens]: revoked by it, not yet committed
    raced,      \* history: [Requests -> BOOLEAN], a token that its UPDATE was
                \* to revoke has been inserted after the UPDATE
    epoch,      \* history: password version the token's login verified
    confirms    \* history: [Tickets -> Nat], how many resets a ticket made

tokenVars  == <<family, user, usedAt, expires, revoked, epoch>>
ticketVars == <<ticketFor, ticketEnd, consumed, confirms>>
reqVars    == <<step, about, proof, doomed, raced>>
vars       == <<now, tokenVars, cancelled, password, ticketVars, reqVars>>

Steps ==
    {"idle", "login", "rotate", "revoke", "revoking", "mail", "confirm", "confirming", "cancelling"}

TypeOK ==
    /\ now \in 0 .. MaxTime
    /\ family \in [Tokens -> Tokens \cup {None}]
    /\ user \in [Tokens -> Users \cup {None}]
    /\ usedAt \in [Tokens -> Nat \cup {None}]
    /\ expires \in [Tokens -> Nat]
    /\ revoked \in SUBSET Tokens
    /\ cancelled \in SUBSET Tenants
    /\ password \in [Users -> Nat]
    /\ ticketFor \in [Tickets -> Users \cup {None}]
    /\ ticketEnd \in [Tickets -> Nat]
    /\ consumed \in SUBSET Tickets
    /\ step \in [Requests -> Steps]
    /\ about \in [Requests -> Users \cup Tokens \cup Tickets \cup Tenants \cup {None}]
    /\ proof \in [Requests -> Nat]
    /\ doomed \in [Requests -> SUBSET Tokens]
    /\ raced \in [Requests -> BOOLEAN]
    /\ epoch \in [Tokens -> Nat]
    /\ confirms \in [Tickets -> Nat]

Init ==
    /\ now = 0
    /\ family = [t \in Tokens |-> None]
    /\ user = [t \in Tokens |-> None]
    /\ usedAt = [t \in Tokens |-> None]
    /\ expires = [t \in Tokens |-> 0]
    /\ revoked = {} /\ cancelled = {} /\ consumed = {}
    /\ password = [u \in Users |-> 0]
    /\ ticketFor = [k \in Tickets |-> None]
    /\ ticketEnd = [k \in Tickets |-> 0]
    /\ step = [p \in Requests |-> "idle"]
    /\ about = [p \in Requests |-> None]
    /\ proof = [p \in Requests |-> 0]
    /\ doomed = [p \in Requests |-> {}]
    /\ raced = [p \in Requests |-> FALSE]
    /\ epoch = [t \in Tokens |-> 0]
    /\ confirms = [k \in Tickets |-> 0]

-----------------------------------------------------------------------------
Issued   == {t \in Tokens : family[t] # None}
Live     == Issued \ revoked
Kin(f)   == {t \in Issued : family[t] = f}
Tenant(t) == TenantOf[user[t]]

\* The first half of a request: it has read row x and will do s.
Pending(p, s, x, v) ==
    /\ step[p] = "idle"
    /\ step' = [step EXCEPT ![p] = s]
    /\ about' = [about EXCEPT ![p] = x]
    /\ proof' = [proof EXCEPT ![p] = v]
    /\ UNCHANGED <<now, tokenVars, cancelled, password, ticketVars, doomed, raced>>

\* Whether a token of family f and user u is one that the transaction under way
\* in p revokes.
Aims(p, f, u) ==
    \/ step[p] = "revoking" /\ family[about[p]] = f
    \/ step[p] = "confirming" /\ ticketFor[about[p]] = u
    \/ step[p] = "cancelling" /\ about[p] = TenantOf[u]

\* The UPDATE of refresh_tokens in a transaction that revokes, once the UPDATE
\* of the user or organisation before it has the row.  Neither lock stops an
\* INSERT: foreign keys take FOR KEY SHARE, which FOR NO KEY UPDATE admits.  Nor
\* does it stop a rotation of a row it reaches: that one may have locked the row
\* first, or find used_at set and lock nothing.
Revoking(p, s, x, rows) ==
    /\ step' = [step EXCEPT ![p] = s]
    /\ about' = [about EXCEPT ![p] = x]
    /\ doomed' = [doomed EXCEPT ![p] = rows]
    /\ UNCHANGED <<now, tokenVars, cancelled, password, ticketVars, proof, raced>>

\* The second half ends: the request is answered.
Done(p) ==
    /\ step' = [step EXCEPT ![p] = "idle"]
    /\ about' = [about EXCEPT ![p] = None]
    /\ proof' = [proof EXCEPT ![p] = 0]
    /\ doomed' = [doomed EXCEPT ![p] = {}]

\* INSERT INTO refresh_tokens of a fresh token.
Mint(t, f, u, e) ==
    /\ family' = [family EXCEPT ![t] = f]
    /\ user' = [user EXCEPT ![t] = u]
    /\ expires' = [expires EXCEPT ![t] = now + TokenTTL]
    /\ epoch' = [epoch EXCEPT ![t] = e]
    /\ raced' = [p \in Requests |-> raced[p] \/ Aims(p, f, u)]

\* COMMIT of a transaction that revokes.
Revoked(p) ==
    /\ revoked' = revoked \cup doomed[p]
    /\ raced' = [raced EXCEPT ![p] = FALSE]
    /\ Done(p)

\* Mutant of LoginLookup: the organisation's deleted_at is not looked at.
LoginLookupAnyOrg(p, u) == Pending(p, "login", u, password[u])

\* login: the user's organisation is not deleted and the password verifies.
LoginLookup(p, u) ==
    /\ TenantOf[u] \notin cancelled
    /\ Pending(p, "login", u, password[u])

\* login's transaction: a token that starts a family.
LoginCommit(p, t) ==
    /\ step[p] = "login"
    /\ t \notin Issued
    /\ Mint(t, t, about[p], proof[p])
    /\ Done(p)
    /\ UNCHANGED <<now, usedAt, revoked, cancelled, password, ticketVars>>

Expired(t) == expires[t] < now
Stale(t)   == usedAt[t] # None /\ now - usedAt[t] > Overlap
\* Mutant of Suspect: revoked_at is not looked at.
SuspectIfStale(t) == Stale(t)

Suspect(t) == t \in revoked \/ Stale(t)

\* Mutant of AcceptToken: the 401 for a token without a row is missing.
AcceptTokenUnknown(p, t) ==
    /\ ~Expired(t) \/ t \notin Issued
    /\ ~Suspect(t)
    /\ Pending(p, "rotate", t, 0)

\* rotateRefreshToken finds the presented token fit for rotation ...
AcceptToken(p, t) ==
    /\ t \in Issued
    /\ ~Expired(t)
    /\ ~Suspect(t)
    /\ Pending(p, "rotate", t, 0)

\* ... or revoked or used too long ago.
DetectReuse(p, t) ==
    /\ t \in Issued
    /\ ~Expired(t)
    /\ Suspect(t)
    /\ Pending(p, "revoke", t, 0)

\* Mutants of Rotate: the successor's family_id is the token it replaces ...
RotateIntoNewFamily(p, n) ==
    LET t == about[p] IN
    /\ step[p] = "rotate"
    /\ n \notin Issued
    /\ usedAt' = [usedAt EXCEPT ![t] = IF @ = None THEN now ELSE @]
    /\ Mint(n, t, user[t], epoch[t])
    /\ Done(p)
    /\ UNCHANGED <<now, revoked, cancelled, password, ticketVars>>

\* ... and UPDATE without "used_at IS NULL".
RotateRestamps(p, n) ==
    LET t == about[p] IN
    /\ step[p] = "rotate"
    /\ n \notin Issued
    /\ usedAt' = [usedAt EXCEPT ![t] = now]
    /\ Mint(n, family[t], user[t], epoch[t])
    /\ Done(p)
    /\ UNCHANGED <<now, revoked, cancelled, password, ticketVars>>

\* The happy path's transaction: stamp used_at once, insert the successor.
Rotate(p, n) ==
    LET t == about[p] IN
    /\ step[p] = "rotate"
    /\ n \notin Issued
    /\ usedAt' = [usedAt EXCEPT ![t] = IF @ = None THEN now ELSE @]
    /\ Mint(n, family[t], user[t], epoch[t])
    /\ Done(p)
    /\ UNCHANGED <<now, revoked, cancelled, password, ticketVars>>

\* The reuse transaction revokes the whole family ...
RevokeFamily(p) ==
    /\ step[p] = "revoke"
    /\ Revoking(p, "revoking", about[p], Kin(family[about[p]]))

\* ... and the answer is 401.
RevokeCommit(p) ==
    /\ step[p] = "revoking"
    /\ Revoked(p)
    /\ UNCHANGED <<now, family, user, usedAt, expires, epoch, cancelled, password, ticketVars>>

\* requestPasswordReset finds the user ...
ResetLookup(p, u) ==
    /\ TenantOf[u] \notin cancelled
    /\ Pending(p, "mail", u, 0)

\* ... and stores the hash of a fresh ticket.
ResetCommit(p, k) ==
    /\ step[p] = "mail"
    /\ ticketFor[k] = None
    /\ ticketFor' = [ticketFor EXCEPT ![k] = about[p]]
    /\ ticketEnd' = [ticketEnd EXCEPT ![k] = now + TicketTTL]
    /\ Done(p)
    /\ UNCHANGED <<now, tokenVars, cancelled, password, consumed, confirms, raced>>

\* Mutant of ConfirmLookup: consumed_at is not looked at.
ConfirmLookupConsumed(p, k) ==
    /\ ticketFor[k] # None
    /\ ticketEnd[k] > now
    /\ Pending(p, "confirm", k, 0)

\* confirmPasswordReset finds the ticket open; else 400.
ConfirmLookup(p, k) ==
    /\ ticketFor[k] # None
    /\ k \notin consumed
    /\ ticketEnd[k] > now
    /\ Pending(p, "confirm", k, 0)

\* Its transaction: new password, ticket consumed, every token of the user
\* revoked.  A second reset of the user waits for the first at the user's row.
ConfirmUpdate(p) ==
    LET u == ticketFor[about[p]] IN
    /\ step[p] = "confirm"
    /\ \A q \in Requests : step[q] = "confirming" => ticketFor[about[q]] # u
    /\ Revoking(p, "confirming", about[p], {t \in Issued : user[t] = u})

\* Mutant of ConfirmCommit: the user's sessions stay.
ConfirmCommitKeepsSessions(p) ==
    LET k == about[p] IN
    /\ step[p] = "confirming"
    /\ password' = [password EXCEPT ![ticketFor[k]] = @ + 1]
    /\ consumed' = consumed \cup {k}
    /\ confirms' = [confirms EXCEPT ![k] = @ + 1]
    /\ raced' = [raced EXCEPT ![p] = FALSE]
    /\ Done(p)
    /\ UNCHANGED <<now, tokenVars, cancelled, ticketFor, ticketEnd>>

ConfirmCommit(p) ==
    LET k == about[p] IN
    /\ step[p] = "confirming"
    /\ password' = [password EXCEPT ![ticketFor[k]] = @ + 1]
    /\ consumed' = consumed \cup {k}
    /\ confirms' = [confirms EXCEPT ![k] = @ + 1]
    /\ Revoked(p)
    /\ UNCHANGED <<now, family, user, usedAt, expires, epoch, cancelled,
                   ticketFor, ticketEnd>>

\* cancelTenant's transaction.  Its UPDATE of refresh_tokens has no filter on
\* the tenant and leaves that to the policy, from which the role is exempt.  A
\* second cancellation of the tenant waits for the first at its row.
CancelUpdate(p, n) ==
    /\ step[p] = "idle"
    /\ \A q \in Requests : step[q] = "cancelling" => about[q] # n
    /\ Revoking(p, "cancelling", n, Issued)

CancelCommit(p) ==
    /\ step[p] = "cancelling"
    /\ cancelled' = cancelled \cup {about[p]}
    /\ Revoked(p)
    /\ UNCHANGED <<now, family, user, usedAt, expires, epoch, password, ticketVars>>

\* The transaction fails, or the process dies first: nothing is written.
Abandon(p) ==
    /\ step[p] # "idle"
    /\ raced' = [raced EXCEPT ![p] = FALSE]
    /\ Done(p)
    /\ UNCHANGED <<now, tokenVars, cancelled, password, ticketVars>>

Tick ==
    /\ now < MaxTime
    /\ now' = now + 1
    /\ UNCHANGED <<tokenVars, cancelled, password, ticketVars, reqVars>>

Next ==
    \/ \E p \in Requests :
        \/ \E u \in Users : LoginLookup(p, u) \/ ResetLookup(p, u)
        \/ \E t \in Tokens : \/ LoginCommit(p, t)
                             \/ AcceptToken(p, t)
                             \/ DetectReuse(p, t)
                             \/ Rotate(p, t)
        \/ RevokeFamily(p) \/ RevokeCommit(p)
        \/ \E k \in Tickets : ResetCommit(p, k) \/ ConfirmLookup(p, k)
        \/ ConfirmUpdate(p) \/ ConfirmCommit(p)
        \/ \E n \in Tenants : CancelUpdate(p, n)
        \/ CancelCommit(p)
        \/ Abandon(p)
    \/ Tick

Spec == Init /\ [][Next]_vars

-----------------------------------------------------------------------------
(* Properties.                                                              *)

\* One family_id reaches every token descended from a login: each token is in
\* the family of a first token, which belongs to the same user, and shares the
\* password that its login verified.
FamiliesAreWhole ==
    \A t \in Issued :
        LET f == family[t] IN
        /\ f \in Issued
        /\ family[f] = f
        /\ user[f] = user[t]
        /\ epoch[f] = epoch[t]

\* What a request has read is still there when it writes: no token, ticket or
\* user row disappears under the second half of an operation, which looks at
\* none of them again.
PendingIsGrounded ==
    \A p \in Requests :
        /\ step[p] \in {"login", "mail"} => about[p] \in Users
        /\ step[p] \in {"rotate", "revoke", "revoking"} => about[p] \in Issued
        /\ step[p] \in {"confirm", "confirming"} =>
                about[p] \in Tickets /\ ticketFor[about[p]] \in Users
        /\ step[p] = "cancelling" => about[p] \in Tenants

IssuedHaveUsers == \A t \in Issued : user[t] \in Users

\* A transaction that revokes has reached every live token it is about, unless
\* one was inserted after its UPDATE; two of one user or tenant never overlap.
UpdatesReachAll ==
    /\ revoked \subseteq Issued
    /\ \A p \in Requests :
        /\ raced[p] => step[p] \in {"revoking", "confirming", "cancelling"}
        /\ doomed[p] \subseteq Issued
        /\ \A t \in Live : Aims(p, family[t], user[t]) /\ ~raced[p] => t \in doomed[p]
    /\ \A p, q \in Requests :
        /\ step[p] = "cancelling" /\ step[q] = "cancelling" /\ about[p] = about[q] => p = q
        /\ step[p] = "confirming" /\ step[q] = "confirming"
                /\ ticketFor[about[p]] = ticketFor[about[q]] => p = q

\* The strengthening that makes FamiliesAreWhole inductive, and the properties
\* of revocations true of every step.
IInv == TypeOK /\ IssuedHaveUsers /\ PendingIsGrounded /\ FamiliesAreWhole /\ UpdatesReachAll

\* A request in flight that will mint a token in family f.
Rotating(f) == \E p \in Requests : step[p] = "rotate" /\ family[about[p]] = f

\* A family all of whose tokens are revoked, with no rotation in flight, never
\* comes back to life: no refresh re-opens a revoked session (R3.4).
DeadFamily(f) == f \in Issued /\ Kin(f) \cap Live = {} /\ ~Rotating(f)

DeadFamilyStaysDead == [][\A f \in Tokens : DeadFamily(f) => DeadFamily(f)']_vars

\* The overlap window is counted from the first use: a later use of the same
\* token, and the loser of a race of two rotations, do not move it (R3.6).
FirstUseStands ==
    [][\A t \in Tokens : usedAt[t] # None => usedAt'[t] = usedAt[t]]_vars

\* A cancelled tenant with no session left and none in the making gets none
\* (R2.2, R2.3): login refuses, and there is nothing left to refresh.
Opens(p, n) ==
    \/ step[p] = "login" /\ TenantOf[about[p]] = n
    \/ step[p] = "rotate" /\ Tenant(about[p]) = n

OpenTenants    == {n \in Tenants : \E t \in Live : Tenant(t) = n}
OpeningTenants == {n \in Tenants : \E p \in Requests : Opens(p, n)}

ShutOut(n) == n \in cancelled /\ n \notin OpenTenants /\ n \notin OpeningTenants

CancelledStaysOut == [][\A n \in Tenants : ShutOut(n) => ShutOut(n)']_vars

\* Requests that may still mint a token on the strength of an old password.
OldMint(u) ==
    \E p \in Requests :
        \/ step[p] = "login" /\ about[p] = u /\ proof[p] < password[u]
        \/ step[p] = "rotate" /\ user[about[p]] = u /\ epoch[about[p]] < password[u]

OldSession(u) == \E t \in Live : user[t] = u /\ epoch[t] < password[u]

\* A session of u has been opened since the UPDATE of the reset under way.
Overlapped(u) ==
    \E p \in Requests : step[p] = "confirming" /\ ticketFor[about[p]] = u /\ raced[p]

\* No session outlives the password it was opened with, apart from two races: a
\* reset ends every older session of the user unless one was inserted between
\* its UPDATE and its COMMIT; and when there is none, only a login or rotation
\* that has read its row before the reset's COMMIT brings one back.
ResetEndsOldSessions ==
    [][\A u \in Users :
        /\ password'[u] # password[u] /\ ~Overlapped(u) => ~OldSession(u)'
        /\ ~OldSession(u) /\ ~OldMint(u) /\ password'[u] = password[u]
                => ~OldSession(u)' /\ ~OldMint(u)']_vars

\* A request that has found ticket k open and will reset with it.
Holds(p, k) == step[p] \in {"confirm", "confirming"} /\ about[p] = k

\* A consumed ticket that no request still holds makes no further reset
\* (R22.4): replay fails unless it overlaps the first use.
SpentTicketIsFinal ==
    [][\A k \in Tickets :
        k \in consumed /\ ~(\E p \in Requests : Holds(p, k))
            => confirms'[k] = confirms[k] /\ k \in consumed'
               /\ ~(\E p \in Requests : Holds(p, k))']_vars

\* Cancelling a tenant revokes sessions of that tenant only (R2.2).
CancelIsScoped ==
    [][cancelled' # cancelled =>
        \A t \in revoked' \ revoked : Tenant(t) \in cancelled' \ cancelled]_vars

\* Tokens, their families and the statements of every operation implement one
\* notion of access per tenant: who may begin to open a session, and when none
\* is left (R2.2, R2.3).
CancellingTenants == {n \in Tenants : \E p \in Requests : step[p] = "cancelling" /\ about[p] = n}
MissedTenants ==
    {n \in Tenants : \E p \in Requests : step[p] = "cancelling" /\ about[p] = n /\ raced[p]}

Access == INSTANCE TenantAccess WITH
    deleted <- cancelled,
    open <- OpenTenants,
    opening <- OpeningTenants,
    cancelling <- CancellingTenants,
    missed <- MissedTenants

ImplementsAccess == Access!Spec
=============================================================================
