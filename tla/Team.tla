-------------------------------- MODULE Team --------------------------------
(* Organisations and their members: signup (src/src/auth/signup.service.ts),*)
(* invitations and role changes (src/src/team/team.service.ts), on the owner*)
(* pool, whose role row-level security does not restrict (see Sessions).    *)
(*                                                                          *)
(* acceptInvitation looks the invitation up outside its transaction.        *)
(* changeRole runs in one READ COMMITTED transaction that locks nothing     *)
(* before its UPDATE, so each of its statements sees what has committed by  *)
(* then: three actions.                                                     *)
EXTENDS Integers, FiniteSets

CONSTANTS
    Orgs, Emails,
    Invites,      \* invitations rows
    Requests,     \* the requests in flight
    None

Roles == {"owner", "admin", "member"}
Users == Orgs \X Emails     \* users has a unique index on (tenant_id, email)
Invitation == [org : Orgs, email : Emails, role : Roles \ {"owner"}]

ASSUME TeamAssumptions ==
    /\ None \notin Orgs \cup Emails \cup Invites \cup Roles \cup Invitation
    /\ IsFiniteSet(Orgs) /\ IsFiniteSet(Emails)

VARIABLES
    role,      \* [Users -> Roles \cup {None}]: users.role, None: no such row
    claims,    \* SUBSET (Users \X Roles): roles that access tokens were signed
               \* with; a token outlives a change of the role by its lifetime
    invite,    \* [Invites -> Invitation \cup {None}]
    closed,    \* SUBSET Invites: consumed or past expires_at
    step,      \* [Requests -> {"idle", "accept", "target", "count", "update"}]
    about,     \* [Requests -> Invites \cup Users \cup {None}]: the row concerned
    newRole,   \* [Requests -> Roles]: the role a change asks for
    joined,    \* history: [Invites -> Nat], users an invitation has created
    raced      \* history: [Requests -> BOOLEAN], another change of a role has
               \*          committed since the request began

reqVars == <<step, about, newRole>>
vars    == <<role, claims, invite, closed, reqVars, joined, raced>>

TypeOK ==
    /\ role \in [Users -> Roles \cup {None}]
    /\ claims \in SUBSET (Users \X Roles)
    /\ invite \in [Invites -> Invitation \cup {None}]
    /\ closed \in SUBSET Invites
    /\ step \in [Requests -> {"idle", "accept", "target", "count", "update"}]
    /\ about \in [Requests -> Invites \cup Users \cup {None}]
    /\ newRole \in [Requests -> Roles]
    /\ joined \in [Invites -> Nat]
    /\ raced \in [Requests -> BOOLEAN]

Init ==
    /\ role = [u \in Users |-> None]
    /\ claims = {}
    /\ invite = [i \in Invites |-> None]
    /\ closed = {}
    /\ step = [p \in Requests |-> "idle"]
    /\ about = [p \in Requests |-> None]
    /\ newRole = [p \in Requests |-> "member"]
    /\ joined = [i \in Invites |-> 0]
    /\ raced = [p \in Requests |-> FALSE]

-----------------------------------------------------------------------------
Members(o) == {u \in Users : u[1] = o /\ role[u] # None}
Owners(o)  == {u \in Members(o) : role[u] = "owner"}

\* requireRole(actor.role, "admin"): somebody of the organisation presents a
\* token signed with a sufficient role.
Privileged(o) ==
    \E c \in claims : c[1][1] = o /\ c[2] \in {"owner", "admin"}

Done(p) ==
    /\ step' = [step EXCEPT ![p] = "idle"]
    /\ about' = [about EXCEPT ![p] = None]
    /\ newRole' = [newRole EXCEPT ![p] = "member"]

\* signup: the organisation and its owner, in one transaction.
Signup(o, e) ==
    /\ Members(o) = {}
    /\ role' = [role EXCEPT ![<<o, e>>] = "owner"]
    /\ UNCHANGED <<claims, invite, closed, reqVars, joined, raced>>

\* login or refresh signs an access token with the current role.
SignToken(u) ==
    /\ role[u] # None
    /\ claims' = claims \cup {<<u, role[u]>>}
    /\ UNCHANGED <<role, invite, closed, reqVars, joined, raced>>

\* Mutant of Invite: an invitation to be an owner.
InviteOwner(o, e, r, i) ==
    /\ Privileged(o)
    /\ invite[i] = None
    /\ invite' = [invite EXCEPT ![i] = [org |-> o, email |-> e, role |-> "owner"]]
    /\ UNCHANGED <<role, claims, closed, reqVars, joined, raced>>

\* createInvitation.
Invite(o, e, r, i) ==
    /\ Privileged(o)
    /\ invite[i] = None
    /\ invite' = [invite EXCEPT ![i] = [org |-> o, email |-> e, role |-> r]]
    /\ UNCHANGED <<role, claims, closed, reqVars, joined, raced>>

\* expires_at passes.
Expire(i) ==
    /\ invite[i] # None
    /\ i \notin closed
    /\ closed' = closed \cup {i}
    /\ UNCHANGED <<role, claims, invite, reqVars, joined, raced>>

\* Mutant of AcceptLookup: consumed_at and expires_at are not looked at.
AcceptLookupClosed(p, i) ==
    /\ step[p] = "idle"
    /\ invite[i] # None
    /\ step' = [step EXCEPT ![p] = "accept"]
    /\ about' = [about EXCEPT ![p] = i]
    /\ UNCHANGED <<role, claims, invite, closed, newRole, joined, raced>>

\* acceptInvitation finds the invitation open; else 410.
AcceptLookup(p, i) ==
    /\ step[p] = "idle"
    /\ invite[i] # None
    /\ i \notin closed
    /\ step' = [step EXCEPT ![p] = "accept"]
    /\ about' = [about EXCEPT ![p] = i]
    /\ UNCHANGED <<role, claims, invite, closed, newRole, joined, raced>>

\* Mutant of Unregistered: no unique index.
UnregisteredOrNot(u) == TRUE

\* The users row does not violate the unique index.
Unregistered(u) == role[u] = None

\* Its transaction: the user, then consumed_at; a duplicate user fails it.
AcceptCommit(p) ==
    LET i == about[p]
        u == <<invite[i].org, invite[i].email>>
    IN
    /\ step[p] = "accept"
    /\ Unregistered(u)
    /\ role' = [role EXCEPT ![u] = invite[i].role]
    /\ closed' = closed \cup {i}
    /\ joined' = [joined EXCEPT ![i] = @ + 1]
    /\ raced' = [raced EXCEPT ![p] = FALSE]
    /\ Done(p)
    /\ UNCHANGED <<claims, invite>>

\* changeRole is called for user u, whatever u's organisation.
ChangeRole(p, o, u, r) ==
    /\ step[p] = "idle"
    /\ Privileged(o)
    /\ step' = [step EXCEPT ![p] = "target"]
    /\ about' = [about EXCEPT ![p] = u]
    /\ newRole' = [newRole EXCEPT ![p] = r]
    /\ UNCHANGED <<role, claims, invite, closed, joined, raced>>

\* SELECT role; only the demotion of an owner goes on to the count.
ReadTarget(p) ==
    LET u == about[p] IN
    /\ step[p] = "target"
    /\ role[u] # None
    /\ step' = [step EXCEPT ![p] =
                    IF role[u] = "owner" /\ newRole[p] # "owner" THEN "count" ELSE "update"]
    /\ UNCHANGED <<role, claims, invite, closed, about, newRole, joined, raced>>

\* SELECT count(*) FROM users WHERE role = 'owner', over every organisation.
OwnerCount == Cardinality(UNION {Owners(o) : o \in Orgs})

\* Mutant of CountOwners: off by one.
CountOwnersLast(p) ==
    /\ step[p] = "count"
    /\ OwnerCount >= 1
    /\ step' = [step EXCEPT ![p] = "update"]
    /\ UNCHANGED <<role, claims, invite, closed, about, newRole, joined, raced>>

\* The last-owner guard passes; at one or fewer it is 409.
CountOwners(p) ==
    /\ step[p] = "count"
    /\ OwnerCount > 1
    /\ step' = [step EXCEPT ![p] = "update"]
    /\ UNCHANGED <<role, claims, invite, closed, about, newRole, joined, raced>>

\* UPDATE users SET role; audit; COMMIT.
UpdateRole(p) ==
    /\ step[p] = "update"
    /\ role' = [role EXCEPT ![about[p]] = newRole[p]]
    /\ Done(p)
    /\ raced' = [q \in Requests |-> q # p /\ (raced[q] \/ step[q] # "idle")]
    /\ UNCHANGED <<claims, invite, closed, joined>>

\* 404, 409, a failed statement or a dead process: ROLLBACK.
Fail(p) ==
    /\ step[p] # "idle"
    /\ Done(p)
    /\ raced' = [raced EXCEPT ![p] = FALSE]
    /\ UNCHANGED <<role, claims, invite, closed, joined>>

Next ==
    \/ \E o \in Orgs, e \in Emails :
        \/ Signup(o, e)
        \/ SignToken(<<o, e>>)
        \/ \E i \in Invites, r \in Roles \ {"owner"} : Invite(o, e, r, i)
    \/ \E i \in Invites : Expire(i)
    \/ \E p \in Requests :
        \/ \E i \in Invites : AcceptLookup(p, i)
        \/ AcceptCommit(p)
        \/ \E o \in Orgs, u \in Users, r \in Roles : ChangeRole(p, o, u, r)
        \/ ReadTarget(p) \/ CountOwners(p) \/ UpdateRole(p)
        \/ Fail(p)

Spec == Init /\ [][Next]_vars

-----------------------------------------------------------------------------
(* Properties.                                                              *)

\* An invitation makes at most one user, however many accepts have found it
\* open (R20.3, R20.4): the unique index decides, not the stale lookup.
InvitationJoinsOnce == \A i \in Invites : joined[i] <= 1

\* The strengthening that makes InvitationJoinsOnce inductive: whoever has
\* joined stays a member, so the unique index refuses a second time.
JoinedStay ==
    \A i \in Invites : joined[i] > 0 =>
        invite[i] # None /\ role[<<invite[i].org, invite[i].email>>] # None

AcceptsHoldInvites ==
    \A p \in Requests : step[p] = "accept" => about[p] \in Invites /\ invite[about[p]] # None

ChangesHoldUsers ==
    \A p \in Requests : step[p] \in {"target", "count", "update"} => about[p] \in Users

IInv == TypeOK /\ JoinedStay /\ AcceptsHoldInvites /\ ChangesHoldUsers /\ InvitationJoinsOnce

\* R20.6 read literally: an organisation that has members has an owner.  False when
\* two owners are demoted at once; TeamProofs says what it takes.
EveryOrgHasOwner == \A o \in Orgs : Members(o) # {} => Owners(o) # {}

\* While there is one organisation it loses its last owner to nothing but a race
\* of role changes: a change that no other has overlapped leaves an owner.
OwnerLostOnlyToRace ==
    [][\A p \in Requests : \A o \in Orgs :
        (UpdateRole(p) /\ Owners(o) # {} /\ Owners(o)' = {}) => raced[p]]_vars

\* A consumed or expired invitation that no request still holds lets nobody in
\* any more.
ClosedStaysClosed ==
    [][\A i \in Invites :
        (i \in closed /\ ~\E p \in Requests : step[p] = "accept" /\ about[p] = i)
            => /\ joined'[i] = joined[i]
               /\ ~\E p \in Requests : step'[p] = "accept" /\ about'[p] = i]_vars
=============================================================================
