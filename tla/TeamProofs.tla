----------------------------- MODULE TeamProofs -----------------------------
(* Proofs about Team, for any organisations, addresses, invitations and     *)
(* requests.                                                                *)
EXTENDS Team, FiniteSetTheorems, TLAPS

\* There is nobody yet.
LEMMA InitIInv == Init => IInv
  BY TeamAssumptions
  DEF Init, IInv, TypeOK, JoinedStay, AcceptsHoldInvites, ChangesHoldUsers,
      InvitationJoinsOnce, Roles

\* Creating a user from an invitation: the unique index refuses a second one.
LEMMA AcceptKeepsIInv ==
    ASSUME IInv, NEW p \in Requests, AcceptCommit(p) PROVE IInv'
  <1>0. TypeOK /\ JoinedStay /\ AcceptsHoldInvites /\ ChangesHoldUsers /\ InvitationJoinsOnce
    BY DEF IInv
  <1> DEFINE i == about[p]
             u == <<invite[i].org, invite[i].email>>
  <1>1. i \in Invites /\ invite[i] \in Invitation /\ u \in Users /\ invite[i].role \in Roles
    BY <1>0 DEF TypeOK, AcceptsHoldInvites, AcceptCommit, Users, Invitation
  <1>2. joined[i] = 0
    BY <1>0, <1>1 DEF TypeOK, JoinedStay, AcceptCommit, Unregistered
  <1>3. TypeOK'
    BY <1>0, <1>1 DEF TypeOK, AcceptCommit, Done, Roles
  <1>4. JoinedStay' /\ InvitationJoinsOnce'
    BY <1>0, <1>1, <1>2, TeamAssumptions
    DEF TypeOK, JoinedStay, InvitationJoinsOnce, AcceptCommit, Unregistered
  <1>5. AcceptsHoldInvites' /\ ChangesHoldUsers'
    BY <1>0 DEF TypeOK, AcceptsHoldInvites, ChangesHoldUsers, AcceptCommit, Done
  <1> QED  BY <1>3, <1>4, <1>5 DEF IInv

\* The inductive step: no other operation lets anybody join, and none removes
\* a member.
LEMMA NextKeepsIInv == IInv /\ [Next]_vars => IInv'
  <1> SUFFICES ASSUME IInv, [Next]_vars PROVE IInv'
    OBVIOUS
  <1>0. TypeOK /\ JoinedStay /\ AcceptsHoldInvites /\ ChangesHoldUsers /\ InvitationJoinsOnce
    BY DEF IInv
  <1> DEFINE Inv == /\ TypeOK /\ JoinedStay /\ AcceptsHoldInvites /\ ChangesHoldUsers
                    /\ InvitationJoinsOnce
  <1>1. ASSUME NEW o \in Orgs, NEW e \in Emails, Signup(o, e) PROVE Inv'
    BY <1>0, <1>1, TeamAssumptions
    DEF TypeOK, JoinedStay, AcceptsHoldInvites, ChangesHoldUsers, InvitationJoinsOnce, Roles,
        Signup, Users, reqVars
  <1>2. ASSUME NEW o \in Orgs, NEW e \in Emails, SignToken(<<o, e>>) PROVE Inv'
    BY <1>0, <1>2, TeamAssumptions
    DEF TypeOK, JoinedStay, AcceptsHoldInvites, ChangesHoldUsers, InvitationJoinsOnce, Roles,
        SignToken, Users, reqVars
  <1>3. ASSUME NEW o \in Orgs, NEW e \in Emails, NEW i \in Invites, NEW r \in Roles \ {"owner"},
               Invite(o, e, r, i)
        PROVE  Inv'
    <2>1. [org |-> o, email |-> e, role |-> r] \in Invitation
      BY DEF Invitation
    <2> QED
      BY <1>0, <1>3, <2>1, TeamAssumptions
      DEF TypeOK, JoinedStay, AcceptsHoldInvites, ChangesHoldUsers, InvitationJoinsOnce, Roles,
          Invite, reqVars
  <1>4. ASSUME NEW i \in Invites, Expire(i) PROVE Inv'
    BY <1>0, <1>4, TeamAssumptions
    DEF TypeOK, JoinedStay, AcceptsHoldInvites, ChangesHoldUsers, InvitationJoinsOnce, Roles,
        Expire, reqVars
  <1>5. ASSUME NEW p \in Requests, NEW i \in Invites, AcceptLookup(p, i) PROVE Inv'
    BY <1>0, <1>5, TeamAssumptions
    DEF TypeOK, JoinedStay, AcceptsHoldInvites, ChangesHoldUsers, InvitationJoinsOnce, Roles,
        AcceptLookup
  <1>6. ASSUME NEW p \in Requests, NEW o \in Orgs, NEW u \in Users, NEW r \in Roles,
               ChangeRole(p, o, u, r)
        PROVE  Inv'
    BY <1>0, <1>6, TeamAssumptions
    DEF TypeOK, JoinedStay, AcceptsHoldInvites, ChangesHoldUsers, InvitationJoinsOnce, Roles,
        ChangeRole
  <1>7. ASSUME NEW p \in Requests, ReadTarget(p) \/ CountOwners(p) PROVE Inv'
    BY <1>0, <1>7, TeamAssumptions
    DEF TypeOK, JoinedStay, AcceptsHoldInvites, ChangesHoldUsers, InvitationJoinsOnce, Roles,
        ReadTarget, CountOwners
  <1>8. ASSUME NEW p \in Requests, UpdateRole(p) PROVE Inv'
    BY <1>0, <1>8, TeamAssumptions
    DEF TypeOK, JoinedStay, AcceptsHoldInvites, ChangesHoldUsers, InvitationJoinsOnce, Roles,
        UpdateRole, Done
  <1>9. ASSUME NEW p \in Requests, Fail(p) PROVE Inv'
    BY <1>0, <1>9, TeamAssumptions
    DEF TypeOK, JoinedStay, AcceptsHoldInvites, ChangesHoldUsers, InvitationJoinsOnce, Roles,
        Fail, Done
  <1>10. ASSUME UNCHANGED vars PROVE Inv'
    BY <1>0, <1>10, TeamAssumptions
    DEF TypeOK, JoinedStay, AcceptsHoldInvites, ChangesHoldUsers, InvitationJoinsOnce, Roles,
        vars, reqVars
  <1>11. ASSUME NEW p \in Requests, AcceptCommit(p) PROVE Inv'
    BY <1>11, AcceptKeepsIInv DEF IInv
  <1>12. Inv'
    BY <1>1, <1>2, <1>3, <1>4, <1>5, <1>6, <1>7, <1>8, <1>9, <1>10, <1>11 DEF Next
  <1> QED  BY <1>12 DEF IInv

\* The inductive invariant holds in every reachable state.
THEOREM Invariance == Spec => []IInv
  BY InitIInv, NextKeepsIInv, PTL DEF Spec

\* Every variable keeps its type.
THEOREM TypeCorrect == Spec => []TypeOK
  <1>1. IInv => TypeOK
    BY DEF IInv
  <1> QED  BY <1>1, Invariance, PTL

\* R20.3, R20.4: an invitation makes one user at most, however many accepts
\* have found it open.
THEOREM InvitationsJoinOnce == Spec => []InvitationJoinsOnce
  <1>1. IInv => InvitationJoinsOnce
    BY DEF IInv
  <1> QED  BY <1>1, Invariance, PTL

\* A closed invitation that nobody holds stays so: AcceptLookup reads closed,
\* and only an accept in hand lets anybody join.
LEMMA ClosedStep ==
    ASSUME IInv, [Next]_vars, NEW i \in Invites, i \in closed,
           ~\E p \in Requests : step[p] = "accept" /\ about[p] = i
    PROVE  /\ joined'[i] = joined[i]
           /\ ~\E p \in Requests : step'[p] = "accept" /\ about'[p] = i
  <1>0. TypeOK
    BY DEF IInv
  <1>1. ASSUME NEW p \in Requests, NEW j \in Invites, AcceptLookup(p, j)
        PROVE  joined' = joined /\ ~\E q \in Requests : step'[q] = "accept" /\ about'[q] = i
    BY <1>0, <1>1 DEF TypeOK, AcceptLookup
  <1>2. ASSUME NEW p \in Requests, AcceptCommit(p)
        PROVE  joined'[i] = joined[i] /\ ~\E q \in Requests : step'[q] = "accept" /\ about'[q] = i
    BY <1>0, <1>2 DEF TypeOK, AcceptCommit, Done
  <1>3. ASSUME NEW p \in Requests,
               \/ \E o \in Orgs, u \in Users, r \in Roles : ChangeRole(p, o, u, r)
               \/ ReadTarget(p) \/ CountOwners(p)
        PROVE  joined' = joined /\ ~\E q \in Requests : step'[q] = "accept" /\ about'[q] = i
    BY <1>0, <1>3 DEF TypeOK, ChangeRole, ReadTarget, CountOwners
  <1>4. ASSUME NEW p \in Requests, UpdateRole(p) \/ Fail(p)
        PROVE  joined' = joined /\ ~\E q \in Requests : step'[q] = "accept" /\ about'[q] = i
    BY <1>0, <1>4 DEF TypeOK, UpdateRole, Fail, Done
  <1>5. ASSUME UNCHANGED <<reqVars, joined>>
        PROVE  joined' = joined /\ ~\E q \in Requests : step'[q] = "accept" /\ about'[q] = i
    BY <1>5 DEF reqVars
  <1> QED
    BY <1>1, <1>2, <1>3, <1>4, <1>5 DEF Next, vars, Signup, SignToken, Invite, Expire

\* A consumed or expired invitation that no accept holds is closed for good.
THEOREM ClosedInvitationsStayClosed == Spec => ClosedStaysClosed
  <1>1. IInv /\ [Next]_vars =>
            [\A i \in Invites :
                (i \in closed /\ ~\E p \in Requests : step[p] = "accept" /\ about[p] = i)
                    => /\ joined'[i] = joined[i]
                       /\ ~\E p \in Requests : step'[p] = "accept" /\ about'[p] = i]_vars
    BY ClosedStep
  <1> QED  BY <1>1, Invariance, PTL DEF Spec, ClosedStaysClosed

TwoOwners == \E u, v \in Users : u # v /\ role[u] = "owner" /\ role[v] = "owner"

\* What a change that no other has overlapped still knows from its reads.
UnracedIsSafe ==
    \A p \in Requests : step[p] \in {"count", "update"} /\ ~raced[p] =>
        /\ role[about[p]] # None
        /\ step[p] = "update" =>
                newRole[p] = "owner" \/ role[about[p]] # "owner" \/ TwoOwners

\* A count above one means two different owners.
LEMMA CountedTwo == TypeOK /\ OwnerCount > 1 => TwoOwners
  <1> SUFFICES ASSUME TypeOK, OwnerCount > 1 PROVE TwoOwners
    OBVIOUS
  <1> DEFINE O == UNION {Owners(o) : o \in Orgs}
  <1>1. IsFiniteSet(Users)
    BY FS_Product, TeamAssumptions DEF Users
  <1>2. O \in SUBSET Users /\ \A u \in O : role[u] = "owner"
    BY DEF Owners, Members
  <1>3. IsFiniteSet(O)
    BY <1>1, <1>2, FS_Subset
  <1>4. Cardinality(O) > 1
    BY DEF OwnerCount
  <1>5. O # {} /\ ~\E u : O = {u}
    BY <1>3, <1>4, FS_EmptySet, FS_Singleton
  <1>6. PICK u \in O, v \in O : u # v
    BY <1>5
  <1> QED  BY <1>2, <1>6 DEF TwoOwners

\* Owners only go by a change of a role, and that marks whatever it overlaps.
LEMMA NextKeepsUnraced == IInv /\ UnracedIsSafe /\ [Next]_vars => UnracedIsSafe'
  <1> SUFFICES ASSUME IInv, UnracedIsSafe, [Next]_vars PROVE UnracedIsSafe'
    OBVIOUS
  <1> USE TeamAssumptions
  <1>0. TypeOK /\ AcceptsHoldInvites /\ ChangesHoldUsers
    BY DEF IInv
  <1>1. ASSUME \A u \in Users : role[u] # None => role'[u] = role[u],
               \A p \in Requests : step'[p] \in {"count", "update"} =>
                    /\ step'[p] = step[p] /\ about'[p] = about[p] /\ newRole'[p] = newRole[p]
                    /\ raced'[p] = raced[p]
        PROVE  UnracedIsSafe'
    <2>1. TwoOwners => TwoOwners'
      BY <1>1 DEF TwoOwners, Roles
    <2>2. ASSUME NEW p \in Requests, step'[p] \in {"count", "update"}, ~raced'[p]
          PROVE  /\ role'[about'[p]] # None
                 /\ step'[p] = "update" =>
                        newRole'[p] = "owner" \/ role'[about'[p]] # "owner" \/ TwoOwners'
      <3>1. about[p] \in Users /\ role[about[p]] # None /\ role'[about'[p]] = role[about[p]]
        BY <1>0, <1>1, <2>2 DEF UnracedIsSafe, ChangesHoldUsers
      <3> QED  BY <1>1, <2>1, <2>2, <3>1 DEF UnracedIsSafe
    <2> QED  BY <2>2 DEF UnracedIsSafe
  <1>2. ASSUME NEW o \in Orgs, NEW e \in Emails, Signup(o, e) PROVE UnracedIsSafe'
    <2>1. <<o, e>> \in Users /\ role[<<o, e>>] = None
      BY <1>2 DEF Signup, Members, Users
    <2>2. \A u \in Users : role[u] # None => role'[u] = role[u]
      BY <1>0, <1>2, <2>1 DEF TypeOK, Signup
    <2> QED  BY <1>1, <1>2, <2>2 DEF Signup, reqVars
  <1>3. ASSUME NEW p \in Requests, AcceptCommit(p) PROVE UnracedIsSafe'
    <2>1. \A u \in Users : role[u] # None => role'[u] = role[u]
      BY <1>0, <1>3 DEF TypeOK, AcceptCommit, Unregistered
    <2>2. \A q \in Requests : step'[q] \in {"count", "update"} =>
                /\ step'[q] = step[q] /\ about'[q] = about[q] /\ newRole'[q] = newRole[q]
                /\ raced'[q] = raced[q]
      BY <1>0, <1>3 DEF TypeOK, AcceptCommit, Done
    <2> QED  BY <1>1, <2>1, <2>2
  <1>4. ASSUME NEW p \in Requests,
               \/ \E i \in Invites : AcceptLookup(p, i)
               \/ \E o \in Orgs, u \in Users, r \in Roles : ChangeRole(p, o, u, r)
        PROVE  UnracedIsSafe'
    <2>1. \A q \in Requests : step'[q] \in {"count", "update"} =>
                /\ step'[q] = step[q] /\ about'[q] = about[q] /\ newRole'[q] = newRole[q]
                /\ raced'[q] = raced[q]
      BY <1>0, <1>4 DEF TypeOK, AcceptLookup, ChangeRole
    <2> QED  BY <1>1, <1>4, <2>1 DEF AcceptLookup, ChangeRole
  <1>5. ASSUME NEW p \in Requests, ReadTarget(p) PROVE UnracedIsSafe'
    <2>1. UNCHANGED <<role, about, newRole, raced>> /\ role[about[p]] # None
      BY <1>5 DEF ReadTarget
    <2>2. step'[p] = "update" => role[about[p]] # "owner" \/ newRole[p] = "owner"
      BY <1>0, <1>5 DEF TypeOK, ReadTarget
    <2>3. \A q \in Requests \ {p} : step'[q] = step[q]
      BY <1>0, <1>5 DEF TypeOK, ReadTarget
    <2> QED  BY <2>1, <2>2, <2>3 DEF UnracedIsSafe, TwoOwners
  <1>6. ASSUME NEW p \in Requests, CountOwners(p) PROVE UnracedIsSafe'
    <2>1. UNCHANGED <<role, about, newRole, raced>> /\ TwoOwners /\ step[p] = "count"
      BY <1>0, <1>6, CountedTwo DEF CountOwners
    <2>2. \A q \in Requests \ {p} : step'[q] = step[q]
      BY <1>0, <1>6 DEF TypeOK, CountOwners
    <2> QED  BY <2>1, <2>2 DEF UnracedIsSafe, TwoOwners
  <1>7. ASSUME NEW p \in Requests, UpdateRole(p) PROVE UnracedIsSafe'
    <2>1. \A q \in Requests : step'[q] \in {"count", "update"} => raced'[q]
      BY <1>0, <1>7 DEF TypeOK, UpdateRole, Done
    <2> QED  BY <2>1 DEF UnracedIsSafe
  <1>8. ASSUME NEW p \in Requests, Fail(p) PROVE UnracedIsSafe'
    <2>1. \A q \in Requests : step'[q] \in {"count", "update"} =>
                /\ step'[q] = step[q] /\ about'[q] = about[q] /\ newRole'[q] = newRole[q]
                /\ raced'[q] = raced[q]
      BY <1>0, <1>8 DEF TypeOK, Fail, Done
    <2> QED  BY <1>1, <1>8, <2>1 DEF Fail
  <1>9. ASSUME UNCHANGED <<role, reqVars, raced>> PROVE UnracedIsSafe'
    BY <1>1, <1>9 DEF reqVars
  <1> QED
    BY <1>2, <1>3, <1>4, <1>5, <1>6, <1>7, <1>8, <1>9 DEF Next, vars, SignToken, Invite, Expire

\* R20.6 as far as it holds: with one organisation, a change of a role that takes
\* the last owner away has been overlapped by another.
THEOREM LastOwnerLostToRace ==
    ASSUME \A o1, o2 \in Orgs : o1 = o2
    PROVE  Spec => OwnerLostOnlyToRace
  <1>1. Init => UnracedIsSafe
    BY DEF Init, UnracedIsSafe
  <1>2. IInv /\ UnracedIsSafe /\ [Next]_vars =>
            [\A p \in Requests : \A o \in Orgs :
                (UpdateRole(p) /\ Owners(o) # {} /\ Owners(o)' = {}) => raced[p]]_vars
    <2> SUFFICES ASSUME IInv, UnracedIsSafe, NEW p \in Requests, NEW o \in Orgs, UpdateRole(p),
                        NEW w \in Owners(o), Owners(o)' = {}, ~raced[p]
                 PROVE  FALSE
      OBVIOUS
    <2>0. TypeOK /\ ChangesHoldUsers
      BY DEF IInv
    <2>1. \A u \in Users : role'[u] # "owner"
      BY DEF Owners, Members, Users
    <2>2. step[p] = "update" /\ about[p] \in Users /\ role'[about[p]] = newRole[p]
          /\ \A u \in Users \ {about[p]} : role'[u] = role[u]
      BY <2>0 DEF TypeOK, ChangesHoldUsers, UpdateRole
    <2>3. w \in Users /\ role[w] = "owner"
      BY DEF Owners, Members
    <2>4. newRole[p] # "owner" /\ role[about[p]] = "owner"
      BY <2>1, <2>2, <2>3
    <2>5. TwoOwners
      BY <2>2, <2>4 DEF UnracedIsSafe
    <2> QED  BY <2>1, <2>2, <2>5 DEF TwoOwners
  <1> QED
    BY <1>1, <1>2, NextKeepsUnraced, Invariance, PTL DEF Spec, OwnerLostOnlyToRace

-----------------------------------------------------------------------------
(* What keeps EveryOrgHasOwner, which does not hold in general.             *)

SomeMember == \E u \in Users : role[u] # None
SomeOwner  == \E u \in Users : role[u] = "owner"

\* Tokens and invitations come from members.
MembersCameFirst ==
    (claims # {} \/ \E i \in Invites : invite[i] # None) => SomeMember

\* Nobody leaves, so there is somebody from the first signup on.
LEMMA MembersStay ==
    ASSUME IInv, [Next]_vars
    PROVE  /\ SomeMember => SomeMember'
           /\ \A u \in Users : role'[u] # role[u] =>
                \/ role'[u] = "owner"
                \/ \E p \in Requests : AcceptCommit(p) /\ role[u] = None
                \/ \E p \in Requests : UpdateRole(p) /\ u = about[p] /\ role'[u] = newRole[p]
  <1>0. TypeOK /\ AcceptsHoldInvites /\ ChangesHoldUsers
    BY DEF IInv
  <1> DEFINE Change(u) == \/ role'[u] = "owner"
                          \/ \E p \in Requests : AcceptCommit(p) /\ role[u] = None
                          \/ \E p \in Requests : UpdateRole(p) /\ u = about[p] /\ role'[u] = newRole[p]
             Goal == /\ SomeMember => SomeMember'
                     /\ \A u \in Users : role'[u] # role[u] => Change(u)
  <1>1. ASSUME NEW o \in Orgs, NEW e \in Emails, Signup(o, e) PROVE Goal
    <2>1. <<o, e>> \in Users /\ role'[<<o, e>>] = "owner"
          /\ \A u \in Users \ {<<o, e>>} : role'[u] = role[u]
      BY <1>0, <1>1 DEF TypeOK, Signup, Users
    <2> QED  BY <2>1, TeamAssumptions DEF SomeMember, Roles
  <1>2. ASSUME NEW p \in Requests, AcceptCommit(p) PROVE Goal
    <2>1. PICK u \in Users : /\ role[u] = None
                             /\ \A v \in Users \ {u} : role'[v] = role[v]
      BY <1>0, <1>2
      DEF TypeOK, AcceptsHoldInvites, AcceptCommit, Unregistered, Invitation, Users
    <2> QED  BY <1>2, <2>1 DEF SomeMember
  <1>3. ASSUME NEW p \in Requests, UpdateRole(p) PROVE Goal
    <2>1. /\ about[p] \in Users /\ role'[about[p]] = newRole[p] /\ newRole[p] # None
          /\ \A v \in Users \ {about[p]} : role'[v] = role[v]
      BY <1>0, <1>3, TeamAssumptions DEF TypeOK, ChangesHoldUsers, UpdateRole
    <2> QED  BY <1>3, <2>1 DEF SomeMember
  <1>4. ASSUME UNCHANGED role PROVE Goal
    BY <1>4 DEF SomeMember
  <1> QED
    BY <1>1, <1>2, <1>3, <1>4
    DEF Next, vars, SignToken, Invite, Expire, AcceptLookup, ChangeRole, ReadTarget,
        CountOwners, Fail

\* Who signs a token is a member; who invites has presented a token.
LEMMA MembersFirstStep ==
    IInv /\ MembersCameFirst /\ [Next]_vars => MembersCameFirst'
  <1> SUFFICES ASSUME IInv, MembersCameFirst, [Next]_vars PROVE MembersCameFirst'
    OBVIOUS
  <1>1. SomeMember => SomeMember'
    BY MembersStay
  <1>2. SomeMember \/ (claims' = claims /\ invite' = invite)
    <2>1. ASSUME NEW o \in Orgs, NEW e \in Emails, SignToken(<<o, e>>) PROVE SomeMember
      BY <2>1 DEF SignToken, SomeMember, Users
    <2>2. ASSUME NEW o \in Orgs, NEW e \in Emails, NEW i \in Invites,
                 NEW r \in Roles \ {"owner"}, Invite(o, e, r, i)
          PROVE  SomeMember
      BY <2>2 DEF Invite, Privileged, MembersCameFirst
    <2> QED
      BY <2>1, <2>2
      DEF Next, vars, Signup, Expire, AcceptLookup, AcceptCommit, ChangeRole, ReadTarget,
          CountOwners, UpdateRole, Fail
  <1> QED  BY <1>1, <1>2 DEF MembersCameFirst

\* The last owner of all stays, unless a change commits that another overlapped.
LEMMA OwnerStays ==
    ASSUME IInv, UnracedIsSafe, MembersCameFirst, SomeMember => SomeOwner, [Next]_vars,
           \A p \in Requests : UpdateRole(p) => ~raced[p]
    PROVE  (SomeMember => SomeOwner)'
  <1>0. TypeOK /\ AcceptsHoldInvites /\ ChangesHoldUsers
    BY DEF IInv
  <1>1. ASSUME NEW u \in Users, role[u] = None, role'[u] # None PROVE SomeOwner \/ SomeOwner'
    <2>1. CASE role'[u] = "owner"
      BY <2>1 DEF SomeOwner
    <2>2. ASSUME NEW p \in Requests, AcceptCommit(p) PROVE SomeOwner
      BY <1>0, <2>2 DEF AcceptsHoldInvites, AcceptCommit, MembersCameFirst
    <2>3. ASSUME NEW p \in Requests, UpdateRole(p), u = about[p] PROVE FALSE
      BY <1>1, <2>3 DEF UnracedIsSafe, UpdateRole
    <2> QED  BY <1>1, <2>1, <2>2, <2>3, MembersStay
  <1>2. SomeMember' => SomeOwner \/ SomeOwner'
    BY <1>1 DEF SomeMember
  <1>3. ASSUME NEW w \in Users, role[w] = "owner" PROVE SomeOwner'
    <2>1. CASE role'[w] = "owner"
      BY <2>1 DEF SomeOwner
    <2>2. CASE role'[w] # "owner"
      <3>1. PICK p \in Requests : UpdateRole(p) /\ w = about[p] /\ role'[w] = newRole[p]
        BY <1>3, <2>2, MembersStay, TeamAssumptions DEF Roles
      <3>2. TwoOwners
        BY <1>3, <2>2, <3>1 DEF UnracedIsSafe, UpdateRole
      <3>3. PICK v \in Users \ {w} : role[v] = "owner"
        BY <3>2 DEF TwoOwners
      <3>4. role'[v] = "owner"
        BY <1>0, <3>1, <3>3 DEF TypeOK, UpdateRole
      <3> QED  BY <3>4 DEF SomeOwner
    <2> QED  BY <2>1, <2>2
  <1> QED  BY <1>2, <1>3 DEF SomeOwner

\* R20.6, and what it takes: as long as no change of a role commits that another
\* has overlapped, there is an owner from the first signup on.  It need not be
\* of every organisation, since the count that guards the last owner is of all.
THEOREM AnOwnerRemains ==
    Spec /\ [][\A p \in Requests : UpdateRole(p) => ~raced[p]]_vars
        => [](SomeMember => SomeOwner)
  <1>1. Init => UnracedIsSafe /\ MembersCameFirst /\ (SomeMember => SomeOwner)
    BY DEF Init, UnracedIsSafe, MembersCameFirst, SomeMember
  <1>2. IInv /\ MembersCameFirst /\ [Next]_vars => MembersCameFirst'
    BY MembersFirstStep
  <1>3. /\ IInv /\ UnracedIsSafe /\ MembersCameFirst /\ (SomeMember => SomeOwner) /\ [Next]_vars
        /\ [\A p \in Requests : UpdateRole(p) => ~raced[p]]_vars
        => (SomeMember => SomeOwner)'
    <2> SUFFICES ASSUME IInv, UnracedIsSafe, MembersCameFirst, SomeMember => SomeOwner,
                        [Next]_vars, [\A p \in Requests : UpdateRole(p) => ~raced[p]]_vars
                 PROVE  (SomeMember => SomeOwner)'
      OBVIOUS
    <2>1. CASE UNCHANGED vars
      BY <2>1 DEF vars, SomeMember, SomeOwner
    <2>2. CASE \A p \in Requests : UpdateRole(p) => ~raced[p]
      BY <2>2, OwnerStays
    <2> QED  BY <2>1, <2>2
  <1> QED  BY <1>1, <1>2, <1>3, NextKeepsUnraced, Invariance, PTL DEF Spec

\* With one organisation that owner is its own.
COROLLARY TheOrgHasAnOwner ==
    ASSUME \A o1, o2 \in Orgs : o1 = o2
    PROVE  Spec /\ [][\A p \in Requests : UpdateRole(p) => ~raced[p]]_vars
               => []EveryOrgHasOwner
  <1>1. (SomeMember => SomeOwner) => EveryOrgHasOwner
    <2> SUFFICES ASSUME SomeMember => SomeOwner, NEW o \in Orgs, NEW m \in Members(o)
                 PROVE  Owners(o) # {}
      BY DEF EveryOrgHasOwner
    <2>1. PICK w \in Users : role[w] = "owner"
      BY DEF Members, SomeMember, SomeOwner
    <2>2. w[1] = o
      BY DEF Users
    <2> QED  BY <2>1, <2>2, TeamAssumptions DEF Owners, Members, Roles
  <1> QED  BY <1>1, AnOwnerRemains, PTL
=============================================================================
