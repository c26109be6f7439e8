--------------------------- MODULE SessionsProofs ---------------------------
(* Proofs about Sessions, for any users, tenants, tokens, tickets and       *)
(* requests, any windows and lifetimes and any bound of the clock.          *)
EXTENDS Sessions, TLAPS

\* Before anybody logs in there is nothing to be wrong.
LEMMA InitIInv == Init => IInv
  BY SessionAssumptions
  DEF Init, IInv, TypeOK, IssuedHaveUsers, PendingIsGrounded, FamiliesAreWhole, UpdatesReachAll,
      Live, Aims, Issued, Steps

\* UpdatesReachAll, one kind of step at a time.  A lookup begins no transaction ...
LEMMA PendingReaches ==
    ASSUME TypeOK, UpdatesReachAll, NEW p \in Requests,
           NEW s \in {"login", "rotate", "revoke", "mail", "confirm"}, NEW x, NEW v,
           Pending(p, s, x, v)
    PROVE  UpdatesReachAll'
  <1>1. /\ family' = family /\ user' = user /\ revoked' = revoked /\ ticketFor' = ticketFor
        /\ doomed' = doomed /\ raced' = raced
        /\ step[p] = "idle" /\ step'[p] = s
        /\ \A q \in Requests \ {p} : step'[q] = step[q] /\ about'[q] = about[q]
    BY DEF TypeOK, Pending, tokenVars, ticketVars
  <1>2. \A q \in Requests : \A f, u : Aims(q, f, u)' => q # p /\ Aims(q, f, u)
    BY <1>1 DEF Aims
  <1> QED  BY <1>1, <1>2 DEF UpdatesReachAll, Live, Issued

\* ... a token inserted meanwhile is accounted for in raced ...
LEMMA MintReaches ==
    ASSUME TypeOK, IssuedHaveUsers, PendingIsGrounded, UpdatesReachAll,
           NEW p \in Requests, NEW x \in Tokens, LoginCommit(p, x) \/ Rotate(p, x)
    PROVE  UpdatesReachAll'
  <1>1. PICK f \in Tokens, u \in Users :
            /\ family' = [family EXCEPT ![x] = f]
            /\ user' = [user EXCEPT ![x] = u]
            /\ raced' = [q \in Requests |-> raced[q] \/ Aims(q, f, u)]
    BY DEF TypeOK, IssuedHaveUsers, PendingIsGrounded, Issued, LoginCommit, Rotate, Mint
  <1>2. /\ x \notin Issued /\ revoked' = revoked /\ ticketFor' = ticketFor
        /\ step[p] \in {"login", "rotate"} /\ step'[p] = "idle" /\ doomed'[p] = {}
        /\ \A q \in Requests \ {p} :
            step'[q] = step[q] /\ about'[q] = about[q] /\ doomed'[q] = doomed[q]
    BY DEF TypeOK, LoginCommit, Rotate, Done, ticketVars
  <1>3. Issued' = Issued \cup {x} /\ family'[x] = f /\ user'[x] = u
    BY <1>1, SessionAssumptions DEF TypeOK, Issued
  <1>4. \A t \in Issued : family'[t] = family[t] /\ user'[t] = user[t]
    BY <1>1, <1>2 DEF TypeOK, Issued
  <1>5. \A q \in Requests : step[q] = "revoking" => family'[about[q]] = family[about[q]]
    BY <1>4 DEF PendingIsGrounded
  <1>6. \A q \in Requests : raced'[q] = (raced[q] \/ Aims(q, f, u))
    BY <1>1
  <1>7. \A q \in Requests, t \in Live' :
            Aims(q, family[t], user[t])' /\ ~raced'[q] => t \in doomed'[q]
    <2> SUFFICES ASSUME NEW q \in Requests, NEW t \in Live',
                        Aims(q, family[t], user[t])', ~raced'[q]
                 PROVE  t \in doomed'[q]
      OBVIOUS
    <2>1. q # p /\ Aims(q, family'[t], user'[t]) /\ ~raced[q] /\ ~Aims(q, f, u)
      BY <1>2, <1>5, <1>6 DEF Aims
    <2>2. t # x
      BY <2>1, <1>3
    <2>3. t \in Live /\ Aims(q, family[t], user[t])
      BY <1>2, <1>3, <1>4, <2>1, <2>2 DEF Live
    <2> QED  BY <1>2, <2>1, <2>3 DEF UpdatesReachAll
  <1>8. /\ revoked' \subseteq Issued'
        /\ \A q \in Requests :
            /\ doomed'[q] \subseteq Issued'
            /\ raced'[q] => step'[q] \in {"revoking", "confirming", "cancelling"}
    BY <1>2, <1>3, <1>6 DEF UpdatesReachAll, Aims
  <1>9. \A q, r \in Requests :
            /\ step'[q] = "cancelling" /\ step'[r] = "cancelling" /\ about'[q] = about'[r] => q = r
            /\ step'[q] = "confirming" /\ step'[r] = "confirming"
                    /\ ticketFor'[about'[q]] = ticketFor'[about'[r]] => q = r
    BY <1>2 DEF UpdatesReachAll
  <1> QED  BY <1>7, <1>8, <1>9 DEF UpdatesReachAll

\* ... a new ticket is not the one of a reset under way ...
LEMMA ResetReaches ==
    ASSUME TypeOK, PendingIsGrounded, UpdatesReachAll,
           NEW p \in Requests, NEW k \in Tickets, ResetCommit(p, k)
    PROVE  UpdatesReachAll'
  <1>1. /\ family' = family /\ user' = user /\ revoked' = revoked /\ raced' = raced
        /\ step[p] = "mail" /\ step'[p] = "idle" /\ doomed'[p] = {}
        /\ \A q \in Requests \ {p} :
            step'[q] = step[q] /\ about'[q] = about[q] /\ doomed'[q] = doomed[q]
    BY DEF TypeOK, ResetCommit, Done, tokenVars
  <1>2. \A q \in Requests \ {p} :
            step[q] = "confirming" => ticketFor'[about'[q]] = ticketFor[about[q]]
    BY <1>1, SessionAssumptions DEF TypeOK, PendingIsGrounded, ResetCommit
  <1>3. \A q \in Requests : \A f, u : Aims(q, f, u)' => q # p /\ Aims(q, f, u)
    BY <1>1, <1>2 DEF Aims
  <1>4. \A q, r \in Requests :
            step'[q] = "confirming" /\ step'[r] = "confirming"
                /\ ticketFor'[about'[q]] = ticketFor'[about'[r]] => q = r
    BY <1>1, <1>2 DEF UpdatesReachAll
  <1> QED  BY <1>1, <1>3, <1>4 DEF UpdatesReachAll, Live, Issued

\* ... an UPDATE reaches every row there is, and waits for another of its kind ...
LEMMA UpdateReaches ==
    ASSUME TypeOK, PendingIsGrounded, UpdatesReachAll, NEW p \in Requests,
           RevokeFamily(p) \/ ConfirmUpdate(p) \/ \E n \in Tenants : CancelUpdate(p, n)
    PROVE  UpdatesReachAll'
  <1>1. /\ family' = family /\ user' = user /\ revoked' = revoked /\ raced' = raced
        /\ ticketFor' = ticketFor
        /\ \A q \in Requests \ {p} :
            step'[q] = step[q] /\ about'[q] = about[q] /\ doomed'[q] = doomed[q]
    BY DEF TypeOK, RevokeFamily, ConfirmUpdate, CancelUpdate, Revoking, tokenVars, ticketVars
  <1>2. /\ \A t \in Issued : Aims(p, family[t], user[t])' => t \in doomed'[p]
        /\ doomed'[p] \subseteq Issued
        /\ step'[p] \in {"revoking", "confirming", "cancelling"}
        /\ step'[p] = "cancelling" =>
            \A q \in Requests : step[q] = "cancelling" => about[q] # about'[p]
        /\ step'[p] = "confirming" =>
            \A q \in Requests : step[q] = "confirming" => ticketFor[about[q]] # ticketFor[about'[p]]
    <2>1. CASE RevokeFamily(p)
      BY <1>1, <2>1 DEF TypeOK, RevokeFamily, Revoking, Kin, Aims, Issued
    <2>2. CASE ConfirmUpdate(p)
      BY <1>1, <2>2 DEF TypeOK, ConfirmUpdate, Revoking, Aims, Issued
    <2>3. ASSUME NEW n \in Tenants, CancelUpdate(p, n)
          PROVE  /\ \A t \in Issued : Aims(p, family[t], user[t])' => t \in doomed'[p]
                 /\ doomed'[p] \subseteq Issued
                 /\ step'[p] = "cancelling"
                 /\ \A q \in Requests : step[q] = "cancelling" => about[q] # about'[p]
      BY <1>1, <2>3 DEF TypeOK, CancelUpdate, Revoking, Issued
    <2> QED  BY <2>1, <2>2, <2>3
  <1>3. \A q \in Requests \ {p} : \A f, u : Aims(q, f, u)' <=> Aims(q, f, u)
    BY <1>1 DEF Aims
  <1>4. \A q, r \in Requests :
            /\ step'[q] = "cancelling" /\ step'[r] = "cancelling" /\ about'[q] = about'[r] => q = r
            /\ step'[q] = "confirming" /\ step'[r] = "confirming"
                    /\ ticketFor'[about'[q]] = ticketFor'[about'[r]] => q = r
    BY <1>1, <1>2 DEF UpdatesReachAll
  <1> QED  BY <1>1, <1>2, <1>3, <1>4 DEF UpdatesReachAll, Live, Issued

\* ... and with its end, by COMMIT ...
LEMMA CommitReaches ==
    ASSUME TypeOK, UpdatesReachAll, NEW p \in Requests,
           RevokeCommit(p) \/ ConfirmCommit(p) \/ CancelCommit(p)
    PROVE  UpdatesReachAll'
  <1>1. /\ family' = family /\ user' = user /\ ticketFor' = ticketFor
        /\ revoked' = revoked \cup doomed[p]
        /\ step'[p] = "idle" /\ doomed'[p] = {} /\ ~raced'[p]
        /\ \A q \in Requests \ {p} :
            /\ step'[q] = step[q] /\ about'[q] = about[q]
            /\ doomed'[q] = doomed[q] /\ raced'[q] = raced[q]
    BY DEF TypeOK, RevokeCommit, ConfirmCommit, CancelCommit, Revoked, Done, ticketVars
  <1>2. \A q \in Requests : \A f, u : Aims(q, f, u)' => q # p /\ Aims(q, f, u)
    BY <1>1 DEF Aims
  <1> QED  BY <1>1, <1>2 DEF UpdatesReachAll, Live, Issued

\* ... or otherwise, it is about no token any more ...
LEMMA AbandonReaches ==
    ASSUME TypeOK, UpdatesReachAll, NEW p \in Requests, Abandon(p) PROVE UpdatesReachAll'
  <1>1. /\ family' = family /\ user' = user /\ ticketFor' = ticketFor /\ revoked' = revoked
        /\ step'[p] = "idle" /\ doomed'[p] = {} /\ ~raced'[p]
        /\ \A q \in Requests \ {p} :
            /\ step'[q] = step[q] /\ about'[q] = about[q]
            /\ doomed'[q] = doomed[q] /\ raced'[q] = raced[q]
    BY DEF TypeOK, Abandon, Done, tokenVars, ticketVars
  <1>2. \A q \in Requests : \A f, u : Aims(q, f, u)' => q # p /\ Aims(q, f, u)
    BY <1>1 DEF Aims
  <1> QED  BY <1>1, <1>2 DEF UpdatesReachAll, Live, Issued

\* ... and time alone changes none of this.
LEMMA StillReaches == UpdatesReachAll /\ (Tick \/ UNCHANGED vars) => UpdatesReachAll'
  BY DEF UpdatesReachAll, Tick, vars, tokenVars, ticketVars, reqVars, Aims, Live, Issued

\* The inductive step: every operation, and every statement of one, keeps IInv.
LEMMA NextKeepsIInv == IInv /\ [Next]_vars => IInv'
  <1> SUFFICES ASSUME IInv, [Next]_vars PROVE IInv'
    OBVIOUS
  <1>0. TypeOK /\ IssuedHaveUsers /\ PendingIsGrounded /\ FamiliesAreWhole /\ UpdatesReachAll
    BY DEF IInv
  <1>1. ASSUME NEW p \in Requests, NEW u \in Users, LoginLookup(p, u) PROVE IInv'
    <2>1. TypeOK'
      BY <1>0, <1>1, SessionAssumptions
      DEF TypeOK, Steps, Issued, IssuedHaveUsers, PendingIsGrounded, LoginLookup, Pending,
          tokenVars, ticketVars
    <2>2. IssuedHaveUsers' /\ PendingIsGrounded'
      BY <1>0, <1>1
      DEF TypeOK, Issued, IssuedHaveUsers, PendingIsGrounded, LoginLookup, Pending, tokenVars,
          ticketVars
    <2>3. FamiliesAreWhole'
      BY <1>0, <1>1
      DEF TypeOK, Issued, PendingIsGrounded, FamiliesAreWhole, LoginLookup, Pending, tokenVars,
          ticketVars
    <2>4. UpdatesReachAll'
      BY <1>0, <1>1, PendingReaches DEF LoginLookup
    <2> QED  BY <2>1, <2>2, <2>3, <2>4 DEF IInv
  <1>2. ASSUME NEW p \in Requests, NEW u \in Users, ResetLookup(p, u) PROVE IInv'
    <2>1. TypeOK'
      BY <1>0, <1>2, SessionAssumptions
      DEF TypeOK, Steps, Issued, IssuedHaveUsers, PendingIsGrounded, ResetLookup, Pending,
          tokenVars, ticketVars
    <2>2. IssuedHaveUsers' /\ PendingIsGrounded'
      BY <1>0, <1>2
      DEF TypeOK, Issued, IssuedHaveUsers, PendingIsGrounded, ResetLookup, Pending, tokenVars,
          ticketVars
    <2>3. FamiliesAreWhole'
      BY <1>0, <1>2
      DEF TypeOK, Issued, PendingIsGrounded, FamiliesAreWhole, ResetLookup, Pending, tokenVars,
          ticketVars
    <2>4. UpdatesReachAll'
      BY <1>0, <1>2, PendingReaches DEF ResetLookup
    <2> QED  BY <2>1, <2>2, <2>3, <2>4 DEF IInv
  <1>3. ASSUME NEW p \in Requests, NEW t \in Tokens, AcceptToken(p, t) PROVE IInv'
    <2>1. TypeOK'
      BY <1>0, <1>3, SessionAssumptions
      DEF TypeOK, Steps, Issued, IssuedHaveUsers, PendingIsGrounded, AcceptToken, Pending,
          tokenVars, ticketVars
    <2>2. IssuedHaveUsers' /\ PendingIsGrounded'
      BY <1>0, <1>3
      DEF TypeOK, Issued, IssuedHaveUsers, PendingIsGrounded, AcceptToken, Pending, tokenVars,
          ticketVars
    <2>3. FamiliesAreWhole'
      BY <1>0, <1>3
      DEF TypeOK, Issued, PendingIsGrounded, FamiliesAreWhole, AcceptToken, Pending, tokenVars,
          ticketVars
    <2>4. UpdatesReachAll'
      BY <1>0, <1>3, PendingReaches DEF AcceptToken
    <2> QED  BY <2>1, <2>2, <2>3, <2>4 DEF IInv
  <1>4. ASSUME NEW p \in Requests, NEW t \in Tokens, DetectReuse(p, t) PROVE IInv'
    <2>1. TypeOK'
      BY <1>0, <1>4, SessionAssumptions
      DEF TypeOK, Steps, Issued, IssuedHaveUsers, PendingIsGrounded, DetectReuse, Pending,
          tokenVars, ticketVars
    <2>2. IssuedHaveUsers' /\ PendingIsGrounded'
      BY <1>0, <1>4
      DEF TypeOK, Issued, IssuedHaveUsers, PendingIsGrounded, DetectReuse, Pending, tokenVars,
          ticketVars
    <2>3. FamiliesAreWhole'
      BY <1>0, <1>4
      DEF TypeOK, Issued, PendingIsGrounded, FamiliesAreWhole, DetectReuse, Pending, tokenVars,
          ticketVars
    <2>4. UpdatesReachAll'
      BY <1>0, <1>4, PendingReaches DEF DetectReuse
    <2> QED  BY <2>1, <2>2, <2>3, <2>4 DEF IInv
  <1>5. ASSUME NEW p \in Requests, NEW k \in Tickets, ConfirmLookup(p, k) PROVE IInv'
    <2>1. TypeOK'
      BY <1>0, <1>5, SessionAssumptions
      DEF TypeOK, Steps, Issued, IssuedHaveUsers, PendingIsGrounded, ConfirmLookup, Pending,
          tokenVars, ticketVars
    <2>2. IssuedHaveUsers' /\ PendingIsGrounded'
      BY <1>0, <1>5
      DEF TypeOK, Issued, IssuedHaveUsers, PendingIsGrounded, ConfirmLookup, Pending, tokenVars,
          ticketVars
    <2>3. FamiliesAreWhole'
      BY <1>0, <1>5
      DEF TypeOK, Issued, PendingIsGrounded, FamiliesAreWhole, ConfirmLookup, Pending,
          tokenVars, ticketVars
    <2>4. UpdatesReachAll'
      BY <1>0, <1>5, PendingReaches DEF ConfirmLookup
    <2> QED  BY <2>1, <2>2, <2>3, <2>4 DEF IInv
  <1>6. ASSUME NEW p \in Requests, NEW t \in Tokens, LoginCommit(p, t) PROVE IInv'
    <2>1. TypeOK'
      BY <1>0, <1>6, SessionAssumptions
      DEF TypeOK, Steps, Issued, IssuedHaveUsers, PendingIsGrounded, LoginCommit, Mint, Done,
          ticketVars
    <2>2. IssuedHaveUsers' /\ PendingIsGrounded'
      BY <1>0, <1>6
      DEF TypeOK, Issued, IssuedHaveUsers, PendingIsGrounded, LoginCommit, Mint, Done,
          ticketVars
    <2>3. FamiliesAreWhole'
      BY <1>0, <1>6
      DEF TypeOK, Issued, PendingIsGrounded, FamiliesAreWhole, LoginCommit, Mint, Done,
          ticketVars
    <2>4. UpdatesReachAll'
      BY <1>0, <1>6, MintReaches
    <2> QED  BY <2>1, <2>2, <2>3, <2>4 DEF IInv
  <1>7. ASSUME NEW p \in Requests, NEW n \in Tokens, Rotate(p, n) PROVE IInv'
    <2>1. TypeOK'
      BY <1>0, <1>7, SessionAssumptions
      DEF TypeOK, Steps, Issued, IssuedHaveUsers, PendingIsGrounded, Rotate, Mint, Done,
          ticketVars
    <2>2. IssuedHaveUsers' /\ PendingIsGrounded'
      BY <1>0, <1>7
      DEF TypeOK, Issued, IssuedHaveUsers, PendingIsGrounded, Rotate, Mint, Done, ticketVars
    <2>3. FamiliesAreWhole'
      BY <1>0, <1>7
      DEF TypeOK, Issued, PendingIsGrounded, FamiliesAreWhole, Rotate, Mint, Done, ticketVars
    <2>4. UpdatesReachAll'
      BY <1>0, <1>7, MintReaches
    <2> QED  BY <2>1, <2>2, <2>3, <2>4 DEF IInv
  <1>8. ASSUME NEW p \in Requests, NEW k \in Tickets, ResetCommit(p, k) PROVE IInv'
    <2>1. TypeOK'
      BY <1>0, <1>8, SessionAssumptions
      DEF TypeOK, Steps, Issued, IssuedHaveUsers, PendingIsGrounded, ResetCommit, Done,
          tokenVars
    <2>2. IssuedHaveUsers' /\ PendingIsGrounded'
      BY <1>0, <1>8
      DEF TypeOK, Issued, IssuedHaveUsers, PendingIsGrounded, ResetCommit, Done, tokenVars
    <2>3. FamiliesAreWhole'
      BY <1>0, <1>8
      DEF TypeOK, Issued, PendingIsGrounded, FamiliesAreWhole, ResetCommit, Done, tokenVars
    <2>4. UpdatesReachAll'
      BY <1>0, <1>8, ResetReaches
    <2> QED  BY <2>1, <2>2, <2>3, <2>4 DEF IInv
  <1>9. ASSUME NEW p \in Requests, RevokeFamily(p) PROVE IInv'
    <2>1. TypeOK'
      BY <1>0, <1>9, SessionAssumptions
      DEF TypeOK, Steps, Issued, IssuedHaveUsers, PendingIsGrounded, RevokeFamily, Revoking,
          Kin, tokenVars, ticketVars
    <2>2. IssuedHaveUsers' /\ PendingIsGrounded'
      BY <1>0, <1>9
      DEF TypeOK, Issued, IssuedHaveUsers, PendingIsGrounded, RevokeFamily, Revoking, Kin,
          tokenVars, ticketVars
    <2>3. FamiliesAreWhole'
      BY <1>0, <1>9
      DEF TypeOK, Issued, PendingIsGrounded, FamiliesAreWhole, RevokeFamily, Revoking, Kin,
          tokenVars, ticketVars
    <2>4. UpdatesReachAll'
      BY <1>0, <1>9, UpdateReaches
    <2> QED  BY <2>1, <2>2, <2>3, <2>4 DEF IInv
  <1>10. ASSUME NEW p \in Requests, ConfirmUpdate(p) PROVE IInv'
    <2>1. TypeOK'
      BY <1>0, <1>10, SessionAssumptions
      DEF TypeOK, Steps, Issued, IssuedHaveUsers, PendingIsGrounded, ConfirmUpdate, Revoking,
          tokenVars, ticketVars
    <2>2. IssuedHaveUsers' /\ PendingIsGrounded'
      BY <1>0, <1>10
      DEF TypeOK, Issued, IssuedHaveUsers, PendingIsGrounded, ConfirmUpdate, Revoking,
          tokenVars, ticketVars
    <2>3. FamiliesAreWhole'
      BY <1>0, <1>10
      DEF TypeOK, Issued, PendingIsGrounded, FamiliesAreWhole, ConfirmUpdate, Revoking,
          tokenVars, ticketVars
    <2>4. UpdatesReachAll'
      BY <1>0, <1>10, UpdateReaches
    <2> QED  BY <2>1, <2>2, <2>3, <2>4 DEF IInv
  <1>11. ASSUME NEW p \in Requests, NEW n \in Tenants, CancelUpdate(p, n) PROVE IInv'
    <2>1. TypeOK'
      BY <1>0, <1>11, SessionAssumptions
      DEF TypeOK, Steps, Issued, IssuedHaveUsers, PendingIsGrounded, CancelUpdate, Revoking,
          tokenVars, ticketVars
    <2>2. IssuedHaveUsers' /\ PendingIsGrounded'
      BY <1>0, <1>11
      DEF TypeOK, Issued, IssuedHaveUsers, PendingIsGrounded, CancelUpdate, Revoking, tokenVars,
          ticketVars
    <2>3. FamiliesAreWhole'
      BY <1>0, <1>11
      DEF TypeOK, Issued, PendingIsGrounded, FamiliesAreWhole, CancelUpdate, Revoking,
          tokenVars, ticketVars
    <2>4. UpdatesReachAll'
      BY <1>0, <1>11, UpdateReaches
    <2> QED  BY <2>1, <2>2, <2>3, <2>4 DEF IInv
  <1>12. ASSUME NEW p \in Requests, RevokeCommit(p) PROVE IInv'
    <2>1. TypeOK'
      BY <1>0, <1>12, SessionAssumptions
      DEF TypeOK, Steps, Issued, IssuedHaveUsers, PendingIsGrounded, RevokeCommit, Revoked,
          Done, ticketVars
    <2>2. IssuedHaveUsers' /\ PendingIsGrounded'
      BY <1>0, <1>12
      DEF TypeOK, Issued, IssuedHaveUsers, PendingIsGrounded, RevokeCommit, Revoked, Done,
          ticketVars
    <2>3. FamiliesAreWhole'
      BY <1>0, <1>12
      DEF TypeOK, Issued, PendingIsGrounded, FamiliesAreWhole, RevokeCommit, Revoked, Done,
          ticketVars
    <2>4. UpdatesReachAll'
      BY <1>0, <1>12, CommitReaches
    <2> QED  BY <2>1, <2>2, <2>3, <2>4 DEF IInv
  <1>13. ASSUME NEW p \in Requests, ConfirmCommit(p) PROVE IInv'
    <2>1. TypeOK'
      BY <1>0, <1>13, SessionAssumptions
      DEF TypeOK, Steps, Issued, IssuedHaveUsers, PendingIsGrounded, ConfirmCommit, Revoked,
          Done
    <2>2. IssuedHaveUsers' /\ PendingIsGrounded'
      BY <1>0, <1>13
      DEF TypeOK, Issued, IssuedHaveUsers, PendingIsGrounded, ConfirmCommit, Revoked, Done
    <2>3. FamiliesAreWhole'
      BY <1>0, <1>13
      DEF TypeOK, Issued, PendingIsGrounded, FamiliesAreWhole, ConfirmCommit, Revoked, Done
    <2>4. UpdatesReachAll'
      BY <1>0, <1>13, CommitReaches
    <2> QED  BY <2>1, <2>2, <2>3, <2>4 DEF IInv
  <1>14. ASSUME NEW p \in Requests, CancelCommit(p) PROVE IInv'
    <2>1. TypeOK'
      BY <1>0, <1>14, SessionAssumptions
      DEF TypeOK, Steps, Issued, IssuedHaveUsers, PendingIsGrounded, CancelCommit, Revoked,
          Done, ticketVars
    <2>2. IssuedHaveUsers' /\ PendingIsGrounded'
      BY <1>0, <1>14
      DEF TypeOK, Issued, IssuedHaveUsers, PendingIsGrounded, CancelCommit, Revoked, Done,
          ticketVars
    <2>3. FamiliesAreWhole'
      BY <1>0, <1>14
      DEF TypeOK, Issued, PendingIsGrounded, FamiliesAreWhole, CancelCommit, Revoked, Done,
          ticketVars
    <2>4. UpdatesReachAll'
      BY <1>0, <1>14, CommitReaches
    <2> QED  BY <2>1, <2>2, <2>3, <2>4 DEF IInv
  <1>15. ASSUME NEW p \in Requests, Abandon(p) PROVE IInv'
    <2>1. TypeOK'
      BY <1>0, <1>15, SessionAssumptions
      DEF TypeOK, Steps, Issued, IssuedHaveUsers, PendingIsGrounded, Abandon, Done, tokenVars,
          ticketVars
    <2>2. IssuedHaveUsers' /\ PendingIsGrounded'
      BY <1>0, <1>15
      DEF TypeOK, Issued, IssuedHaveUsers, PendingIsGrounded, Abandon, Done, tokenVars,
          ticketVars
    <2>3. FamiliesAreWhole'
      BY <1>0, <1>15
      DEF TypeOK, Issued, PendingIsGrounded, FamiliesAreWhole, Abandon, Done, tokenVars,
          ticketVars
    <2>4. UpdatesReachAll'
      BY <1>0, <1>15, AbandonReaches
    <2> QED  BY <2>1, <2>2, <2>3, <2>4 DEF IInv
  <1>16. ASSUME Tick PROVE IInv'
    <2>1. TypeOK'
      BY <1>0, <1>16, SessionAssumptions
      DEF TypeOK, Steps, Issued, IssuedHaveUsers, PendingIsGrounded, Tick, tokenVars,
          ticketVars, reqVars
    <2>2. IssuedHaveUsers' /\ PendingIsGrounded'
      BY <1>0, <1>16
      DEF TypeOK, Issued, IssuedHaveUsers, PendingIsGrounded, Tick, tokenVars, ticketVars,
          reqVars
    <2>3. FamiliesAreWhole'
      BY <1>0, <1>16
      DEF TypeOK, Issued, PendingIsGrounded, FamiliesAreWhole, Tick, tokenVars, ticketVars,
          reqVars
    <2>4. UpdatesReachAll'
      BY <1>0, <1>16, StillReaches
    <2> QED  BY <2>1, <2>2, <2>3, <2>4 DEF IInv
  <1>17. ASSUME UNCHANGED vars PROVE IInv'
    <2>1. TypeOK'
      BY <1>0, <1>17, SessionAssumptions
      DEF TypeOK, Steps, Issued, IssuedHaveUsers, PendingIsGrounded, vars, tokenVars,
          ticketVars, reqVars
    <2>2. IssuedHaveUsers' /\ PendingIsGrounded'
      BY <1>0, <1>17
      DEF TypeOK, Issued, IssuedHaveUsers, PendingIsGrounded, vars, tokenVars, ticketVars,
          reqVars
    <2>3. FamiliesAreWhole'
      BY <1>0, <1>17
      DEF TypeOK, Issued, PendingIsGrounded, FamiliesAreWhole, vars, tokenVars, ticketVars,
          reqVars
    <2>4. UpdatesReachAll'
      BY <1>0, <1>17, StillReaches
    <2> QED  BY <2>1, <2>2, <2>3, <2>4 DEF IInv
  <1> QED
    BY <1>1, <1>2, <1>3, <1>4, <1>5, <1>6, <1>7, <1>8, <1>9,
       <1>10, <1>11, <1>12, <1>13, <1>14, <1>15, <1>16, <1>17 DEF Next

\* The inductive invariant holds in every reachable state.
THEOREM Invariance == Spec => []IInv
  BY InitIInv, NextKeepsIInv, PTL DEF Spec

\* The type invariant of the session tables and of the requests in flight.
THEOREM TypeCorrect == Spec => []TypeOK
  <1>1. IInv => TypeOK
    BY DEF IInv
  <1> QED  BY <1>1, Invariance, PTL

\* However logins, rotations and revocations interleave, a family is what
\* descends from one login: revoking it by its family_id reaches all of it.
THEOREM WholeFamilies == Spec => []FamiliesAreWhole
  <1>1. IInv => FamiliesAreWhole
    BY DEF IInv
  <1> QED  BY <1>1, Invariance, PTL

\* No step re-opens a dead family: who mints in it would be a rotation in
\* flight, and only a live token can start one.
LEMMA DeadStep ==
    ASSUME IInv, [Next]_vars, NEW f \in Tokens, DeadFamily(f) PROVE DeadFamily(f)'
  <1> DEFINE Dead == /\ f \in Issued /\ ~Rotating(f)
                     /\ \A t \in Issued : family[t] = f => t \in revoked
  <1>0. TypeOK /\ PendingIsGrounded /\ Dead
    BY DEF IInv, DeadFamily, Kin, Live
  <1> SUFFICES Dead'
    BY DEF DeadFamily, Kin, Live
  <1>1. ASSUME NEW p \in Requests, NEW t \in Tokens, LoginCommit(p, t) PROVE Dead'
    BY <1>0, <1>1
    DEF TypeOK, PendingIsGrounded, Issued, Rotating, LoginCommit, Mint, Done
  <1>2. ASSUME NEW p \in Requests, NEW t \in Tokens, AcceptToken(p, t) PROVE Dead'
    BY <1>0, <1>2
    DEF TypeOK, PendingIsGrounded, Issued, Rotating, AcceptToken, Suspect, Pending, tokenVars
  <1>3. ASSUME NEW p \in Requests, NEW n \in Tokens, Rotate(p, n) PROVE Dead'
    BY <1>0, <1>3 DEF TypeOK, PendingIsGrounded, Issued, Rotating, Rotate, Mint, Done
  <1>4. ASSUME \/ \E p \in Requests, u \in Users : LoginLookup(p, u) \/ ResetLookup(p, u)
               \/ \E p \in Requests, t \in Tokens : DetectReuse(p, t)
               \/ \E p \in Requests, k \in Tickets : ResetCommit(p, k) \/ ConfirmLookup(p, k)
               \/ \E p \in Requests : Abandon(p)
               \/ Tick \/ UNCHANGED vars
        PROVE  Dead'
    BY <1>0, <1>4
    DEF TypeOK, Issued, Rotating, LoginLookup, ResetLookup, DetectReuse, ResetCommit,
        ConfirmLookup, Abandon, Tick, Pending, Done, vars, tokenVars, reqVars
  <1>5. ASSUME NEW p \in Requests,
               RevokeFamily(p) \/ ConfirmUpdate(p) \/ \E n \in Tenants : CancelUpdate(p, n)
        PROVE  Dead'
    BY <1>0, <1>5
    DEF TypeOK, Issued, Rotating, RevokeFamily, ConfirmUpdate, CancelUpdate, Revoking, tokenVars
  <1>6. ASSUME NEW p \in Requests, RevokeCommit(p) \/ ConfirmCommit(p) \/ CancelCommit(p)
        PROVE  Dead'
    BY <1>0, <1>6
    DEF TypeOK, Issued, Rotating, RevokeCommit, ConfirmCommit, CancelCommit, Revoked, Done
  <1> QED  BY <1>1, <1>2, <1>3, <1>4, <1>5, <1>6 DEF Next

\* R3.4: a family that is revoked with no rotation in flight never comes back.
THEOREM DeadFamiliesStayDead == Spec => DeadFamilyStaysDead
  <1>1. IInv /\ [Next]_vars => [\A f \in Tokens : DeadFamily(f) => DeadFamily(f)']_vars
    BY DeadStep
  <1> QED  BY <1>1, Invariance, PTL DEF Spec, DeadFamilyStaysDead

\* Nobody has a session, and nobody is opening one.
LEMMA AccessInit == Init => Access!Init
  BY SessionAssumptions
  DEF Init, Access!Init, OpenTenants, OpeningTenants, CancellingTenants, MissedTenants,
      Opens, Live, Issued

\* When the attempt of one request for a tenant ends, at most that tenant
\* stops being opened.
LEMMA AttemptEnds ==
    ASSUME NEW p \in Requests, NEW n \in Tenants,
           \A m \in Tenants : Opens(p, m) => m = n,
           \A m \in Tenants : ~Opens(p, m)',
           \A q \in Requests \ {p}, m \in Tenants : Opens(q, m)' <=> Opens(q, m)
    PROVE  OpeningTenants' \in {OpeningTenants, OpeningTenants \ {n}}
  <1>1. \A m \in Tenants \ {n} : m \in OpeningTenants' <=> m \in OpeningTenants
    BY DEF OpeningTenants
  <1>2. n \in OpeningTenants' => n \in OpeningTenants
    BY DEF OpeningTenants
  <1>3. OpeningTenants \subseteq Tenants /\ OpeningTenants' \subseteq Tenants
    BY DEF OpeningTenants
  <1> QED  BY <1>1, <1>2, <1>3

\* A request that leaves rows of tokens as they are has no part in what the
\* others are opening.
LEMMA RowsStay ==
    ASSUME TypeOK, PendingIsGrounded, NEW p \in Requests, NEW q \in Requests \ {p},
           NEW m \in Tenants, \A t \in Issued : user'[t] = user[t],
           step'[q] = step[q], about'[q] = about[q]
    PROVE  Opens(q, m)' <=> Opens(q, m)
  BY DEF TypeOK, PendingIsGrounded, Opens, Tenant

\* A step that leaves the cancellations under way as they are.
LEMMA CancelsStay ==
    ASSUME NEW p \in Requests, step[p] # "cancelling", step'[p] # "cancelling",
           \A q \in Requests \ {p} :
                /\ step'[q] = step[q] /\ about'[q] = about[q]
                /\ step[q] = "cancelling" => raced'[q] = raced[q]
    PROVE  CancellingTenants' = CancellingTenants /\ MissedTenants' = MissedTenants
  BY DEF CancellingTenants, MissedTenants

\* The transaction of a login or of a rotation opens a session of the tenant
\* its first half read, which a cancellation of the tenant under way misses.
LEMMA MintStep ==
    ASSUME TypeOK, IssuedHaveUsers, PendingIsGrounded, UpdatesReachAll,
           NEW p \in Requests, NEW x \in Tokens, LoginCommit(p, x) \/ Rotate(p, x)
    PROVE  Access!Next
  <1> USE DEF Issued
  <1>1. PICK f \in Tokens, u \in Users :
            /\ family' = [family EXCEPT ![x] = f]
            /\ user' = [user EXCEPT ![x] = u]
            /\ raced' = [q \in Requests |-> raced[q] \/ Aims(q, f, u)]
            /\ step[p] = "login" => u = about[p]
            /\ step[p] = "rotate" => u = user[about[p]]
    <2>1. CASE LoginCommit(p, x)
      BY <2>1 DEF PendingIsGrounded, LoginCommit, Mint
    <2>2. CASE Rotate(p, x)
      BY <2>2 DEF TypeOK, PendingIsGrounded, IssuedHaveUsers, Rotate, Mint
    <2> QED  BY <2>1, <2>2
  <1>2. PICK n \in Tenants : n = TenantOf[u]
    BY SessionAssumptions
  <1>3. /\ x \notin Issued /\ step[p] \in {"login", "rotate"}
        /\ revoked' = revoked /\ cancelled' = cancelled
        /\ Done(p)
    BY DEF LoginCommit, Rotate
  <1>4. Issued' = Issued \cup {x} /\ Live' = Live \cup {x}
    BY <1>1, <1>3, SessionAssumptions DEF TypeOK, Live, UpdatesReachAll
  <1>5. \A t \in Issued : user'[t] = user[t]
    BY <1>1, <1>3 DEF TypeOK
  <1>6. user'[x] = u
    BY <1>1 DEF TypeOK
  <1>7. \A m \in Tenants : Opens(p, m) <=> m = n
    BY <1>1, <1>2, <1>3 DEF Opens, Tenant
  <1>8. n \in OpeningTenants
    BY <1>7 DEF OpeningTenants
  <1>9. \A q \in Requests \ {p} : step'[q] = step[q] /\ about'[q] = about[q]
    BY <1>3 DEF TypeOK, Done
  <1>10. OpeningTenants' \in {OpeningTenants, OpeningTenants \ {n}}
    <2>1. \A m \in Tenants : ~Opens(p, m)'
      BY <1>3 DEF TypeOK, Done, Opens
    <2>2. \A q \in Requests \ {p}, m \in Tenants : Opens(q, m)' <=> Opens(q, m)
      BY <1>9, <1>5, RowsStay
    <2> QED  BY <1>7, <2>1, <2>2, AttemptEnds
  <1>11. OpenTenants' = OpenTenants \cup {n}
    BY <1>2, <1>4, <1>5, <1>6 DEF OpenTenants, Tenant, Live
  <1>12. step'[p] = "idle"
    BY <1>3 DEF TypeOK, Done
  <1>13. CancellingTenants' = CancellingTenants
    BY <1>3, <1>9, <1>12 DEF CancellingTenants
  <1>14. MissedTenants' = MissedTenants \cup ({n} \cap CancellingTenants)
    <2>1. \A q \in Requests : step[q] = "cancelling" =>
                raced'[q] = (raced[q] \/ about[q] = n)
      BY <1>1, <1>2 DEF Aims
    <2> QED  BY <1>3, <1>9, <1>12, <2>1 DEF MissedTenants, CancellingTenants
  <1>15. Access!Open(n)
    BY <1>3, <1>8, <1>10, <1>11, <1>13, <1>14 DEF Access!Open
  <1> QED  BY <1>15 DEF Access!Next

\* A lookup: the requests that have read before it are not touched.
LEMMA LookupStep ==
    ASSUME TypeOK, PendingIsGrounded, NEW p \in Requests,
           NEW s \in {"login", "rotate", "revoke", "mail", "confirm"}, NEW x, NEW v,
           Pending(p, s, x, v)
    PROVE  /\ cancelled' = cancelled /\ OpenTenants' = OpenTenants
           /\ CancellingTenants' = CancellingTenants /\ MissedTenants' = MissedTenants
           /\ \A m \in Tenants :
                m \in OpeningTenants' <=>
                    \/ m \in OpeningTenants
                    \/ s = "login" /\ TenantOf[x] = m
                    \/ s = "rotate" /\ Tenant(x) = m
  <1>1. /\ step[p] = "idle" /\ step'[p] = s /\ about'[p] = x
        /\ \A q \in Requests \ {p} : step'[q] = step[q] /\ about'[q] = about[q]
        /\ user' = user /\ family' = family /\ revoked' = revoked /\ cancelled' = cancelled
        /\ raced' = raced
    BY DEF TypeOK, Pending, tokenVars
  <1>2. OpenTenants' = OpenTenants
    BY <1>1 DEF OpenTenants, Live, Issued, Tenant
  <1>3. \A q \in Requests \ {p}, m \in Tenants : Opens(q, m)' <=> Opens(q, m)
    BY <1>1 DEF Opens, Tenant
  <1>4. \A m \in Tenants : ~Opens(p, m)
    BY <1>1 DEF Opens
  <1>5. \A m \in Tenants : Opens(p, m)' <=> \/ s = "login" /\ TenantOf[x] = m
                                            \/ s = "rotate" /\ Tenant(x) = m
    BY <1>1 DEF Opens, Tenant
  <1>6. CancellingTenants' = CancellingTenants /\ MissedTenants' = MissedTenants
    BY <1>1, CancelsStay
  <1> QED  BY <1>1, <1>2, <1>3, <1>4, <1>5, <1>6 DEF OpeningTenants

\* An UPDATE that revokes shows in nothing but the cancellations under way.
LEMMA UpdateStep ==
    ASSUME TypeOK, NEW p \in Requests, NEW s \in {"revoking", "confirming", "cancelling"},
           NEW x, NEW rows, Revoking(p, s, x, rows), step[p] \in {"idle", "revoke", "confirm"}
    PROVE  /\ cancelled' = cancelled /\ OpenTenants' = OpenTenants
           /\ OpeningTenants' = OpeningTenants
           /\ \A q \in Requests \ {p} :
                step'[q] = step[q] /\ about'[q] = about[q] /\ raced'[q] = raced[q]
           /\ step'[p] = s /\ about'[p] = x
  <1>1. /\ step'[p] = s /\ about'[p] = x
        /\ \A q \in Requests \ {p} : step'[q] = step[q] /\ about'[q] = about[q]
        /\ user' = user /\ family' = family /\ revoked' = revoked /\ cancelled' = cancelled
        /\ raced' = raced
    BY DEF TypeOK, Revoking, tokenVars
  <1>2. OpenTenants' = OpenTenants
    BY <1>1 DEF OpenTenants, Live, Issued, Tenant
  <1>3. \A q \in Requests, m \in Tenants : Opens(q, m)' <=> Opens(q, m)
    BY <1>1 DEF Opens, Tenant
  <1> QED  BY <1>1, <1>2, <1>3 DEF OpeningTenants

\* The COMMIT of one ends sessions, and no attempt to open one.
LEMMA CommitStep ==
    ASSUME TypeOK, NEW p \in Requests, Revoked(p), user' = user, family' = family,
           step[p] \in {"revoking", "confirming", "cancelling"}
    PROVE  /\ OpenTenants' \in SUBSET OpenTenants
           /\ OpeningTenants' = OpeningTenants
           /\ \A q \in Requests \ {p} :
                step'[q] = step[q] /\ about'[q] = about[q] /\ raced'[q] = raced[q]
           /\ step'[p] = "idle"
  <1>1. /\ revoked \subseteq revoked' /\ step'[p] = "idle"
        /\ \A q \in Requests \ {p} :
            step'[q] = step[q] /\ about'[q] = about[q] /\ raced'[q] = raced[q]
    BY DEF TypeOK, Revoked, Done
  <1>2. OpenTenants' \in SUBSET OpenTenants
    BY <1>1 DEF OpenTenants, Live, Issued, Tenant
  <1>3. \A q \in Requests, m \in Tenants : Opens(q, m)' <=> Opens(q, m)
    BY <1>1 DEF Opens, Tenant
  <1> QED  BY <1>1, <1>2, <1>3 DEF OpeningTenants

\* A cancellation that is over was the only one of its tenant.
LEMMA CancelEnds ==
    ASSUME UpdatesReachAll, NEW p \in Requests, NEW n \in Tenants,
           step[p] = "cancelling", about[p] = n, step'[p] = "idle",
           \A q \in Requests \ {p} :
                step'[q] = step[q] /\ about'[q] = about[q] /\ raced'[q] = raced[q]
    PROVE  /\ CancellingTenants' = CancellingTenants \ {n}
           /\ MissedTenants' = MissedTenants \ {n}
           /\ n \in MissedTenants <=> raced[p]
  <1>1. \A q \in Requests \ {p} : step[q] = "cancelling" => about[q] # n
    BY DEF UpdatesReachAll
  <1> QED  BY <1>1 DEF CancellingTenants, MissedTenants

\* Every step is one of access to tenants, or a stutter.
LEMMA AccessStep == IInv /\ [Next]_vars => [Access!Next]_(Access!vars)
  <1> SUFFICES ASSUME IInv, [Next]_vars PROVE [Access!Next]_(Access!vars)
    OBVIOUS
  <1>0. TypeOK /\ IssuedHaveUsers /\ PendingIsGrounded /\ UpdatesReachAll
    BY DEF IInv
  <1>1. ASSUME NEW p \in Requests, NEW u \in Users, LoginLookup(p, u) PROVE Access!Next
    <2>1. PICK n \in Tenants : n = TenantOf[u]
      BY SessionAssumptions
    <2>2. /\ cancelled' = cancelled /\ OpenTenants' = OpenTenants
          /\ CancellingTenants' = CancellingTenants /\ MissedTenants' = MissedTenants
          /\ \A m \in Tenants : m \in OpeningTenants' <=> m \in OpeningTenants \/ m = n
      <3>1. Pending(p, "login", u, password[u])
        BY <1>1 DEF LoginLookup
      <3>2. PICK v : Pending(p, "login", u, v)
        BY <3>1
      <3> QED  BY <1>0, <2>1, <3>2, LookupStep
    <2>3. OpeningTenants' = OpeningTenants \cup {n}
      BY <2>2 DEF OpeningTenants
    <2>4. Access!Begin(n)
      BY <1>1, <2>1, <2>2, <2>3 DEF LoginLookup, Access!Begin
    <2> QED  BY <2>4 DEF Access!Next
  <1>2. ASSUME NEW p \in Requests, NEW t \in Tokens, AcceptToken(p, t) PROVE Access!Next
    <2>0. t \in Issued /\ t \notin revoked /\ Pending(p, "rotate", t, 0)
      BY <1>2 DEF AcceptToken, Suspect
    <2>1. PICK n \in Tenants : n = Tenant(t)
      BY <1>0, <2>0, SessionAssumptions DEF IssuedHaveUsers, Tenant
    <2>2. /\ cancelled' = cancelled /\ OpenTenants' = OpenTenants
          /\ CancellingTenants' = CancellingTenants /\ MissedTenants' = MissedTenants
          /\ \A m \in Tenants : m \in OpeningTenants' <=> m \in OpeningTenants \/ m = n
      BY <1>0, <2>0, <2>1, LookupStep
    <2>3. OpeningTenants' = OpeningTenants \cup {n}
      BY <2>2 DEF OpeningTenants
    <2>4. n \in OpenTenants
      BY <2>0, <2>1 DEF OpenTenants, Live
    <2>5. Access!Begin(n)
      BY <2>2, <2>3, <2>4 DEF Access!Begin
    <2> QED  BY <2>5 DEF Access!Next
  <1>3. ASSUME NEW p \in Requests, NEW s \in {"mail", "revoke", "confirm"},
               NEW x, Pending(p, s, x, 0)
        PROVE  UNCHANGED Access!vars
    <2>1. /\ cancelled' = cancelled /\ OpenTenants' = OpenTenants
          /\ CancellingTenants' = CancellingTenants /\ MissedTenants' = MissedTenants
          /\ \A m \in Tenants : m \in OpeningTenants' <=> m \in OpeningTenants
      BY <1>0, <1>3, LookupStep
    <2>2. OpeningTenants' = OpeningTenants
      BY <2>1 DEF OpeningTenants
    <2> QED  BY <2>1, <2>2 DEF Access!vars
  <1>4. ASSUME NEW p \in Requests, NEW x \in Tokens, LoginCommit(p, x) \/ Rotate(p, x)
        PROVE  Access!Next
    BY <1>0, <1>4, MintStep
  <1>5. ASSUME NEW p \in Requests, Abandon(p) PROVE [Access!Next]_(Access!vars)
    <2>1. /\ cancelled' = cancelled /\ OpenTenants' = OpenTenants
          /\ user' = user
          /\ \A q \in Requests \ {p} :
                step'[q] = step[q] /\ about'[q] = about[q] /\ raced'[q] = raced[q]
          /\ step'[p] = "idle"
      BY <1>0, <1>5 DEF TypeOK, Abandon, Done, tokenVars, OpenTenants, Live, Issued, Tenant
    <2>2. \A m \in Tenants : ~Opens(p, m)'
      BY <2>1 DEF Opens
    <2>3. \A q \in Requests \ {p}, m \in Tenants : Opens(q, m)' <=> Opens(q, m)
      BY <2>1 DEF Opens, Tenant
    <2>4. CASE \A m \in Tenants : ~Opens(p, m)
      <3>1. OpeningTenants' = OpeningTenants
        BY <2>2, <2>3, <2>4 DEF OpeningTenants
      <3>2. CASE step[p] # "cancelling"
        <4>1. CancellingTenants' = CancellingTenants /\ MissedTenants' = MissedTenants
          BY <2>1, <3>2, CancelsStay
        <4> QED  BY <2>1, <3>1, <4>1 DEF Access!vars
      <3>3. CASE step[p] = "cancelling"
        <4>1. PICK n \in Tenants : n = about[p]
          BY <1>0, <3>3 DEF PendingIsGrounded
        <4>2. CancellingTenants' = CancellingTenants \ {n} /\ MissedTenants' = MissedTenants \ {n}
          BY <1>0, <2>1, <3>3, <4>1, CancelEnds
        <4>3. Access!GiveUpCancel(n)
          BY <2>1, <3>1, <4>2 DEF Access!GiveUpCancel, Access!EndCancel
        <4> QED  BY <4>3 DEF Access!Next
      <3> QED  BY <3>2, <3>3
    <2>5. ASSUME NEW n \in Tenants, Opens(p, n) PROVE [Access!Next]_(Access!vars)
      <3>1. \A m \in Tenants : Opens(p, m) => m = n
        BY <2>5 DEF Opens
      <3>2. OpeningTenants' \in {OpeningTenants, OpeningTenants \ {n}}
        BY <2>2, <2>3, <3>1, AttemptEnds
      <3>3. step[p] # "cancelling"
        BY <2>5 DEF Opens
      <3>4. CancellingTenants' = CancellingTenants /\ MissedTenants' = MissedTenants
        BY <2>1, <3>3, CancelsStay
      <3>5. CASE OpeningTenants' = OpeningTenants
        BY <2>1, <3>4, <3>5 DEF Access!vars
      <3>6. CASE OpeningTenants' = OpeningTenants \ {n}
        <4>1. Access!GiveUp(n)
          BY <2>1, <3>4, <3>6 DEF Access!GiveUp
        <4> QED  BY <4>1 DEF Access!Next
      <3> QED  BY <3>2, <3>5, <3>6
    <2> QED  BY <2>4, <2>5
  <1>6. ASSUME NEW p \in Requests, RevokeCommit(p) \/ ConfirmCommit(p)
        PROVE  Access!Next
    <2>1. /\ cancelled' = cancelled /\ user' = user /\ family' = family /\ Revoked(p)
          /\ step[p] \in {"revoking", "confirming"}
      BY <1>6 DEF RevokeCommit, ConfirmCommit
    <2>2. /\ OpenTenants' \in SUBSET OpenTenants /\ OpeningTenants' = OpeningTenants
          /\ \A q \in Requests \ {p} :
                step'[q] = step[q] /\ about'[q] = about[q] /\ raced'[q] = raced[q]
          /\ step'[p] = "idle"
      BY <1>0, <2>1, CommitStep
    <2>3. CancellingTenants' = CancellingTenants /\ MissedTenants' = MissedTenants
      BY <2>1, <2>2, CancelsStay
    <2>4. Access!Close
      BY <2>1, <2>2, <2>3 DEF Access!Close
    <2> QED  BY <2>4 DEF Access!Next
  <1>7. ASSUME NEW p \in Requests, CancelCommit(p) PROVE Access!Next
    <2>1. /\ user' = user /\ family' = family /\ Revoked(p) /\ step[p] = "cancelling"
          /\ cancelled' = cancelled \cup {about[p]}
      BY <1>7 DEF CancelCommit
    <2>2. PICK n \in Tenants : n = about[p]
      BY <1>0, <2>1 DEF PendingIsGrounded
    <2>3. /\ OpenTenants' \in SUBSET OpenTenants /\ OpeningTenants' = OpeningTenants
          /\ \A q \in Requests \ {p} :
                step'[q] = step[q] /\ about'[q] = about[q] /\ raced'[q] = raced[q]
          /\ step'[p] = "idle"
      BY <1>0, <2>1, CommitStep
    <2>4. /\ CancellingTenants' = CancellingTenants \ {n}
          /\ MissedTenants' = MissedTenants \ {n}
          /\ n \in MissedTenants <=> raced[p]
      BY <1>0, <2>1, <2>2, <2>3, CancelEnds
    <2>5. n \notin MissedTenants => n \notin OpenTenants'
      <3>1. \A t \in Live : Tenant(t) = n /\ ~raced[p] => t \in doomed[p]
        BY <1>0, <2>1, <2>2 DEF UpdatesReachAll, Aims, Tenant
      <3>2. revoked' = revoked \cup doomed[p]
        BY <2>1 DEF Revoked
      <3> QED  BY <2>1, <2>4, <3>1, <3>2 DEF OpenTenants, Live, Issued, Tenant
    <2>6. Access!Cancel(n)
      BY <2>1, <2>2, <2>3, <2>4, <2>5 DEF Access!Cancel, Access!EndCancel
    <2> QED  BY <2>6 DEF Access!Next
  <1>8. ASSUME NEW p \in Requests, RevokeFamily(p) \/ ConfirmUpdate(p)
        PROVE  UNCHANGED Access!vars
    <2>0. PICK s \in {"revoking", "confirming"} : \E rows : Revoking(p, s, about[p], rows)
      BY <1>8 DEF RevokeFamily, ConfirmUpdate
    <2>1. step[p] \in {"revoke", "confirm"} /\ \E rows : Revoking(p, s, about[p], rows)
      BY <1>8, <2>0 DEF RevokeFamily, ConfirmUpdate
    <2>2. /\ cancelled' = cancelled /\ OpenTenants' = OpenTenants
          /\ OpeningTenants' = OpeningTenants
          /\ \A q \in Requests \ {p} :
                step'[q] = step[q] /\ about'[q] = about[q] /\ raced'[q] = raced[q]
          /\ step'[p] = s
      <3>1. PICK x : x = about[p]
        OBVIOUS
      <3>2. PICK rows : Revoking(p, s, x, rows)
        BY <2>1, <3>1
      <3> QED  BY <1>0, <2>1, <3>2, UpdateStep
    <2>3. CancellingTenants' = CancellingTenants /\ MissedTenants' = MissedTenants
      BY <2>1, <2>2, CancelsStay
    <2> QED  BY <2>2, <2>3 DEF Access!vars
  <1>9. ASSUME NEW p \in Requests, NEW n \in Tenants, CancelUpdate(p, n) PROVE Access!Next
    <2>1. Revoking(p, "cancelling", n, Issued) /\ step[p] = "idle"
      BY <1>9 DEF CancelUpdate
    <2>2. /\ cancelled' = cancelled /\ OpenTenants' = OpenTenants
          /\ OpeningTenants' = OpeningTenants
          /\ \A q \in Requests \ {p} :
                step'[q] = step[q] /\ about'[q] = about[q] /\ raced'[q] = raced[q]
          /\ step'[p] = "cancelling" /\ about'[p] = n
      BY <1>0, <2>1, UpdateStep
    <2>3. CancellingTenants' = CancellingTenants \cup {n}
      BY <2>1, <2>2 DEF CancellingTenants
    <2>4. MissedTenants' = MissedTenants
      <3>1. ~raced'[p]
        BY <1>0, <2>1 DEF UpdatesReachAll, Revoking
      <3> QED  BY <2>1, <2>2, <3>1 DEF MissedTenants
    <2>5. Access!StartCancel(n)
      BY <2>2, <2>3, <2>4 DEF Access!StartCancel
    <2> QED  BY <2>5 DEF Access!Next
  <1>10. ASSUME \/ \E p \in Requests, k \in Tickets : ResetCommit(p, k)
                \/ Tick \/ UNCHANGED vars
        PROVE  UNCHANGED Access!vars
    <2>1. /\ cancelled' = cancelled /\ revoked' = revoked /\ user' = user /\ family' = family
          /\ raced' = raced
      BY <1>10 DEF ResetCommit, Tick, vars, tokenVars, reqVars
    <2>2. \A q \in Requests, m \in Tenants : Opens(q, m)' <=> Opens(q, m)
      BY <1>0, <1>10 DEF TypeOK, ResetCommit, Done, Tick, vars, tokenVars, reqVars, Opens, Tenant
    <2>3. \A q \in Requests, n \in Tenants :
            (step[q] = "cancelling" /\ about[q] = n)' <=> step[q] = "cancelling" /\ about[q] = n
      BY <1>0, <1>10 DEF TypeOK, ResetCommit, Done, Tick, vars, reqVars
    <2>4. CancellingTenants' = CancellingTenants /\ MissedTenants' = MissedTenants
      BY <2>1, <2>3 DEF CancellingTenants, MissedTenants
    <2> QED
      BY <2>1, <2>2, <2>4 DEF Access!vars, OpenTenants, OpeningTenants, Live, Issued, Tenant
  <1>11. ASSUME \/ \E p \in Requests, u \in Users : ResetLookup(p, u)
                \/ \E p \in Requests, t \in Tokens : DetectReuse(p, t)
                \/ \E p \in Requests, k \in Tickets : ConfirmLookup(p, k)
        PROVE  UNCHANGED Access!vars
    BY <1>3, <1>11 DEF ResetLookup, DetectReuse, ConfirmLookup
  <1> QED
    BY <1>1, <1>2, <1>4, <1>5, <1>6, <1>7, <1>8, <1>9, <1>10, <1>11 DEF Next

\* Sessions implements access to tenants: a session opens only for an attempt
\* that began while the organisation was not deleted or had a session, and a
\* cancellation ends the tenant's (R2.2, R2.3).
THEOREM Refinement == Spec => ImplementsAccess
  <1>1. IInv /\ [Next]_vars => [Access!Next]_(Access!vars)
    BY AccessStep
  <1> QED  BY AccessInit, <1>1, Invariance, PTL DEF Spec, ImplementsAccess, Access!Spec

\* No step lets a cancelled tenant in again: a lookup of login finds it
\* cancelled, and there is no live token to rotate.
LEMMA ShutOutStep ==
    ASSUME IInv, [Next]_vars, NEW m \in Tenants, ShutOut(m) PROVE ShutOut(m)'
  <1>1. [Access!Next]_(Access!vars)
    BY AccessStep
  <1>2. m \in cancelled /\ m \notin OpenTenants /\ m \notin OpeningTenants
    BY DEF ShutOut
  <1>3. m \in cancelled' /\ m \notin OpenTenants' /\ m \notin OpeningTenants'
    BY <1>1, <1>2
    DEF Access!Next, Access!vars, Access!Begin, Access!Open, Access!GiveUp, Access!Close,
        Access!StartCancel, Access!Cancel, Access!GiveUpCancel, Access!EndCancel
  <1> QED  BY <1>3 DEF ShutOut

\* R2.2, R2.3: a cancelled tenant whose sessions are gone gets no other.
THEOREM CancelledTenantsStayOut == Spec => CancelledStaysOut
  <1>1. IInv /\ [Next]_vars => [\A n \in Tenants : ShutOut(n) => ShutOut(n)']_vars
    BY ShutOutStep
  <1> QED  BY <1>1, Invariance, PTL DEF Spec, CancelledStaysOut

\* No step brings a session older than the password back, once there is none
\* and nobody is about to open one.
LEMMA NoOldStep ==
    ASSUME IInv, [Next]_vars, NEW v \in Users,
           ~OldSession(v), ~OldMint(v), password'[v] = password[v]
    PROVE  ~OldSession(v)' /\ ~OldMint(v)'
  <1> DEFINE NoOld == ~OldSession(v) /\ ~OldMint(v)
  <1>0. TypeOK /\ PendingIsGrounded /\ NoOld /\ password'[v] = password[v]
    BY DEF IInv
  <1> USE DEF OldSession, OldMint, Live, Issued
  <1>1. ASSUME NEW p \in Requests, NEW u \in Users, LoginLookup(p, u) PROVE NoOld'
    BY <1>0, <1>1 DEF TypeOK, PendingIsGrounded, LoginLookup, Pending, tokenVars
  <1>2. ASSUME NEW p \in Requests, NEW t \in Tokens, LoginCommit(p, t) PROVE NoOld'
    BY <1>0, <1>2 DEF TypeOK, PendingIsGrounded, LoginCommit, Mint, Done
  <1>3. ASSUME NEW p \in Requests, NEW t \in Tokens, AcceptToken(p, t) PROVE NoOld'
    BY <1>0, <1>3 DEF TypeOK, AcceptToken, Suspect, Pending, tokenVars
  <1>4. ASSUME NEW p \in Requests, NEW n \in Tokens, Rotate(p, n) PROVE NoOld'
    BY <1>0, <1>4 DEF TypeOK, PendingIsGrounded, Rotate, Mint, Done
  <1>5. ASSUME NEW p \in Requests, RevokeCommit(p) \/ ConfirmCommit(p) \/ CancelCommit(p)
        PROVE  NoOld'
    BY <1>0, <1>5 DEF TypeOK, RevokeCommit, ConfirmCommit, CancelCommit, Revoked, Done
  <1>6. ASSUME NEW p \in Requests,
               RevokeFamily(p) \/ ConfirmUpdate(p) \/ \E n \in Tenants : CancelUpdate(p, n)
        PROVE  NoOld'
    BY <1>0, <1>6 DEF TypeOK, RevokeFamily, ConfirmUpdate, CancelUpdate, Revoking, tokenVars
  <1>7. ASSUME \/ \E p \in Requests, u \in Users : ResetLookup(p, u)
               \/ \E p \in Requests, t \in Tokens : DetectReuse(p, t)
               \/ \E p \in Requests, k \in Tickets : ResetCommit(p, k) \/ ConfirmLookup(p, k)
               \/ \E p \in Requests : Abandon(p)
               \/ Tick \/ UNCHANGED vars
        PROVE  NoOld'
    BY <1>0, <1>7
    DEF TypeOK, ResetLookup, DetectReuse, ResetCommit, ConfirmLookup, Abandon, Tick,
        Pending, Done, vars, tokenVars, reqVars
  <1> QED  BY <1>1, <1>2, <1>3, <1>4, <1>5, <1>6, <1>7 DEF Next

\* The COMMIT that changes a password revokes what its UPDATE has reached: every
\* live session of the user, if none was opened in between.
LEMMA ResetStep ==
    ASSUME IInv, [Next]_vars, NEW v \in Users, password'[v] # password[v], ~Overlapped(v)
    PROVE  ~OldSession(v)'
  <1>0. TypeOK /\ PendingIsGrounded /\ UpdatesReachAll
    BY DEF IInv
  <1>1. PICK p \in Requests : ConfirmCommit(p)
    BY DEF Next, LoginLookup, ResetLookup, LoginCommit, AcceptToken, DetectReuse, Rotate,
        RevokeFamily, RevokeCommit, ResetCommit, ConfirmLookup, ConfirmUpdate, CancelUpdate,
        CancelCommit, Abandon, Tick, Pending, Revoking, vars
  <1>2. step[p] = "confirming" /\ ticketFor[about[p]] = v
    BY <1>0, <1>1 DEF TypeOK, PendingIsGrounded, ConfirmCommit
  <1>3. \A t \in Live : user[t] = v => t \in doomed[p]
    BY <1>0, <1>2 DEF UpdatesReachAll, Aims, Overlapped
  <1>4. revoked' = revoked \cup doomed[p] /\ user' = user /\ family' = family
    BY <1>1 DEF ConfirmCommit, Revoked
  <1> QED  BY <1>3, <1>4 DEF OldSession, Live, Issued

\* R22.3, as far as it holds: a reset ends every session of the old password but
\* those opened between its UPDATE and its COMMIT, and no step brings one back
\* except for a login or rotation that read its row before the COMMIT.
THEOREM ResetsEndOldSessions == Spec => ResetEndsOldSessions
  <1>1. IInv /\ [Next]_vars =>
            [\A u \in Users :
                /\ password'[u] # password[u] /\ ~Overlapped(u) => ~OldSession(u)'
                /\ ~OldSession(u) /\ ~OldMint(u) /\ password'[u] = password[u]
                        => ~OldSession(u)' /\ ~OldMint(u)']_vars
    BY ResetStep, NoOldStep
  <1> QED  BY <1>1, Invariance, PTL DEF Spec, ResetEndsOldSessions

\* No step gives a spent ticket back or lets it reset once more.
LEMMA SpentStep ==
    ASSUME IInv, [Next]_vars, NEW x \in Tickets, x \in consumed,
           ~\E p \in Requests : Holds(p, x)
    PROVE  /\ confirms'[x] = confirms[x] /\ x \in consumed'
           /\ ~(\E p \in Requests : Holds(p, x))'
  <1> DEFINE Spent == x \in consumed /\ ~\E p \in Requests : Holds(p, x)
             Final == confirms'[x] = confirms[x] /\ Spent'
  <1> USE DEF Holds
  <1>0. TypeOK /\ Spent
    BY DEF IInv
  <1>1. ASSUME NEW p \in Requests, NEW k \in Tickets, ConfirmLookup(p, k) PROVE Final
    BY <1>0, <1>1 DEF TypeOK, ConfirmLookup, Pending, ticketVars
  <1>2. ASSUME NEW p \in Requests, ConfirmUpdate(p) PROVE Final
    BY <1>0, <1>2 DEF TypeOK, ConfirmUpdate, Revoking, ticketVars
  <1>3. ASSUME NEW p \in Requests, ConfirmCommit(p) PROVE Final
    BY <1>0, <1>3 DEF TypeOK, ConfirmCommit, Revoked, Done
  <1>4. ASSUME NEW p \in Requests,
               RevokeFamily(p) \/ \E n \in Tenants : CancelUpdate(p, n)
        PROVE  Final
    BY <1>0, <1>4 DEF TypeOK, RevokeFamily, CancelUpdate, Revoking, ticketVars
  <1>5. ASSUME NEW p \in Requests, RevokeCommit(p) \/ CancelCommit(p) \/ Abandon(p)
        PROVE  Final
    BY <1>0, <1>5 DEF TypeOK, RevokeCommit, CancelCommit, Abandon, Revoked, Done, ticketVars
  <1>6. ASSUME \/ \E p \in Requests, u \in Users : LoginLookup(p, u) \/ ResetLookup(p, u)
               \/ \E p \in Requests, t \in Tokens : LoginCommit(p, t) \/ AcceptToken(p, t)
                                                    \/ DetectReuse(p, t) \/ Rotate(p, t)
               \/ \E p \in Requests, k \in Tickets : ResetCommit(p, k)
               \/ Tick \/ UNCHANGED vars
        PROVE  Final
    BY <1>0, <1>6
    DEF TypeOK, LoginLookup, ResetLookup, LoginCommit, AcceptToken, DetectReuse, Rotate,
        ResetCommit, Tick, Pending, Done, vars, ticketVars, reqVars
  <1> QED  BY <1>1, <1>2, <1>3, <1>4, <1>5, <1>6 DEF Next

\* R22.4: a spent ticket that no request holds resets nothing any more.
THEOREM SpentTicketsAreFinal == Spec => SpentTicketIsFinal
  <1>1. IInv /\ [Next]_vars =>
            [\A k \in Tickets :
                k \in consumed /\ ~(\E p \in Requests : Holds(p, k))
                    => confirms'[k] = confirms[k] /\ k \in consumed'
                       /\ ~(\E p \in Requests : Holds(p, k))']_vars
    BY SpentStep
  <1> QED  BY <1>1, Invariance, PTL DEF Spec, SpentTicketIsFinal

\* R3.6: the first use of a token fixes its overlap window.
THEOREM FirstUsesStand == Spec => FirstUseStands
  <1>1. IInv /\ [Next]_vars => [\A t \in Tokens : usedAt[t] # None => usedAt'[t] = usedAt[t]]_vars
    <2> SUFFICES ASSUME IInv, Next, NEW t \in Tokens, usedAt[t] # None
                 PROVE  usedAt'[t] = usedAt[t]
      OBVIOUS
    <2>1. TypeOK
      BY DEF IInv
    <2>2. ASSUME NEW p \in Requests, NEW n \in Tokens, Rotate(p, n) PROVE usedAt'[t] = usedAt[t]
      BY <2>1, <2>2 DEF TypeOK, Rotate
    <2> QED
      BY <2>2
      DEF Next, LoginLookup, ResetLookup, LoginCommit, AcceptToken, DetectReuse, RevokeFamily,
          RevokeCommit, ResetCommit, ConfirmLookup, ConfirmUpdate, ConfirmCommit, CancelUpdate,
          CancelCommit, Abandon, Tick, Pending, Revoking, tokenVars
  <1> QED  BY <1>1, Invariance, PTL DEF Spec, FirstUseStands
=============================================================================
