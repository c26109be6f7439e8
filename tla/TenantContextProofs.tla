------------------------ MODULE TenantContextProofs ------------------------
(* Proofs about TenantContext, for any sets of requests, connections,       *)
(* tenants and row ids.                                                     *)
EXTENDS TenantContext, TLAPS

\* The inductive step: every hook, handler statement and fault keeps IInv.
LEMMA NextKeepsIInv == IInv /\ [Next]_vars => IInv'
  <1> SUFFICES ASSUME IInv, [Next]_vars PROVE IInv'
    OBVIOUS
  <1>0. /\ TypeOK /\ Exclusive /\ IdleIsClean /\ ReadsOwnTenant /\ WritesOwnTenant
        /\ ClientMatchesPhase /\ StatusMatchesPhase
    BY DEF IInv, Isolation
  <1>1. ASSUME NEW r \in Requests, NEW t \in Tenants \cup {NoTenant}, Authenticate(r, t) PROVE IInv'
    <2>1. TypeOK'
      BY <1>0, <1>1 DEF TypeOK, Phases, Row, Write, Authenticate, reqVars, connVars
    <2>2. Exclusive' /\ ClientMatchesPhase'
      BY <1>0, <1>1, NullsAreNotValues
      DEF TypeOK, Exclusive, ClientMatchesPhase, StatusMatchesPhase, WorkingClient, Authenticate, reqVars, connVars
    <2>3. IdleIsClean' /\ WritesOwnTenant'
      BY <1>0, <1>1, NullsAreNotValues
      DEF TypeOK, Exclusive, IdleIsClean, WritesOwnTenant, ClientMatchesPhase,
          WorkingClient, Authenticate, reqVars, connVars
    <2>4. ReadsOwnTenant' /\ StatusMatchesPhase'
      BY <1>0, <1>1 DEF TypeOK, ReadsOwnTenant, StatusMatchesPhase,
          ClientMatchesPhase, WorkingClient, Authenticate, reqVars, connVars
    <2> QED  BY <2>1, <2>2, <2>3, <2>4 DEF IInv, Isolation
  <1>2. ASSUME NEW r \in Requests, RejectEarly(r) PROVE IInv'
    <2>1. TypeOK'
      BY <1>0, <1>2 DEF TypeOK, Phases, Row, Write, RejectEarly, reqVars, connVars
    <2>2. Exclusive' /\ ClientMatchesPhase'
      BY <1>0, <1>2, NullsAreNotValues
      DEF TypeOK, Exclusive, ClientMatchesPhase, StatusMatchesPhase, WorkingClient, RejectEarly, reqVars, connVars
    <2>3. IdleIsClean' /\ WritesOwnTenant'
      BY <1>0, <1>2, NullsAreNotValues
      DEF TypeOK, Exclusive, IdleIsClean, WritesOwnTenant, ClientMatchesPhase,
          WorkingClient, RejectEarly, reqVars, connVars
    <2>4. ReadsOwnTenant' /\ StatusMatchesPhase'
      BY <1>0, <1>2 DEF TypeOK, ReadsOwnTenant, StatusMatchesPhase,
          ClientMatchesPhase, WorkingClient, RejectEarly, reqVars, connVars
    <2> QED  BY <2>1, <2>2, <2>3, <2>4 DEF IInv, Isolation
  <1>3. ASSUME NEW r \in Requests, Connect(r) PROVE IInv'
    <2>1. TypeOK'
      BY <1>0, <1>3 DEF TypeOK, Phases, Row, Write, Connect, reqVars, connVars
    <2>2. Exclusive' /\ ClientMatchesPhase'
      BY <1>0, <1>3, NullsAreNotValues
      DEF TypeOK, Exclusive, ClientMatchesPhase, StatusMatchesPhase, WorkingClient, Connect, reqVars, connVars
    <2>3. IdleIsClean' /\ WritesOwnTenant'
      BY <1>0, <1>3, NullsAreNotValues
      DEF TypeOK, Exclusive, IdleIsClean, WritesOwnTenant, ClientMatchesPhase,
          WorkingClient, Connect, reqVars, connVars
    <2>4. ReadsOwnTenant' /\ StatusMatchesPhase'
      BY <1>0, <1>3 DEF TypeOK, ReadsOwnTenant, StatusMatchesPhase,
          ClientMatchesPhase, WorkingClient, Connect, reqVars, connVars
    <2> QED  BY <2>1, <2>2, <2>3, <2>4 DEF IInv, Isolation
  <1>4. ASSUME NEW r \in Requests, Bind(r) PROVE IInv'
    <2>1. TypeOK'
      BY <1>0, <1>4 DEF TypeOK, Phases, Row, Write, Bind, reqVars, connVars
    <2>2. Exclusive' /\ ClientMatchesPhase'
      BY <1>0, <1>4, NullsAreNotValues
      DEF TypeOK, Exclusive, ClientMatchesPhase, StatusMatchesPhase, WorkingClient, Bind, reqVars, connVars
    <2>3. IdleIsClean' /\ WritesOwnTenant'
      BY <1>0, <1>4, NullsAreNotValues
      DEF TypeOK, Exclusive, IdleIsClean, WritesOwnTenant, ClientMatchesPhase,
          WorkingClient, Bind, reqVars, connVars
    <2>4. ReadsOwnTenant' /\ StatusMatchesPhase'
      BY <1>0, <1>4 DEF TypeOK, ReadsOwnTenant, StatusMatchesPhase,
          ClientMatchesPhase, WorkingClient, Bind, reqVars, connVars
    <2> QED  BY <2>1, <2>2, <2>3, <2>4 DEF IInv, Isolation
  <1>5. ASSUME NEW r \in Requests, Admit(r) PROVE IInv'
    <2>1. TypeOK'
      BY <1>0, <1>5 DEF TypeOK, Phases, Row, Write, Admit, reqVars, connVars
    <2>2. Exclusive' /\ ClientMatchesPhase'
      BY <1>0, <1>5, NullsAreNotValues
      DEF TypeOK, Exclusive, ClientMatchesPhase, StatusMatchesPhase, WorkingClient, Admit, reqVars, connVars
    <2>3. IdleIsClean' /\ WritesOwnTenant'
      BY <1>0, <1>5, NullsAreNotValues
      DEF TypeOK, Exclusive, IdleIsClean, WritesOwnTenant, ClientMatchesPhase,
          WorkingClient, Admit, reqVars, connVars
    <2>4. ReadsOwnTenant' /\ StatusMatchesPhase'
      BY <1>0, <1>5 DEF TypeOK, ReadsOwnTenant, StatusMatchesPhase,
          ClientMatchesPhase, WorkingClient, Admit, reqVars, connVars
    <2> QED  BY <2>1, <2>2, <2>3, <2>4 DEF IInv, Isolation
  <1>6. ASSUME NEW r \in Requests, OpenFails(r) PROVE IInv'
    <2>1. TypeOK'
      BY <1>0, <1>6 DEF TypeOK, Phases, Row, Write, OpenFails, EndTx, Release, reqVars, connVars
    <2>2. Exclusive' /\ ClientMatchesPhase'
      BY <1>0, <1>6, NullsAreNotValues
      DEF TypeOK, Exclusive, ClientMatchesPhase, StatusMatchesPhase, WorkingClient, OpenFails, EndTx, Release, reqVars, connVars
    <2>3. IdleIsClean' /\ WritesOwnTenant'
      BY <1>0, <1>6, NullsAreNotValues
      DEF TypeOK, Exclusive, IdleIsClean, WritesOwnTenant, ClientMatchesPhase,
          WorkingClient, OpenFails, EndTx, Release, reqVars, connVars
    <2>4. ReadsOwnTenant' /\ StatusMatchesPhase'
      BY <1>0, <1>6 DEF TypeOK, ReadsOwnTenant, StatusMatchesPhase,
          ClientMatchesPhase, WorkingClient, OpenFails, EndTx, Release, reqVars, connVars
    <2> QED  BY <2>1, <2>2, <2>3, <2>4 DEF IInv, Isolation
  <1>7. ASSUME NEW r \in Requests, Select(r) PROVE IInv'
    <2>1. TypeOK'
      <3>1. client[r] \in Conns
        BY <1>0, <1>7 DEF TypeOK, ClientMatchesPhase, Select
      <3>2. Visible(client[r]) \subseteq Row
        BY <1>0, <3>1 DEF TypeOK, Visible, After, Write
      <3>3. seen' \in [Requests -> SUBSET Tenants]
        BY <1>0, <1>7, <3>2 DEF TypeOK, Row, Select
      <3> QED  BY <1>0, <1>7, <3>3 DEF TypeOK, Select, connVars
    <2>2. Exclusive' /\ ClientMatchesPhase'
      BY <1>0, <1>7, NullsAreNotValues
      DEF TypeOK, Exclusive, ClientMatchesPhase, StatusMatchesPhase, WorkingClient, Select, reqVars, connVars
    <2>3. IdleIsClean' /\ WritesOwnTenant'
      BY <1>0, <1>7, NullsAreNotValues
      DEF TypeOK, Exclusive, IdleIsClean, WritesOwnTenant, ClientMatchesPhase,
          WorkingClient, Select, reqVars, connVars, Visible, After
    <2>4. ReadsOwnTenant' /\ StatusMatchesPhase'
      BY <1>0, <1>7 DEF TypeOK, ReadsOwnTenant, StatusMatchesPhase,
          ClientMatchesPhase, WorkingClient, Select, reqVars, connVars, Visible, After
    <2> QED  BY <2>1, <2>2, <2>3, <2>4 DEF IInv, Isolation
  <1>8. ASSUME NEW r \in Requests, NEW i \in RowIds, Insert(r, i) PROVE IInv'
    <2>1. TypeOK'
      BY <1>0, <1>8 DEF TypeOK, Phases, Row, Write, ClientMatchesPhase,
          WorkingClient, Insert, reqVars, connVars
    <2>2. Exclusive' /\ ClientMatchesPhase'
      BY <1>0, <1>8, NullsAreNotValues
      DEF TypeOK, Exclusive, ClientMatchesPhase, StatusMatchesPhase, WorkingClient, Insert, reqVars, connVars
    <2>3. IdleIsClean' /\ WritesOwnTenant'
      BY <1>0, <1>8, NullsAreNotValues
      DEF TypeOK, Exclusive, IdleIsClean, WritesOwnTenant, ClientMatchesPhase,
          WorkingClient, Insert, reqVars, connVars
    <2>4. ReadsOwnTenant' /\ StatusMatchesPhase'
      BY <1>0, <1>8 DEF TypeOK, ReadsOwnTenant, StatusMatchesPhase,
          ClientMatchesPhase, WorkingClient, Insert, reqVars, connVars
    <2> QED  BY <2>1, <2>2, <2>3, <2>4 DEF IInv, Isolation
  <1>9. ASSUME NEW r \in Requests, NEW i \in RowIds, NEW op \in {"update", "delete"},
               Modify(r, op, i)
        PROVE  IInv'
    <2>1. TypeOK'
      <3>1. client[r] \in Conns
        BY <1>0, <1>9 DEF TypeOK, ClientMatchesPhase, Modify
      <3>2. Visible(client[r]) \subseteq Row
        BY <1>0, <3>1 DEF TypeOK, Visible, After, Write
      <3>3. pend' \in [Conns -> SUBSET Write]
        BY <1>0, <1>9, <3>1, <3>2 DEF TypeOK, Write, Modify
      <3> QED  BY <1>0, <1>9, <3>3 DEF TypeOK, Modify, reqVars
    <2>2. Exclusive' /\ ClientMatchesPhase'
      BY <1>0, <1>9, NullsAreNotValues
      DEF TypeOK, Exclusive, ClientMatchesPhase, StatusMatchesPhase, WorkingClient, Modify, reqVars, connVars
    <2>3. IdleIsClean' /\ WritesOwnTenant'
      BY <1>0, <1>9, NullsAreNotValues
      DEF TypeOK, Exclusive, IdleIsClean, WritesOwnTenant, ClientMatchesPhase,
          WorkingClient, Modify, reqVars, connVars, Visible, After
    <2>4. ReadsOwnTenant' /\ StatusMatchesPhase'
      BY <1>0, <1>9 DEF TypeOK, ReadsOwnTenant, StatusMatchesPhase,
          ClientMatchesPhase, WorkingClient, Modify, reqVars, connVars, Visible, After
    <2> QED  BY <2>1, <2>2, <2>3, <2>4 DEF IInv, Isolation
  <1>10. ASSUME NEW r \in Requests, NEW s \in {"ok", "error"}, Return(r, s) PROVE IInv'
    <2>1. TypeOK'
      BY <1>0, <1>10 DEF TypeOK, Phases, Row, Write, Return, reqVars, connVars
    <2>2. Exclusive' /\ ClientMatchesPhase'
      BY <1>0, <1>10, NullsAreNotValues
      DEF TypeOK, Exclusive, ClientMatchesPhase, StatusMatchesPhase, WorkingClient, Return, reqVars, connVars
    <2>3. IdleIsClean' /\ WritesOwnTenant'
      BY <1>0, <1>10, NullsAreNotValues
      DEF TypeOK, Exclusive, IdleIsClean, WritesOwnTenant, ClientMatchesPhase,
          WorkingClient, Return, reqVars, connVars
    <2>4. ReadsOwnTenant' /\ StatusMatchesPhase'
      BY <1>0, <1>10 DEF TypeOK, ReadsOwnTenant, StatusMatchesPhase,
          ClientMatchesPhase, WorkingClient, Return, reqVars, connVars
    <2> QED  BY <2>1, <2>2, <2>3, <2>4 DEF IInv, Isolation
  <1>11. ASSUME NEW r \in Requests, OnError(r) PROVE IInv'
    <2>1. TypeOK'
      BY <1>0, <1>11 DEF TypeOK, Phases, Row, Write, OnError, EndTx, Release, reqVars, connVars
    <2>2. Exclusive' /\ ClientMatchesPhase'
      BY <1>0, <1>11, NullsAreNotValues
      DEF TypeOK, Exclusive, ClientMatchesPhase, StatusMatchesPhase, WorkingClient, OnError, EndTx, Release, reqVars, connVars
    <2>3. IdleIsClean' /\ WritesOwnTenant'
      BY <1>0, <1>11, NullsAreNotValues
      DEF TypeOK, Exclusive, IdleIsClean, WritesOwnTenant, ClientMatchesPhase,
          WorkingClient, OnError, EndTx, Release, reqVars, connVars
    <2>4. ReadsOwnTenant' /\ StatusMatchesPhase'
      BY <1>0, <1>11 DEF TypeOK, ReadsOwnTenant, StatusMatchesPhase,
          ClientMatchesPhase, WorkingClient, OnError, EndTx, Release, reqVars, connVars
    <2> QED  BY <2>1, <2>2, <2>3, <2>4 DEF IInv, Isolation
  <1>12. ASSUME NEW r \in Requests, SendBare(r) PROVE IInv'
    <2>1. TypeOK'
      BY <1>0, <1>12 DEF TypeOK, Phases, Row, Write, SendBare, reqVars, connVars
    <2>2. Exclusive' /\ ClientMatchesPhase'
      BY <1>0, <1>12, NullsAreNotValues
      DEF TypeOK, Exclusive, ClientMatchesPhase, StatusMatchesPhase, WorkingClient, SendBare, reqVars, connVars
    <2>3. IdleIsClean' /\ WritesOwnTenant'
      BY <1>0, <1>12, NullsAreNotValues
      DEF TypeOK, Exclusive, IdleIsClean, WritesOwnTenant, ClientMatchesPhase,
          WorkingClient, SendBare, reqVars, connVars
    <2>4. ReadsOwnTenant' /\ StatusMatchesPhase'
      BY <1>0, <1>12 DEF TypeOK, ReadsOwnTenant, StatusMatchesPhase,
          ClientMatchesPhase, WorkingClient, SendBare, reqVars, connVars
    <2> QED  BY <2>1, <2>2, <2>3, <2>4 DEF IInv, Isolation
  <1>13. ASSUME NEW r \in Requests, OnSend(r) PROVE IInv'
    <2>1. TypeOK'
      BY <1>0, <1>13 DEF TypeOK, Phases, Row, Write, OnSend, EndTx, Release, reqVars, connVars, After
    <2>2. Exclusive' /\ ClientMatchesPhase'
      BY <1>0, <1>13, NullsAreNotValues
      DEF TypeOK, Exclusive, ClientMatchesPhase, StatusMatchesPhase, WorkingClient, OnSend, EndTx, Release, reqVars, connVars
    <2>3. IdleIsClean' /\ WritesOwnTenant'
      BY <1>0, <1>13, NullsAreNotValues
      DEF TypeOK, Exclusive, IdleIsClean, WritesOwnTenant, ClientMatchesPhase,
          WorkingClient, OnSend, EndTx, Release, reqVars, connVars
    <2>4. ReadsOwnTenant' /\ StatusMatchesPhase'
      BY <1>0, <1>13 DEF TypeOK, ReadsOwnTenant, StatusMatchesPhase,
          ClientMatchesPhase, WorkingClient, OnSend, EndTx, Release, reqVars, connVars
    <2> QED  BY <2>1, <2>2, <2>3, <2>4 DEF IInv, Isolation
  <1>14. ASSUME NEW r \in Requests, NextRequest(r) PROVE IInv'
    <2>1. TypeOK'
      BY <1>0, <1>14 DEF TypeOK, Phases, Row, Write, NextRequest, reqVars, connVars
    <2>2. Exclusive' /\ ClientMatchesPhase'
      BY <1>0, <1>14, NullsAreNotValues
      DEF TypeOK, Exclusive, ClientMatchesPhase, StatusMatchesPhase, WorkingClient, NextRequest, reqVars, connVars
    <2>3. IdleIsClean' /\ WritesOwnTenant'
      BY <1>0, <1>14, NullsAreNotValues
      DEF TypeOK, Exclusive, IdleIsClean, WritesOwnTenant, ClientMatchesPhase,
          WorkingClient, NextRequest, reqVars, connVars
    <2>4. ReadsOwnTenant' /\ StatusMatchesPhase'
      BY <1>0, <1>14 DEF TypeOK, ReadsOwnTenant, StatusMatchesPhase,
          ClientMatchesPhase, WorkingClient, NextRequest, reqVars, connVars
    <2> QED  BY <2>1, <2>2, <2>3, <2>4 DEF IInv, Isolation
  <1>15. ASSUME NEW c \in Conns, Lose(c) PROVE IInv'
    <2>1. TypeOK'
      BY <1>0, <1>15 DEF TypeOK, Phases, Row, Write, Lose, reqVars, connVars
    <2>2. Exclusive' /\ ClientMatchesPhase'
      BY <1>0, <1>15, NullsAreNotValues
      DEF TypeOK, Exclusive, ClientMatchesPhase, StatusMatchesPhase, WorkingClient, Lose, reqVars, connVars
    <2>3. IdleIsClean' /\ WritesOwnTenant'
      BY <1>0, <1>15, NullsAreNotValues
      DEF TypeOK, Exclusive, IdleIsClean, WritesOwnTenant, ClientMatchesPhase,
          WorkingClient, Lose, reqVars, connVars
    <2>4. ReadsOwnTenant' /\ StatusMatchesPhase'
      BY <1>0, <1>15 DEF TypeOK, ReadsOwnTenant, StatusMatchesPhase,
          ClientMatchesPhase, WorkingClient, Lose, reqVars, connVars
    <2> QED  BY <2>1, <2>2, <2>3, <2>4 DEF IInv, Isolation
  <1>16. ASSUME NEW t \in Tenants, Cancel(t) PROVE IInv'
    <2>1. TypeOK'
      BY <1>0, <1>16 DEF TypeOK, Phases, Row, Write, Cancel, reqVars, connVars
    <2>2. Exclusive' /\ ClientMatchesPhase'
      BY <1>0, <1>16, NullsAreNotValues
      DEF TypeOK, Exclusive, ClientMatchesPhase, StatusMatchesPhase, WorkingClient, Cancel, reqVars, connVars
    <2>3. IdleIsClean' /\ WritesOwnTenant'
      BY <1>0, <1>16, NullsAreNotValues
      DEF TypeOK, Exclusive, IdleIsClean, WritesOwnTenant, ClientMatchesPhase,
          WorkingClient, Cancel, reqVars, connVars
    <2>4. ReadsOwnTenant' /\ StatusMatchesPhase'
      BY <1>0, <1>16 DEF TypeOK, ReadsOwnTenant, StatusMatchesPhase,
          ClientMatchesPhase, WorkingClient, Cancel, reqVars, connVars
    <2> QED  BY <2>1, <2>2, <2>3, <2>4 DEF IInv, Isolation
  <1>17. CASE UNCHANGED vars
    BY <1>0, <1>17 DEF vars, reqVars, connVars, IInv, Isolation, TypeOK, Exclusive,
        IdleIsClean, ReadsOwnTenant, WritesOwnTenant, ClientMatchesPhase,
        StatusMatchesPhase, WorkingClient
  <1> QED
    BY <1>1, <1>2, <1>3, <1>4, <1>5, <1>6, <1>7, <1>8, <1>9, <1>10, <1>11, <1>12, <1>13, <1>14, <1>15, <1>16, <1>17 DEF Next, Step, Handle

\* The inductive invariant holds at the start.
LEMMA InitIInv == Init => IInv
  BY NullsAreNotValues DEF Init, IInv, Isolation, TypeOK, Phases, Exclusive,
     IdleIsClean, ReadsOwnTenant, WritesOwnTenant, ClientMatchesPhase,
     StatusMatchesPhase, WorkingClient

\* IInv is an invariant of the request path.
THEOREM Invariance == Spec => []IInv
  BY InitIInv, NextKeepsIInv, PTL DEF Spec

\* Type correctness.
THEOREM TypeCorrect == Spec => []TypeOK
  <1>1. IInv => TypeOK
    BY DEF IInv
  <1> QED  BY <1>1, Invariance, PTL

\* Tenant isolation on the shared pool: exclusive clients, clean idle
\* connections, reads and pending writes of the request's own tenant only.
THEOREM TenantIsolation ==
    Spec => []Exclusive /\ []IdleIsClean /\ []ReadsOwnTenant /\ []WritesOwnTenant
  <1>1. IInv => Exclusive /\ IdleIsClean /\ ReadsOwnTenant /\ WritesOwnTenant
    BY DEF IInv, Isolation
  <1> QED  BY <1>1, Invariance, PTL

\* No connection is held by two requests, whatever statements fail and
\* sessions die: a client goes back to the pool exactly once.
THEOREM ExclusiveClients == Spec => []Exclusive
  BY TenantIsolation, PTL

\* A connection in the pool carries no setting, transaction or write of the
\* request before: set_config is transaction-local and every path ends it.
THEOREM IdleConnectionsAreClean == Spec => []IdleIsClean
  BY TenantIsolation, PTL

\* What is pending on a request's connection are rows of the request's tenant:
\* the policies' WITH CHECK against the setting that withTenant made.
THEOREM OwnWritesOnly == Spec => []WritesOwnTenant
  BY TenantIsolation, PTL

\* One step of the argument that a drained tenant stays drained: only Admit
\* makes a request work for it and Admit reads cancelled; only a request that
\* works for it has pending writes to its rows.
LEMMA DrainedStep ==
    ASSUME IInv, [Next]_vars, NEW t \in Tenants, Drained(t)
    PROVE  Drained(t)' /\ RowsOf(t)' = RowsOf(t)
  <1>0. TypeOK /\ Exclusive /\ WritesOwnTenant /\ ClientMatchesPhase /\ StatusMatchesPhase
    BY DEF IInv, Isolation
  <1> DEFINE Other(r) == \/ \E u \in Tenants \cup {NoTenant} : Authenticate(r, u)
                         \/ RejectEarly(r) \/ Connect(r) \/ Bind(r) \/ Admit(r)
                         \/ OpenFails(r) \/ Handle(r) \/ OnError(r)
                         \/ \E s \in {"ok", "error"} : Return(r, s)
                         \/ SendBare(r) \/ NextRequest(r)
  <1>1. ASSUME NEW r \in Requests, Other(r) PROVE Drained(t)' /\ RowsOf(t)' = RowsOf(t)
    <2>1. rows' = rows /\ cancelled' = cancelled
      BY <1>1 DEF Authenticate, RejectEarly, Connect, Bind, Admit, OpenFails, Handle,
          Select, Insert, Modify, OnError, Return, SendBare, NextRequest
    <2>2. \A q \in Requests \ {r} : /\ tenant'[q] = tenant[q] /\ phase'[q] = phase[q]
                                     /\ client'[q] = client[q]
      BY <1>0, <1>1 DEF TypeOK, Authenticate, RejectEarly, Connect, Bind, Admit, OpenFails,
          Handle, Select, Insert, Modify, OnError, Return, SendBare, NextRequest, reqVars
    <2>3. tenant'[r] = t => ~(phase'[r] = "handling"
                              \/ (phase'[r] = "replying" /\ client'[r] # NoConn))
      <3>1. CASE \E u \in Tenants \cup {NoTenant} : Authenticate(r, u)
        BY <1>0, <3>1 DEF TypeOK, Authenticate
      <3>2. CASE RejectEarly(r) \/ Connect(r) \/ Bind(r) \/ Admit(r) \/ OpenFails(r)
        BY <1>0, <3>2 DEF TypeOK, ClientMatchesPhase, Drained, RejectEarly, Connect, Bind,
            Admit, OpenFails
      <3>3. CASE Handle(r) \/ \E s \in {"ok", "error"} : Return(r, s)
        BY <1>0, <3>3 DEF TypeOK, Drained, Handle, Select, Insert, Modify, Return, reqVars
      <3>4. CASE OnError(r) \/ SendBare(r) \/ NextRequest(r)
        BY <1>0, <3>4 DEF TypeOK, OnError, SendBare, NextRequest
      <3> QED  BY <1>1, <3>1, <3>2, <3>3, <3>4
    <2>4. Drained(t)'
      BY <2>1, <2>2, <2>3 DEF Drained
    <2> QED  BY <2>1, <2>4 DEF RowsOf
  <1>2. ASSUME NEW r \in Requests, OnSend(r) PROVE Drained(t)' /\ RowsOf(t)' = RowsOf(t)
    <2>1. holder[client[r]] = r /\ tenant[r] # t
      BY <1>0, <1>2 DEF OnSend, TypeOK, Exclusive, Drained
    <2>2. \A w \in pend[client[r]] : w.row.tenant # t
      BY <1>0, <1>2, <2>1 DEF OnSend, TypeOK, WritesOwnTenant
    <2>3. RowsOf(t)' = RowsOf(t)
      BY <1>2, <2>2 DEF OnSend, RowsOf, After
    <2> QED  BY <1>0, <1>2, <2>3 DEF OnSend, Drained, TypeOK
  <1>3. ASSUME NEW c \in Conns, Lose(c) PROVE Drained(t)' /\ RowsOf(t)' = RowsOf(t)
    BY <1>3 DEF Lose, Drained, RowsOf, reqVars
  <1>4. ASSUME NEW u \in Tenants, Cancel(u) PROVE Drained(t)' /\ RowsOf(t)' = RowsOf(t)
    BY <1>4 DEF Cancel, Drained, RowsOf, reqVars
  <1>5. CASE UNCHANGED vars
    BY <1>5 DEF vars, reqVars, Drained, RowsOf
  <1> QED  BY <1>1, <1>2, <1>3, <1>4, <1>5 DEF Next, Step

\* A cancelled tenant whose admitted requests are over stays out for good.
THEOREM FrozenAfterCancel == Spec => CancelledIsFrozen
  <1>1. IInv /\ [Next]_vars =>
            [\A t \in Tenants : Drained(t) =>
                Drained(t)' /\ RowsOf(t)' = RowsOf(t)]_vars
    BY DrainedStep
  <1> QED  BY <1>1, Invariance, PTL DEF Spec, CancelledIsFrozen

\* The initial state is the abstract store's: every tenant's store is empty.
LEMMA StoreInit == Init => Store!Init
  BY DEF Init, Store!Init, RowsOf, Draft, Fate, Dead

\* What the client was told.
Told(r) == IF phase[r] = "sent" THEN status[r] ELSE "none"

\* A step of one request is no step of another: they share no connection.
LEMMA OthersStay ==
    ASSUME IInv, NEW r \in Requests, Step(r), NEW q \in Requests \ {r}
    PROVE  /\ Draft(q)' = Draft(q) /\ Fate(q)' = Fate(q)
           /\ tenant'[q] = tenant[q] /\ Told(q)' = Told(q)
  <1>0. TypeOK /\ Exclusive
    BY DEF IInv, Isolation
  <1> USE DEF TypeOK
  <1>1. /\ tenant'[q] = tenant[q] /\ phase'[q] = phase[q] /\ status'[q] = status[q]
        /\ client'[q] = client[q]
    BY <1>0 DEF Step, Authenticate, RejectEarly, Connect, Bind, Admit, OpenFails, Handle,
        Select, Insert, Modify, OnError, Return, SendBare, OnSend, NextRequest, reqVars
  <1>2. \A c \in Conns \ {client[r]} : alive'[c] = alive[c] /\ pend'[c] = pend[c]
    <2>1. CASE \/ \E t \in Tenants \cup {NoTenant} : Authenticate(r, t)
               \/ RejectEarly(r) \/ Connect(r) \/ Bind(r) \/ Admit(r) \/ SendBare(r)
               \/ NextRequest(r) \/ \E s \in {"ok", "error"} : Return(r, s)
      BY <2>1 DEF Authenticate, RejectEarly, Connect, Bind, Admit, SendBare, NextRequest,
          Return, connVars
    <2>2. CASE Handle(r)
      BY <1>0, <2>2 DEF Handle, Select, Insert, Modify, connVars
    <2>3. CASE OpenFails(r) \/ OnError(r) \/ OnSend(r)
      BY <1>0, <2>3 DEF OpenFails, OnError, OnSend, EndTx, Release
    <2> QED  BY <2>1, <2>2, <2>3 DEF Step
  <1>3. client[q] = NoConn \/ (client[q] \in Conns /\ client[q] # client[r])
    BY <1>0 DEF Exclusive
  <1> QED  BY <1>1, <1>2, <1>3 DEF Draft, Fate, Dead, Told

\* What the abstract store sees of a step in which rows do not change, told by
\* what becomes of the one request.
LEMMA OneMoves ==
    ASSUME IInv, NEW r \in Requests, Step(r), rows' = rows
    PROVE  LET st == [t \in Tenants |-> {x.id : x \in RowsOf(t)}]
               dr == [q \in Requests |-> Draft(q)]
               fa == [q \in Requests |-> Fate(q)]
               an == [q \in Requests |-> Told(q)]
           IN  /\ st' = st
               /\ dr' = [dr EXCEPT ![r] = Draft(r)']
               /\ fa' = [fa EXCEPT ![r] = Fate(r)']
               /\ an' = [an EXCEPT ![r] = Told(r)']
               /\ tenant' = [tenant EXCEPT ![r] = tenant'[r]]
  <1>1. TypeOK /\ TypeOK'
    BY NextKeepsIInv DEF IInv, Next
  <1>2. \A q \in Requests \ {r} :
            /\ Draft(q)' = Draft(q) /\ Fate(q)' = Fate(q)
            /\ tenant'[q] = tenant[q] /\ Told(q)' = Told(q)
    BY OthersStay
  <1>3. tenant \in [Requests -> Tenants \cup {NoTenant}]
        /\ tenant' \in [Requests -> Tenants \cup {NoTenant}]
    BY <1>1 DEF TypeOK
  <1>4. tenant' = [tenant EXCEPT ![r] = tenant'[r]]
    BY <1>2, <1>3
  <1>5. \A t \in Tenants : RowsOf(t)' = RowsOf(t)
    BY DEF RowsOf
  <1> QED  BY <1>2, <1>4, <1>5

\* A request on its way to its client, refused or connected, is adopted, given
\* up, or not seen to move; one that a dead session was handed to has lost it.
LEMMA HooksStep ==
    ASSUME IInv, NEW r \in Requests,
           \/ \E t \in Tenants \cup {NoTenant} : Authenticate(r, t)
           \/ RejectEarly(r) \/ Connect(r) \/ Bind(r) \/ Admit(r) \/ OpenFails(r) \/ OnError(r)
           \/ \E s \in {"ok", "error"} : Return(r, s)
    PROVE  [Store!Next]_Store!vars
  <1> DEFINE st == [t \in Tenants |-> {x.id : x \in RowsOf(t)}]
             dr == [q \in Requests |-> Draft(q)]
             fa == [q \in Requests |-> Fate(q)]
             an == [q \in Requests |-> Told(q)]
  <1>0. /\ TypeOK /\ Exclusive /\ IdleIsClean /\ ClientMatchesPhase /\ StatusMatchesPhase
        /\ Step(r)
    BY DEF IInv, Isolation, Step
  <1> USE DEF TypeOK
  <1>1. rows' = rows
    BY DEF Authenticate, RejectEarly, Connect, Bind, Admit, OpenFails, OnError, Return
  <1>2. /\ st' = st /\ dr' = [dr EXCEPT ![r] = Draft(r)'] /\ fa' = [fa EXCEPT ![r] = Fate(r)']
        /\ an' = [an EXCEPT ![r] = Told(r)'] /\ tenant' = [tenant EXCEPT ![r] = tenant'[r]]
    BY <1>0, <1>1, OneMoves
  <1>3. Told(r) = "none" /\ Told(r)' = "none"
    BY <1>0 DEF Told, Authenticate, RejectEarly, Connect, Bind, Admit, OpenFails, OnError,
        Return
  <1>4. an' = an
    BY <1>2, <1>3
  <1>5. CASE \E t \in Tenants : Authenticate(r, t)
    <2>1. PICK t \in Tenants : Authenticate(r, t)
      BY <1>5
    <2>2. /\ status[r] = "none" /\ client[r] = NoConn /\ tenant[r] = NoTenant
          /\ tenant'[r] = t /\ UNCHANGED <<client, status>>
      BY <1>0, <2>1 DEF Authenticate, ClientMatchesPhase, StatusMatchesPhase
    <2>3. Fate(r) = "open" /\ Fate(r)' = Fate(r) /\ Draft(r)' = Draft(r)
      BY <2>2 DEF Fate, Draft, Dead
    <2>4. Store!Adopt(r, t)
      BY <1>2, <1>3, <1>4, <2>2, <2>3 DEF Store!Adopt, Told
    <2> QED  BY <2>4 DEF Store!Next
  <1>6. CASE Authenticate(r, NoTenant) \/ Bind(r) \/ Admit(r) \/ Return(r, "ok")
    <2>1. /\ tenant'[r] = tenant[r] /\ UNCHANGED <<client, alive, pend>>
          /\ status[r] # "error" /\ status'[r] # "error"
      BY <1>0, <1>6 DEF Authenticate, Bind, Admit, Return, ClientMatchesPhase,
          StatusMatchesPhase, connVars
    <2>2. Fate(r)' = Fate(r) /\ Draft(r)' = Draft(r)
      BY <2>1 DEF Fate, Draft, Dead
    <2>3. dr' = dr /\ fa' = fa /\ tenant' = tenant
      BY <1>0, <1>2, <2>1, <2>2
    <2> QED  BY <1>2, <1>4, <2>3 DEF Store!vars, Told
  <1>7. CASE RejectEarly(r) \/ OpenFails(r) \/ OnError(r) \/ Return(r, "error")
    <2>1. status[r] # "error" /\ status'[r] = "error" /\ tenant'[r] = tenant[r]
      BY <1>0, <1>7 DEF RejectEarly, OpenFails, OnError, Return, StatusMatchesPhase
    <2>2. Fate(r) # "failed" /\ Fate(r)' = "failed" /\ Draft(r)' = {}
      BY <2>1 DEF Fate, Draft, Dead
    <2>3. tenant' = tenant
      BY <1>0, <1>2, <2>1
    <2>4. Store!GiveUp(r)
      BY <1>2, <1>3, <1>4, <2>2, <2>3 DEF Store!GiveUp, Told
    <2> QED  BY <2>4 DEF Store!Next
  <1>8. CASE Connect(r)
    <2>1. PICK c \in Conns : /\ holder[c] = Nobody /\ client'[r] = c
                             /\ UNCHANGED <<alive, pend, status, tenant>>
      BY <1>0, <1>8 DEF Connect
    <2>2. client[r] = NoConn /\ status[r] = "none" /\ c # NoConn /\ pend[c] = {}
      BY <1>0, <1>8, <2>1, NullsAreNotValues
      DEF Connect, ClientMatchesPhase, StatusMatchesPhase, IdleIsClean
    <2>3. Fate(r) = "open" /\ Draft(r) = {} /\ Draft(r)' = {}
      BY <2>1, <2>2 DEF Fate, Draft, Dead
    <2>4. CASE alive[c]
      <3>1. Fate(r)' = "open"
        BY <2>1, <2>2, <2>4 DEF Fate, Dead
      <3>2. dr' = dr /\ fa' = fa
        BY <1>2, <2>3, <3>1
      <3> QED  BY <1>2, <1>4, <2>1, <3>2 DEF Store!vars, Told
    <2>5. CASE ~alive[c]
      <3>1. Fate(r)' = "lost"
        BY <2>1, <2>2, <2>5 DEF Fate, Dead
      <3>2. Store!Lose(r)
        BY <1>2, <1>3, <1>4, <2>1, <2>3, <3>1 DEF Store!Lose, Told
      <3> QED  BY <3>2 DEF Store!Next
    <2> QED  BY <2>4, <2>5
  <1> QED  BY <1>5, <1>6, <1>7, <1>8

\* A handler's statement asks for one change more, or for nothing.
LEMMA HandlerStep ==
    ASSUME IInv, NEW r \in Requests, Handle(r)
    PROVE  [Store!Next]_Store!vars
  <1> DEFINE st == [t \in Tenants |-> {x.id : x \in RowsOf(t)}]
             dr == [q \in Requests |-> Draft(q)]
             fa == [q \in Requests |-> Fate(q)]
             an == [q \in Requests |-> Told(q)]
             c  == client[r]
  <1>0. /\ TypeOK /\ Exclusive /\ ClientMatchesPhase /\ StatusMatchesPhase /\ Step(r)
    BY DEF IInv, Isolation, Step
  <1> USE DEF TypeOK
  <1>1. /\ rows' = rows /\ UNCHANGED <<phase, tenant, client, status, alive>>
        /\ phase[r] = "handling" /\ alive[c]
    BY DEF Handle, Select, Insert, Modify, reqVars, connVars
  <1>2. c \in Conns /\ c # NoConn /\ status[r] = "none" /\ tenant[r] \in Tenants
    BY <1>0, <1>1 DEF ClientMatchesPhase, StatusMatchesPhase, WorkingClient
  <1>3. /\ st' = st /\ dr' = [dr EXCEPT ![r] = Draft(r)'] /\ fa' = [fa EXCEPT ![r] = Fate(r)']
        /\ an' = [an EXCEPT ![r] = Told(r)']
    BY <1>0, <1>1, OneMoves
  <1>4. /\ Told(r) = "none" /\ Told(r)' = Told(r) /\ Fate(r) = "open" /\ Fate(r)' = Fate(r)
        /\ Draft(r) = {[op |-> w.op, id |-> w.row.id] : w \in pend[c]}
        /\ Draft(r)' = {[op |-> w.op, id |-> w.row.id] : w \in pend'[c]}
    BY <1>1, <1>2 DEF Told, Fate, Dead, Draft
  <1>5. CASE Select(r)
    <2>1. pend' = pend
      BY <1>5 DEF Select, connVars
    <2> QED  BY <1>1, <1>3, <1>4, <2>1 DEF Store!vars, Told
  <1>6. ASSUME NEW w \in Write, pend' = [pend EXCEPT ![c] = @ \cup {w}]
        PROVE  [Store!Next]_Store!vars
    <2> DEFINE d == [op |-> w.op, id |-> w.row.id]
    <2>1. d \in Store!Change
      BY DEF Write, Row, Store!Change
    <2>2. Draft(r)' = Draft(r) \cup {d}
      BY <1>0, <1>2, <1>4, <1>6
    <2>3. Store!Ask(r, d)
      BY <1>1, <1>2, <1>3, <1>4, <2>2 DEF Store!Ask, Told
    <2> QED  BY <2>1, <2>3 DEF Store!Next
  <1>7. ASSUME NEW i \in RowIds, Insert(r, i) PROVE [Store!Next]_Store!vars
    <2> DEFINE w == [op |-> "insert", row |-> [id |-> i, tenant |-> tenant[r]]]
    <2>1. w \in Write /\ pend' = [pend EXCEPT ![c] = @ \cup {w}]
      BY <1>2, <1>7 DEF Insert, Write, Row
    <2> QED  BY <1>6, <2>1
  <1>8. ASSUME NEW i \in RowIds, NEW op \in {"update", "delete"}, Modify(r, op, i)
        PROVE  [Store!Next]_Store!vars
    <2>1. Visible(c) \subseteq Row
      BY <1>0, <1>2 DEF Visible, After, Write
    <2>2. PICK x \in Visible(c) : pend' = [pend EXCEPT ![c] = @ \cup {[op |-> op, row |-> x]}]
      BY <1>8 DEF Modify
    <2>3. [op |-> op, row |-> x] \in Write
      BY <2>1 DEF Write
    <2> QED  BY <1>6, <2>2, <2>3
  <1> QED  BY <1>5, <1>7, <1>8 DEF Handle

\* What COMMIT leaves of a tenant's rows is what the abstract changes leave of
\* their ids; no other tenant's rows change.
LEMMA CommitApplies ==
    ASSUME NEW t \in Tenants, rows \in SUBSET Row, NEW W \in SUBSET Write,
           \A w \in W : w.row.tenant = t, rows' = After(rows, W)
    PROVE  /\ {x.id : x \in RowsOf(t)'} =
                Store!Applied({x.id : x \in RowsOf(t)}, {[op |-> w.op, id |-> w.row.id] : w \in W})
           /\ \A u \in Tenants \ {t} : RowsOf(u)' = RowsOf(u)
  <1> DEFINE ids == {x.id : x \in RowsOf(t)}
             D   == {[op |-> w.op, id |-> w.row.id] : w \in W}
             row(i) == [id |-> i, tenant |-> t]
  <1>1. \A x \in Row : x.tenant = t => x = row(x.id)
    BY DEF Row
  <1>2. \A w \in W : w.row \in Row /\ w.row = row(w.row.id) /\ w.row.id \in RowIds
    BY <1>1 DEF Write, Row
  <1>3. \A i : i \in ids <=> row(i) \in rows
    BY <1>1 DEF RowsOf
  <1>4. rows' \in SUBSET Row
    BY <1>2 DEF After
  <1>5. \A i : i \in {x.id : x \in RowsOf(t)'} <=> row(i) \in rows'
    BY <1>1, <1>4 DEF RowsOf
  <1>6. ASSUME NEW o \in {"insert", "update", "delete"}, NEW i
        PROVE  row(i) \in {w.row : w \in {x \in W : x.op = o}}
                    <=> i \in {c.id : c \in {x \in D : x.op = o}}
    <2>1. ASSUME row(i) \in {w.row : w \in {x \in W : x.op = o}}
          PROVE  i \in {c.id : c \in {x \in D : x.op = o}}
      <3>1. PICK w \in W : w.op = o /\ w.row = row(i)
        BY <2>1
      <3>2. [op |-> w.op, id |-> w.row.id] \in D
        OBVIOUS
      <3> QED  BY <3>1, <3>2
    <2>2. ASSUME i \in {c.id : c \in {x \in D : x.op = o}}
          PROVE  row(i) \in {w.row : w \in {x \in W : x.op = o}}
      <3>1. PICK w \in W : w.op = o /\ w.row.id = i
        BY <2>2
      <3> QED  BY <1>2, <3>1
    <2> QED  BY <2>1, <2>2
  <1>7. \A i : row(i) \in rows' <=> i \in Store!Applied(ids, D)
    BY <1>3, <1>6 DEF After, Store!Applied
  <1>8. ASSUME NEW u \in Tenants \ {t} PROVE RowsOf(u)' = RowsOf(u)
    BY <1>2 DEF RowsOf, After
  <1> QED  BY <1>5, <1>7, <1>8

\* Every step of the request path is a step of the abstract store or leaves it
\* alone: a reply that succeeds is Succeed, one that fails is Fail.
LEMMA StoreStep == IInv /\ [Next]_vars => [Store!Next]_Store!vars
  <1> SUFFICES ASSUME IInv, [Next]_vars PROVE [Store!Next]_Store!vars
    OBVIOUS
  <1> DEFINE st == [t \in Tenants |-> {x.id : x \in RowsOf(t)}]
             dr == [q \in Requests |-> Draft(q)]
             fa == [q \in Requests |-> Fate(q)]
             an == [q \in Requests |-> Told(q)]
  <1>0. /\ TypeOK /\ Exclusive /\ WritesOwnTenant /\ ClientMatchesPhase /\ StatusMatchesPhase
    BY DEF IInv, Isolation
  <1> USE DEF TypeOK
  <1>1. ASSUME NEW r \in Requests, SendBare(r) PROVE [Store!Next]_Store!vars
    <2>1. /\ st' = st /\ dr' = [dr EXCEPT ![r] = Draft(r)'] /\ fa' = [fa EXCEPT ![r] = Fate(r)']
          /\ an' = [an EXCEPT ![r] = Told(r)'] /\ UNCHANGED tenant
      BY <1>1, OneMoves DEF Step, SendBare
    <2>2. status[r] = "error" /\ UNCHANGED <<status, client>>
      BY <1>0, <1>1 DEF SendBare, StatusMatchesPhase
    <2>3. /\ Told(r) = "none" /\ Told(r)' = "error" /\ Fate(r) = "failed" /\ Fate(r)' = "failed"
          /\ Draft(r)' = {} /\ Draft(r) = {}
      BY <1>0, <1>1, <2>2 DEF Told, Fate, Draft, SendBare
    <2>4. dr' = dr /\ fa' = fa
      BY <2>1, <2>3
    <2>5. Store!Fail(r)
      BY <2>1, <2>3, <2>4 DEF Store!Fail, Told
    <2> QED  BY <2>5 DEF Store!Next
  <1>2. ASSUME NEW r \in Requests, NextRequest(r) PROVE [Store!Next]_Store!vars
    <2>1. /\ st' = st /\ dr' = [dr EXCEPT ![r] = Draft(r)'] /\ fa' = [fa EXCEPT ![r] = Fate(r)']
          /\ an' = [an EXCEPT ![r] = Told(r)']
      BY <1>2, OneMoves DEF Step, NextRequest
    <2>2. /\ client'[r] = NoConn /\ status'[r] = "none" /\ status[r] # "none"
          /\ tenant' = [tenant EXCEPT ![r] = NoTenant]
      BY <1>0, <1>2 DEF NextRequest, ClientMatchesPhase, StatusMatchesPhase
    <2>3. /\ Told(r) # "none" /\ Told(r)' = "none" /\ Fate(r)' = "open" /\ Draft(r)' = {}
      BY <1>0, <1>2, <2>2 DEF Told, Fate, Draft, Dead, NextRequest
    <2>4. Store!Restart(r)
      BY <2>1, <2>2, <2>3 DEF Store!Restart, Told
    <2> QED  BY <2>4 DEF Store!Next
  <1>3. ASSUME NEW r \in Requests, OnSend(r) PROVE [Store!Next]_Store!vars
    <2> DEFINE t == tenant[r]
               c == client[r]
    <2>1. /\ t \in Tenants /\ c \in Conns /\ c # NoConn /\ holder[c] = r
          /\ \A w \in pend[c] : w.row.tenant = t
          /\ client'[r] = NoConn /\ UNCHANGED <<status, tenant>>
      BY <1>0, <1>3 DEF OnSend, Exclusive, WritesOwnTenant, ClientMatchesPhase, WorkingClient
    <2>2. Told(r) = "none" /\ Told(r)' = status[r] /\ Draft(r)' = {}
      BY <1>0, <1>3, <2>1 DEF Told, Draft, OnSend
    <2>3. CASE status[r] = "error"
      <3>1. rows' = rows
        BY <1>3, <2>3 DEF OnSend
      <3>2. /\ st' = st /\ dr' = [dr EXCEPT ![r] = Draft(r)'] /\ fa' = [fa EXCEPT ![r] = Fate(r)']
            /\ an' = [an EXCEPT ![r] = Told(r)']
        BY <1>3, <3>1, OneMoves DEF Step
      <3>3. Draft(r) = {} /\ Fate(r) = "failed" /\ Fate(r)' = "failed"
        BY <2>1, <2>3 DEF Draft, Fate
      <3>4. dr' = dr /\ fa' = fa
        BY <2>2, <3>2, <3>3
      <3>5. Store!Fail(r)
        BY <2>1, <2>2, <2>3, <3>2, <3>3, <3>4 DEF Store!Fail, Told
      <3> QED  BY <3>5 DEF Store!Next
    <2>4. CASE status[r] = "ok"
      <3>1. Fate(r) # "failed" /\ Fate(r)' = "open"
        BY <2>1, <2>4 DEF Fate, Dead
      <3>2. \A q \in Requests \ {r} :
                Draft(q)' = Draft(q) /\ Fate(q)' = Fate(q) /\ Told(q)' = Told(q)
        BY <1>3, OthersStay DEF Step
      <3>3. /\ dr' = [dr EXCEPT ![r] = {}] /\ fa' = [fa EXCEPT ![r] = "open"]
            /\ an' = [an EXCEPT ![r] = "ok"]
        BY <2>2, <2>4, <3>1, <3>2
      <3>4. /\ {x.id : x \in RowsOf(t)'} = Store!Applied({x.id : x \in RowsOf(t)}, Draft(r))
            /\ \A u \in Tenants \ {t} : RowsOf(u)' = RowsOf(u)
        <4>1. CASE alive[c]
          <5>1. rows' = After(rows, pend[c]) /\ pend[c] \in SUBSET Write /\ rows \in SUBSET Row
            BY <1>0, <1>3, <2>1, <2>4, <4>1 DEF OnSend
          <5>2. Draft(r) = {[op |-> w.op, id |-> w.row.id] : w \in pend[c]}
            BY <2>1, <2>4, <4>1 DEF Draft, Dead
          <5> QED  BY <2>1, <5>1, <5>2, CommitApplies
        <4>2. CASE ~alive[c]
          <5>1. rows' = rows /\ Draft(r) = {}
            BY <1>3, <2>1, <4>2 DEF OnSend, Draft, Dead
          <5>2. Store!Applied({x.id : x \in RowsOf(t)}, Draft(r)) = {x.id : x \in RowsOf(t)}
            BY <5>1 DEF Store!Applied
          <5>3. \A u \in Tenants : RowsOf(u)' = RowsOf(u)
            BY <5>1 DEF RowsOf
          <5> QED  BY <2>1, <5>2, <5>3
        <4> QED  BY <4>1, <4>2
      <3>5. st' = [st EXCEPT ![t] = Store!Applied(@, Draft(r))]
        BY <2>1, <3>4
      <3>6. Store!Succeed(r)
        BY <2>1, <2>2, <3>1, <3>3, <3>5 DEF Store!Succeed, Told
      <3> QED  BY <3>6 DEF Store!Next
    <2> QED  BY <1>0, <1>3, <2>3, <2>4 DEF OnSend, StatusMatchesPhase
  <1>4. ASSUME NEW c \in Conns, Lose(c) PROVE [Store!Next]_Store!vars
    <2>1. PICK r \in Requests :
            /\ UNCHANGED <<phase, tenant, client, status, pend, rows>> /\ alive[c]
            /\ holder[c] = r /\ client[r] = c /\ c # NoConn
            /\ ~alive'[c] /\ \A d \in Conns \ {c} : alive'[d] = alive[d]
      BY <1>0, <1>4, NullsAreNotValues DEF Lose, Exclusive, reqVars
    <2>2. \A q \in Requests \ {r} : client[q] # c
      BY <1>0, <2>1 DEF Exclusive
    <2>3. \A q \in Requests \ {r} : Draft(q)' = Draft(q) /\ Fate(q)' = Fate(q)
      BY <1>0, <2>1, <2>2 DEF Draft, Fate, Dead
    <2>4. st' = st /\ an' = an
      BY <2>1 DEF RowsOf, Told
    <2>5. CASE status[r] = "error"
      <3>1. Draft(r)' = Draft(r) /\ Fate(r)' = Fate(r)
        BY <2>1, <2>5 DEF Draft, Fate
      <3>2. dr' = dr /\ fa' = fa
        BY <2>3, <3>1
      <3> QED  BY <2>1, <2>4, <3>2 DEF Store!vars, Told
    <2>6. CASE status[r] # "error"
      <3>1. Fate(r) = "open" /\ Fate(r)' = "lost" /\ Draft(r)' = {}
        BY <2>1, <2>6 DEF Draft, Fate, Dead
      <3>2. Told(r) = "none"
        BY <1>0, <2>1 DEF Told, ClientMatchesPhase
      <3>3. dr' = [dr EXCEPT ![r] = {}] /\ fa' = [fa EXCEPT ![r] = "lost"]
        BY <2>1, <2>3, <3>1
      <3>4. Store!Lose(r)
        BY <2>1, <2>4, <3>1, <3>2, <3>3 DEF Store!Lose, Told
      <3> QED  BY <2>1, <3>4 DEF Store!Next
    <2> QED  BY <2>5, <2>6
  <1>5. ASSUME (\E t \in Tenants : Cancel(t)) \/ UNCHANGED vars
        PROVE  UNCHANGED Store!vars
    <2>1. UNCHANGED <<phase, tenant, client, status, alive, pend, rows>>
      BY <1>5 DEF Cancel, vars, reqVars, connVars
    <2> QED  BY <2>1 DEF RowsOf, Draft, Fate, Dead, Store!vars
  <1> QED  BY <1>1, <1>2, <1>3, <1>4, <1>5, HooksStep, HandlerStep DEF Next, Step

\* The request path, with its pool, its transactions and its policies,
\* implements one atomically changed store per tenant.
THEOREM Refinement == Spec => ImplementsStore
  BY StoreInit, StoreStep, Invariance, PTL DEF Spec, ImplementsStore, Store!Spec
=============================================================================
