-------------------------- MODULE DeploymentProofs --------------------------
(* Proofs about Deployment, for any number of commits, tables and migrations. *)
EXTENDS Deployment, TLAPS

\* A later commit has the tables of an earlier one.
LEMMA TablesGrow ==
    ASSUME NEW v \in 0 .. Releases, NEW w \in 0 .. Releases, v <= w
    PROVE  TablesOf(v) \subseteq TablesOf(w)
  BY DeploymentAssumptions DEF TablesOf, Versions

\* The tables of a commit are among all tables.
LEMMA TablesAreTables ==
    ASSUME NEW v \in 0 .. Releases
    PROVE  TablesOf(v) \subseteq Tables /\ Registry(v) \subseteq Scoped
  BY DeploymentAssumptions DEF TablesOf, Versions, Registry

\* Before the first migration there is none.
LEMMA NoTables == TablesOf(0) = {}
  BY DeploymentAssumptions DEF TablesOf, Versions

\* Going on takes one pipeline one step further.
LEMMA Going ==
    ASSUME TypeOK, NEW v \in Versions, NEW s \in Steps, At(v, s), Go(v)
    PROVE  /\ pipe'[v] = [pipe[v] EXCEPT !.at = Then[s]]
           /\ \A u \in Versions \ {v} : pipe'[u] = pipe[u]
           /\ pipe' \in [Versions -> Pipeline]
  <1>1. Then[s] \in Steps \cup {"none", "rollback", "done"}
    BY DEF Then, Steps
  <1>2. [pipe[v] EXCEPT !.at = Then[s]] \in Pipeline
    BY <1>1 DEF TypeOK, Pipeline
  <1> QED  BY <1>2 DEF TypeOK, At, Go

\* The steps by name.
LEMMA Order ==
    /\ Steps = {"apply", "record", "ddl", "role", "rls", "grants", "deploy", "smoke"}
    /\ Then["apply"] = "record" /\ Then["record"] = "ddl" /\ Then["ddl"] = "role"
    /\ Then["role"] = "rls" /\ Then["rls"] = "grants" /\ Then["grants"] = "deploy"
    /\ Then["deploy"] = "smoke" /\ Then["smoke"] = "done"
  BY DEF Steps, Then

\* What a step can do to one pipeline.
LEMMA PipeSteps ==
    ASSUME TypeOK, [Next]_vars, NEW v \in Versions
    PROVE  /\ pipe' \in [Versions -> Pipeline]
           /\ \/ pipe'[v] = pipe[v] /\ ~Apply(v)
              \/ (Fail(v) \/ Rollback(v)) /\ pipe'[v] = [pipe[v] EXCEPT !.ok = FALSE]
              \/ Start(v) /\ pipe'[v] = [at |-> "apply", ok |-> TRUE, src |-> head, prev |-> 0]
              \/ Rerun(v) /\ pipe'[v] = [at |-> "apply", ok |-> TRUE, src |-> pipe[v].src, prev |-> 0]
              \/ Apply(v) /\ pipe'[v] = [pipe[v] EXCEPT !.at = "record"]
              \/ Record(v) /\ pipe'[v] = [pipe[v] EXCEPT !.prev = desired, !.at = "ddl"]
              \/ Ddl(v) /\ pipe'[v] = [pipe[v] EXCEPT !.at = "role"]
              \/ Role(v) /\ pipe'[v] = [pipe[v] EXCEPT !.at = "rls"]
              \/ Rls(v) /\ pipe'[v] = [pipe[v] EXCEPT !.at = "grants"]
              \/ Grants(v) /\ pipe'[v] = [pipe[v] EXCEPT !.at = "deploy"]
              \/ Deploy(v) /\ pipe'[v] = [pipe[v] EXCEPT !.at = "smoke"]
              \/ Smoke(v) /\ \E x \in {"done", "rollback"} : pipe'[v] = [pipe[v] EXCEPT !.at = x]
  <1> DEFINE Goal == /\ pipe' \in [Versions -> Pipeline]
           /\ \/ pipe'[v] = pipe[v] /\ ~Apply(v)
              \/ (Fail(v) \/ Rollback(v)) /\ pipe'[v] = [pipe[v] EXCEPT !.ok = FALSE]
              \/ Start(v) /\ pipe'[v] = [at |-> "apply", ok |-> TRUE, src |-> head, prev |-> 0]
              \/ Rerun(v) /\ pipe'[v] = [at |-> "apply", ok |-> TRUE, src |-> pipe[v].src, prev |-> 0]
              \/ Apply(v) /\ pipe'[v] = [pipe[v] EXCEPT !.at = "record"]
              \/ Record(v) /\ pipe'[v] = [pipe[v] EXCEPT !.prev = desired, !.at = "ddl"]
              \/ Ddl(v) /\ pipe'[v] = [pipe[v] EXCEPT !.at = "role"]
              \/ Role(v) /\ pipe'[v] = [pipe[v] EXCEPT !.at = "rls"]
              \/ Rls(v) /\ pipe'[v] = [pipe[v] EXCEPT !.at = "grants"]
              \/ Grants(v) /\ pipe'[v] = [pipe[v] EXCEPT !.at = "deploy"]
              \/ Deploy(v) /\ pipe'[v] = [pipe[v] EXCEPT !.at = "smoke"]
              \/ Smoke(v) /\ \E x \in {"done", "rollback"} : pipe'[v] = [pipe[v] EXCEPT !.at = x]
  <1> SUFFICES Goal
    OBVIOUS
  <1>0. Apply(v) => pipe'[v] # pipe[v]
    <2> SUFFICES ASSUME Apply(v) PROVE pipe'[v] # pipe[v]
      OBVIOUS
    <2>1. pipe'[v] = [pipe[v] EXCEPT !.at = "record"] /\ pipe[v].at = "apply"
      BY Going, Order DEF Apply, At
    <2> QED  BY <2>1 DEF TypeOK, Pipeline
  <1>1. CASE UNCHANGED pipe
    BY <1>1, <1>0 DEF TypeOK
  <1>2. CASE Push \/ TaskStart \/ \E u \in Versions : TaskStop(u)
    BY <1>2, <1>1 DEF Push, TaskStart, TaskStop
  <1>3. ASSUME NEW u \in Versions, Start(u) \/ Rerun(u) \/ Fail(u) \/ Rollback(u) PROVE Goal
    <2>0. pipe' \in [Versions -> Pipeline]
      <3>1. pipe[u] \in Pipeline /\ head \in 0 .. Releases
        BY DEF TypeOK
      <3>2. CASE Start(u) \/ Rerun(u)
        <4>1. 0 \in 0 .. Releases
          BY DeploymentAssumptions
        <4>2. PICK n \in 0 .. Releases :
                pipe' = [pipe EXCEPT ![u] = [at |-> "apply", ok |-> TRUE, src |-> n, prev |-> 0]]
          BY <3>1, <3>2 DEF TypeOK, Pipeline, Start, Rerun
        <4>3. [at |-> "apply", ok |-> TRUE, src |-> n, prev |-> 0] \in Pipeline
          BY <4>1, Order DEF Pipeline
        <4> QED  BY <4>2, <4>3 DEF TypeOK
      <3>3. CASE Fail(u) \/ Rollback(u)
        <4>1. [pipe[u] EXCEPT !.ok = FALSE] \in Pipeline
          BY <3>1 DEF Pipeline
        <4>2. pipe' = [pipe EXCEPT ![u] = [pipe[u] EXCEPT !.ok = FALSE]]
          BY <3>3 DEF TypeOK, Fail, Rollback
        <4> QED  BY <4>1, <4>2 DEF TypeOK
      <3> QED  BY <1>3, <3>2, <3>3
    <2>1. CASE u # v
      <3>1. pipe'[v] = pipe[v]
        BY <1>3, <2>1 DEF TypeOK, Start, Rerun, Fail, Rollback
      <3>2. pipe' \in [Versions -> Pipeline]
        BY <2>0
      <3> QED  BY <3>1, <3>2, <1>0
    <2>2. CASE u = v
      <3>1. pipe' \in [Versions -> Pipeline]
        BY <2>0
      <3>2. CASE Start(v)
        <4>1. pipe'[v] = [at |-> "apply", ok |-> TRUE, src |-> head, prev |-> 0]
          BY <3>2 DEF TypeOK, Start
        <4> QED  BY <3>1, <3>2, <4>1
      <3>3. CASE Rerun(v)
        <4>1. pipe'[v] = [at |-> "apply", ok |-> TRUE, src |-> pipe[v].src, prev |-> 0]
          BY <3>3 DEF TypeOK, Rerun
        <4> QED  BY <3>1, <3>3, <4>1
      <3>4. CASE Fail(v) \/ Rollback(v)
        <4>1. pipe'[v] = [pipe[v] EXCEPT !.ok = FALSE]
          BY <3>4 DEF TypeOK, Fail, Rollback
        <4> QED  BY <3>1, <3>4, <4>1
      <3> QED  BY <1>3, <2>2, <3>2, <3>3, <3>4
    <2> QED  BY <2>1, <2>2
  <1>4. ASSUME NEW u \in Versions,
               Apply(u) \/ Ddl(u) \/ Role(u) \/ Rls(u) \/ Grants(u) \/ Deploy(u)
        PROVE  Goal
    <2>0. ASSUME NEW s \in Steps, NEW x, At(u, s), Go(u), Then[s] = x
          PROVE  /\ pipe' \in [Versions -> Pipeline]
                 /\ u = v => pipe'[v] = [pipe[v] EXCEPT !.at = x]
                 /\ u # v => pipe'[v] = pipe[v] /\ ~Apply(v)
      BY <2>0, <1>0, Going
    <2>1. CASE Apply(u)
      <3>1. At(u, "apply") /\ Go(u)
        BY <2>1 DEF Apply
      <3>2. "apply" \in Steps /\ Then["apply"] = "record"
        BY Order
      <3> QED  BY <2>0, <2>1, <3>1, <3>2
    <2>2. CASE Ddl(u)
      <3>1. At(u, "ddl") /\ Go(u)
        BY <2>2 DEF Ddl
      <3>2. "ddl" \in Steps /\ Then["ddl"] = "role"
        BY Order
      <3> QED  BY <2>0, <2>2, <3>1, <3>2
    <2>3. CASE Role(u)
      <3>1. At(u, "role") /\ Go(u)
        BY <2>3 DEF Role
      <3>2. "role" \in Steps /\ Then["role"] = "rls"
        BY Order
      <3> QED  BY <2>0, <2>3, <3>1, <3>2
    <2>4. CASE Rls(u)
      <3>1. At(u, "rls") /\ Go(u)
        BY <2>4 DEF Rls
      <3>2. "rls" \in Steps /\ Then["rls"] = "grants"
        BY Order
      <3> QED  BY <2>0, <2>4, <3>1, <3>2
    <2>5. CASE Grants(u)
      <3>1. At(u, "grants") /\ Go(u)
        BY <2>5 DEF Grants
      <3>2. "grants" \in Steps /\ Then["grants"] = "deploy"
        BY Order
      <3> QED  BY <2>0, <2>5, <3>1, <3>2
    <2>6. CASE Deploy(u)
      <3>1. At(u, "deploy") /\ Go(u)
        BY <2>6 DEF Deploy
      <3>2. "deploy" \in Steps /\ Then["deploy"] = "smoke"
        BY Order
      <3> QED  BY <2>0, <2>6, <3>1, <3>2
    <2> QED  BY <1>4, <2>1, <2>2, <2>3, <2>4, <2>5, <2>6
  <1>5. ASSUME NEW u \in Versions, Record(u) PROVE Goal
    <2>1. pipe' = [pipe EXCEPT ![u] = [pipe[u] EXCEPT !.prev = desired, !.at = "ddl"]]
      BY <1>5, Order DEF Record, At, TypeOK
    <2>2. [pipe[u] EXCEPT !.prev = desired, !.at = "ddl"] \in Pipeline
      BY Order DEF TypeOK, Pipeline
    <2> QED  BY <1>0, <1>5, <2>1, <2>2 DEF TypeOK
  <1>6. ASSUME NEW u \in Versions, Smoke(u) PROVE Goal
    <2>1. CASE Go(u)
      BY <1>6, <2>1, <1>0, Going, Order DEF Smoke
    <2>2. CASE pipe' = [pipe EXCEPT ![u].at = "rollback"]
      <3>1. [pipe[u] EXCEPT !.at = "rollback"] \in Pipeline
        BY DEF TypeOK, Pipeline
      <3>2. pipe' = [pipe EXCEPT ![u] = [pipe[u] EXCEPT !.at = "rollback"]]
        BY <2>2 DEF TypeOK
      <3> QED  BY <1>0, <1>6, <3>1, <3>2 DEF TypeOK
    <2> QED  BY <1>6, <2>1, <2>2 DEF Smoke
  <1> HIDE DEF Goal
  <1>7. CASE UNCHANGED vars
    BY <1>7, <1>1 DEF vars
  <1> QED  BY <1>2, <1>3, <1>4, <1>5, <1>6, <1>7 DEF Next

-----------------------------------------------------------------------------
\* What the runner can do to the database, and when.
LEMMA SchemaSteps ==
    ASSUME [Next]_vars
    PROVE  \/ UNCHANGED <<database, migrated>>
           \/ UNCHANGED migrated /\ \E v \in Versions : Ddl(v) \/ Role(v) \/ Rls(v)
           \/ \E v \in Versions : Grants(v)
  BY DEF Next, vars, database, history, Push, Start, Rerun, Fail, Apply, Record, Ddl, Role, Rls,
         Deploy, Smoke, Rollback, TaskStart, TaskStop

\* The type invariant.
LEMMA Typing == TypeOK /\ Reached /\ [Next]_vars => TypeOK'
  <1> SUFFICES ASSUME TypeOK, Reached, [Next]_vars PROVE TypeOK'
    OBVIOUS
  <1>1. pipe' \in [Versions -> Pipeline]
    <2>1. CASE Versions = {}
      BY <2>1 DEF TypeOK, Next, vars, Push, TaskStart
    <2> QED  BY <2>1, PipeSteps
  <1>2. head' \in 0 .. Releases
    <2>1. Push \/ head' = head
      BY DEF Next, vars, Start, Rerun, Fail, Apply, Record, Ddl, Role, Rls, Grants, Deploy, Smoke,
             Rollback, TaskStart, TaskStop
    <2> QED  BY <2>1, DeploymentAssumptions DEF TypeOK, Push
  <1>3. applied' \in 0 .. Releases /\ role' \in BOOLEAN /\ defaults' \in BOOLEAN
        /\ policied' \in SUBSET Scoped /\ granted' \in SUBSET Tables
    <2>1. ASSUME NEW v \in Versions, Ddl(v) PROVE <1>3!:
      <3>1. pipe[v].src \in 0 .. Releases
        BY DEF TypeOK, Pipeline
      <3>2. applied' \in 0 .. Releases
        BY <2>1, <3>1 DEF TypeOK, Ddl
      <3> QED  BY <2>1, <3>2, TablesAreTables DEF TypeOK, Ddl
    <2>2. ASSUME NEW v \in Versions, Rls(v) PROVE <1>3!:
      <3>1. pipe[v].src \in 0 .. Releases
        BY DEF TypeOK, Pipeline
      <3> QED  BY <2>2, <3>1, TablesAreTables DEF TypeOK, Rls
    <2>3. ASSUME NEW v \in Versions, Grants(v) PROVE <1>3!:
      BY <2>3, TablesAreTables DEF TypeOK, Grants
    <2>4. ASSUME NEW v \in Versions, Role(v) PROVE <1>3!:
      BY <2>4 DEF TypeOK, Role
    <2>5. CASE UNCHANGED database
      BY <2>5 DEF TypeOK, database
    <2> QED  BY <2>1, <2>2, <2>3, <2>4, <2>5, SchemaSteps
  <1>4. tasks' \in SUBSET Versions
    <2>1. \/ tasks' = tasks \/ (desired # 0 /\ tasks' = tasks \cup {desired})
          \/ \E u \in Versions : tasks' = tasks \ {u}
      BY DEF Next, vars, service, Push, Start, Rerun, Fail, Apply, Record, Ddl, Role, Rls, Grants,
             Deploy, Smoke, Rollback, TaskStart, TaskStop
    <2>2. desired # 0 => desired \in Versions
      BY DEF TypeOK, Versions
    <2>3. tasks \subseteq Versions
      BY DEF TypeOK
    <2> QED  BY <2>1, <2>2, <2>3
  <1>5. migrated' \in SUBSET Versions
    <2>1. ASSUME NEW v \in Versions, Grants(v) PROVE migrated' \in SUBSET Versions
      <3>1. pipe[v].src \in Versions
        BY <2>1 DEF TypeOK, Reached, Pipeline, Versions, Grants, At
      <3> QED  BY <2>1, <3>1 DEF TypeOK, Grants
    <2>2. CASE UNCHANGED migrated
      BY <2>2 DEF TypeOK
    <2> QED  BY <2>1, <2>2
             DEF Next, vars, history, Push, Start, Rerun, Fail, Apply, Record, Ddl, Role, Rls,
                 Deploy, Smoke, Rollback, TaskStart, TaskStop
  <1>6. desired' \in 0 .. Releases /\ before' \in [Versions -> 0 .. Releases]
    <2>1. ASSUME NEW v \in Versions, Apply(v) PROVE <1>6!:
      BY <2>1, DeploymentAssumptions DEF TypeOK, Apply, Versions
    <2>2. ASSUME NEW v \in Versions, Rollback(v) PROVE <1>6!:
      BY <2>2 DEF TypeOK, Pipeline, Rollback, history
    <2>3. CASE UNCHANGED <<desired, before>>
      BY <2>3 DEF TypeOK
    <2> QED  BY <2>1, <2>2, <2>3
             DEF Next, vars, service, history, Push, Start, Rerun, Fail, Record, Ddl, Role, Rls,
                 Grants, Deploy, Smoke, TaskStart, TaskStop
  <1> QED  BY <1>1, <1>2, <1>3, <1>4, <1>5, <1>6 DEF TypeOK

-----------------------------------------------------------------------------
(* The schema.                                                              *)

\* The app role has the tables there are, or, before any grant, none but those.
LEMMA NextKeepsGrants == TypeOK /\ GrantsAreTables /\ [Next]_vars => GrantsAreTables'
  <1> SUFFICES ASSUME TypeOK, GrantsAreTables, [Next]_vars PROVE GrantsAreTables'
    OBVIOUS
  <1>1. ASSUME NEW v \in Versions, Ddl(v) PROVE GrantsAreTables'
    <2>1. pipe[v].src \in 0 .. Releases
      BY DEF TypeOK, Pipeline
    <2>2. applied \in 0 .. Releases /\ applied' \in 0 .. Releases /\ applied <= applied'
      BY <1>1, <2>1 DEF TypeOK, Ddl
    <2> QED  BY <1>1, <2>2, TablesGrow DEF GrantsAreTables, Ddl
  <1>2. ASSUME NEW v \in Versions, Role(v) \/ Rls(v) \/ Grants(v) PROVE GrantsAreTables'
    BY <1>2 DEF GrantsAreTables, Role, Rls, Grants
  <1>3. CASE UNCHANGED database
    BY <1>3 DEF GrantsAreTables, database
  <1> QED  BY <1>1, <1>2, <1>3, SchemaSteps

\* No step takes anything from the schema, the policies or the app role.
LEMMA SchemaGrows ==
    ASSUME TypeOK, GrantsAreTables, [Next]_vars
    PROVE  /\ applied <= applied' /\ (role => role')
           /\ policied \subseteq policied' /\ granted \subseteq granted'
           /\ migrated \subseteq migrated'
  <1>1. ASSUME NEW v \in Versions, Ddl(v)
        PROVE  applied <= applied' /\ role' = role /\ policied' = policied /\ granted \subseteq granted'
    <2>1. pipe[v].src \in Nat /\ applied \in Nat
      BY DEF TypeOK, Pipeline
    <2> QED  BY <1>1, <2>1 DEF Ddl
  <1>2. ASSUME NEW v \in Versions, Role(v) \/ Rls(v)
        PROVE  applied' = applied /\ (role => role') /\ policied \subseteq policied' /\ granted' = granted
    BY <1>2 DEF Role, Rls
  <1>3. ASSUME NEW v \in Versions, Grants(v)
        PROVE  /\ applied' = applied /\ role' = role /\ policied' = policied
               /\ granted \subseteq granted' /\ migrated \subseteq migrated'
    BY <1>3 DEF Grants, GrantsAreTables
  <1>4. applied \in Nat
    BY DEF TypeOK
  <1> QED  BY <1>1, <1>2, <1>3, <1>4, SchemaSteps DEF database

-----------------------------------------------------------------------------
(* The pipelines.                                                           *)

\* Where a pipeline has come goes with what is behind it, whatever else happens.
LEMMA BehindStays ==
    ASSUME TypeOK, GrantsAreTables, [Next]_vars, NEW v \in Versions,
           pipe'[v].src = pipe[v].src, NEW s, Behind(v, s)
    PROVE  Behind(v, s)'
  <1>1. applied \in Nat /\ applied' \in Nat /\ pipe[v].src \in Nat
    <2>1. ASSUME NEW u \in Versions, Ddl(u) PROVE applied' \in Nat
      BY <2>1 DEF TypeOK, Pipeline, Ddl
    <2>2. ASSUME NEW u \in Versions, Role(u) \/ Rls(u) \/ Grants(u) PROVE applied' = applied
      BY <2>2 DEF Role, Rls, Grants
    <2>3. applied \in Nat /\ pipe[v].src \in Nat
      BY DEF TypeOK, Pipeline
    <2> QED  BY <2>1, <2>2, <2>3, SchemaSteps DEF database
  <1> QED  BY <1>1, SchemaGrows DEF Behind, Registry

\* What each step leaves behind is what the next one counts on.
LEMMA NextKeepsReached ==
    TypeOK /\ Reached /\ GrantsAreTables /\ [Next]_vars => Reached'
  <1> SUFFICES ASSUME TypeOK, Reached, GrantsAreTables, [Next]_vars, NEW v \in Versions
               PROVE  /\ Behind(v, pipe[v].at)'
                      /\ IF pipe'[v].at = "none" THEN pipe'[v].ok ELSE v <= pipe'[v].src
    BY DEF Reached
  <1>0. pipe[v] \in Pipeline /\ Behind(v, pipe[v].at)
    BY DEF TypeOK, Reached
  <1>1. CASE pipe'[v] = pipe[v] /\ ~Apply(v)
    <2>1. Behind(v, pipe[v].at)'
      BY <1>0, <1>1, BehindStays
    <2> QED  BY <1>1, <2>1 DEF Reached
  <1>2. CASE pipe'[v] = [pipe[v] EXCEPT !.ok = FALSE] /\ (Fail(v) \/ Rollback(v))
    <2>1. /\ pipe'[v].at = pipe[v].at /\ pipe'[v].src = pipe[v].src /\ pipe'[v].prev = pipe[v].prev
          /\ pipe[v].at # "none"
      BY <1>0, <1>2, Order DEF Pipeline, Fail, Rollback, At
    <2>2. Behind(v, pipe[v].at)'
      BY <1>0, <2>1, BehindStays
    <2> QED  BY <2>1, <2>2 DEF Reached
  <1>3. CASE Start(v) /\ pipe'[v] = [at |-> "apply", ok |-> TRUE, src |-> head, prev |-> 0]
    BY <1>3 DEF Behind, Start
  <1>4. CASE Rerun(v) /\ pipe'[v] = [at |-> "apply", ok |-> TRUE, src |-> pipe[v].src, prev |-> 0]
    BY <1>4 DEF Behind, Rerun, Reached
  <1>5. CASE Apply(v) /\ pipe'[v] = [pipe[v] EXCEPT !.at = "record"]
    <2>1. pipe[v].at = "apply" /\ pipe'[v].at = "record" /\ pipe'[v].src = pipe[v].src
          /\ pipe'[v].prev = pipe[v].prev
      BY <1>0, <1>5 DEF Apply, At, Pipeline
    <2> QED  BY <2>1 DEF Behind, Reached
  <1>6. ASSUME NEW x, NEW y, pipe[v].at = x, pipe'[v] = [pipe[v] EXCEPT !.at = y], ~Apply(v),
               x \notin {"none", "apply", "record"}, y \notin {"none", "apply", "record"},
               Behind(v, y)'
        PROVE  /\ Behind(v, pipe[v].at)'
               /\ IF pipe'[v].at = "none" THEN pipe'[v].ok ELSE v <= pipe'[v].src
    <2>1. pipe'[v].at = y /\ pipe'[v].src = pipe[v].src /\ pipe'[v].prev = pipe[v].prev
      BY <1>0, <1>6 DEF Pipeline
    <2>2. Behind(v, pipe[v].at)'
      BY <1>6, <2>1
    <2> QED  BY <1>6, <2>1, <2>2 DEF Reached
  <1>7. CASE Record(v) /\ pipe'[v] = [pipe[v] EXCEPT !.prev = desired, !.at = "ddl"]
    <2>1. pipe[v].at = "record" /\ pipe'[v].at = "ddl" /\ pipe'[v].src = pipe[v].src
          /\ pipe'[v].prev = desired
      BY <1>0, <1>7 DEF Record, At, Pipeline
    <2> QED  BY <2>1 DEF Behind, Reached
  <1>8. CASE Ddl(v) /\ pipe'[v] = [pipe[v] EXCEPT !.at = "role"]
    <2>1. Behind(v, "role")' /\ pipe[v].at = "ddl"
      BY <1>0, <1>8 DEF Behind, Ddl, At, Pipeline, TypeOK
    <2> QED  BY <1>6, <1>8, <2>1 DEF Apply, At
  <1>9. CASE Role(v) /\ pipe'[v] = [pipe[v] EXCEPT !.at = "rls"]
    <2>1. Behind(v, "rls")' /\ pipe[v].at = "role"
      BY <1>0, <1>9 DEF Behind, Role, At, Pipeline
    <2> QED  BY <1>6, <1>9, <2>1 DEF Apply, At
  <1>10. CASE Rls(v) /\ pipe'[v] = [pipe[v] EXCEPT !.at = "grants"]
    <2>1. Behind(v, "grants")' /\ pipe[v].at = "rls"
      BY <1>0, <1>10 DEF Behind, Rls, At, Pipeline, Registry
    <2> QED  BY <1>6, <1>10, <2>1 DEF Apply, At
  <1>11. CASE Grants(v) /\ pipe'[v] = [pipe[v] EXCEPT !.at = "deploy"]
    <2>1. Behind(v, "deploy")' /\ pipe[v].at = "grants"
      BY <1>0, <1>11 DEF Behind, Grants, At, Pipeline
    <2> QED  BY <1>6, <1>11, <2>1 DEF Apply, At
  <1>12. CASE Deploy(v) /\ pipe'[v] = [pipe[v] EXCEPT !.at = "smoke"]
    <2>1. Behind(v, "smoke")' /\ pipe[v].at = "deploy"
      BY <1>0, <1>12 DEF Behind, Deploy, At, Pipeline, history
    <2> QED  BY <1>6, <1>12, <2>1 DEF Apply, At
  <1>13. ASSUME Smoke(v), NEW x \in {"done", "rollback"}, pipe'[v] = [pipe[v] EXCEPT !.at = x]
         PROVE  /\ Behind(v, pipe[v].at)'
                /\ IF pipe'[v].at = "none" THEN pipe'[v].ok ELSE v <= pipe'[v].src
    <2>1. Behind(v, x)' /\ pipe[v].at = "smoke"
      BY <1>0, <1>13 DEF Behind, Smoke, At, Pipeline, history
    <2> QED  BY <1>6, <1>13, <2>1 DEF Apply, At
  <1>14. CASE Smoke(v) /\ \E x \in {"done", "rollback"} : pipe'[v] = [pipe[v] EXCEPT !.at = x]
    BY <1>13, <1>14
  <1> QED  BY <1>1, <1>2, <1>3, <1>4, <1>5, <1>7, <1>8, <1>9, <1>10, <1>11, <1>12, <1>14, PipeSteps,
           ZenonT(60)

\* A migrated commit is there for good, and behind whoever is past its migrations.
LEMMA NextKeepsMigratedSafe ==
    TypeOK /\ Reached /\ GrantsAreTables /\ MigratedIsSafe /\ [Next]_vars => MigratedIsSafe'
  <1> SUFFICES ASSUME TypeOK, Reached, GrantsAreTables, MigratedIsSafe, [Next]_vars
               PROVE  MigratedIsSafe'
    OBVIOUS
  <1>1. applied \in Nat /\ applied' \in Nat
    BY Typing DEF TypeOK
  <1>2. ASSUME NEW v \in migrated
        PROVE  role' /\ v <= applied' /\ \A t \in TablesOf(v) : Usable(t)'
    <2>1. v \in Nat
      BY DEF TypeOK, Versions
    <2> QED  BY <1>1, <1>2, <2>1, SchemaGrows DEF MigratedIsSafe, Usable
  <1>3. ASSUME NEW u \in Versions, Grants(u), NEW v, v = pipe[u].src
        PROVE  role' /\ v <= applied' /\ \A t \in TablesOf(v) : Usable(t)'
    <2>1. v \in 0 .. Releases /\ applied \in 0 .. Releases
      BY <1>3 DEF TypeOK, Pipeline
    <2>2. v <= applied /\ role /\ Registry(v) \subseteq policied
      BY <1>3 DEF Reached, Behind, Grants, At
    <2>3. /\ granted' = TablesOf(applied) /\ applied' = applied /\ role' = role
          /\ policied' = policied
      BY <1>3 DEF Grants
    <2>4. TablesOf(v) \subseteq granted'
      BY <2>1, <2>2, <2>3, TablesGrow
    <2> QED  BY <2>2, <2>3, <2>4 DEF Usable, Registry
  <1>4. \A v \in migrated' : role' /\ v <= applied' /\ \A t \in TablesOf(v) : Usable(t)'
    <2>1. ASSUME NEW u \in Versions, Grants(u) PROVE migrated' = migrated \cup {pipe[u].src}
      BY <2>1 DEF Grants
    <2> QED  BY <1>2, <1>3, <2>1, SchemaSteps
  <1>5. ASSUME NEW v \in Versions, Past(v)' PROVE \E u \in migrated' : v <= u
    <2>1. Reached'
      BY NextKeepsReached
    <2>2. Behind(v, pipe[v].at)' /\ v <= pipe'[v].src
      BY <1>5, <2>1 DEF Reached, Past
    <2>3. pipe'[v].src \in migrated'
      BY <1>5, <2>2 DEF Behind, Past
    <2> QED  BY <2>2, <2>3
  <1> QED  BY <1>4, <1>5 DEF MigratedIsSafe

-----------------------------------------------------------------------------
\* No pipeline has started.
LEMMA InitIInv == Init => IInv
  <1> SUFFICES ASSUME Init PROVE IInv
    OBVIOUS
  <1> USE DeploymentAssumptions DEF Init
  <1>1. TypeOK
    <2>1. [at |-> "none", ok |-> TRUE, src |-> 0, prev |-> 0] \in Pipeline
      BY DEF Pipeline
    <2>2. 0 \in 0 .. Releases
      OBVIOUS
    <2>3. pipe \in [Versions -> Pipeline] /\ before \in [Versions -> 0 .. Releases]
      BY <2>1, <2>2
    <2> QED  BY <2>2, <2>3 DEF TypeOK
  <1>2. Reached
    BY DEF Reached, Behind
  <1>3. GrantsAreTables /\ MigratedIsSafe
    BY DEF GrantsAreTables, MigratedIsSafe, Past
  <1> QED  BY <1>1, <1>2, <1>3 DEF IInv

\* Every step keeps the inductive invariant.
LEMMA NextKeepsIInv == IInv /\ [Next]_vars => IInv'
  BY Typing, NextKeepsReached, NextKeepsGrants, NextKeepsMigratedSafe DEF IInv

\* The inductive invariant: what each step of a pipeline has behind it.
THEOREM Invariance == Spec => []IInv
  BY InitIInv, NextKeepsIInv, PTL DEF Spec

\* The type invariant of pipelines, schema and service.
THEOREM TypeCorrect == Spec => []TypeOK
  <1>1. IInv => TypeOK
    BY DEF IInv
  <1> QED  BY <1>1, Invariance, PTL

\* Migrated commits stay safe, whatever number of pipelines overlap, stop and
\* are run again.
THEOREM MigrationsAreSafe == Spec => []MigratedIsSafe
  <1>1. IInv => MigratedIsSafe
    BY DEF IInv
  <1> QED  BY <1>1, Invariance, PTL
=============================================================================
