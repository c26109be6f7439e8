----------------------------- MODULE Deployment -----------------------------
(* Migrations and releases: the migration runner (src/src/db/migrate.ts),   *)
(* the pipelines of .github/workflows/cd.yml that call it between the other *)
(* steps of a release, and the ECS service whose tasks they replace.  The   *)
(* workflow has no concurrency group, so pipelines of two pushes overlap,   *)
(* and each step may fail and its pipeline be run again.  One environment,  *)
(* the staging one; production's has no safeguards and no rollback step.    *)
EXTENDS Integers, FiniteSets

CONSTANTS
    Releases,       \* how many commits are pushed: 1 .. Releases
    Tables,         \* the tables of all migrations
    Scoped,         \* TENANT_SCOPED_TABLES
    AddedBy         \* [1 .. Releases -> SUBSET Tables]: the migrations a commit brings

ASSUME DeploymentAssumptions ==
    /\ Releases \in Nat
    /\ Scoped \subseteq Tables
    /\ AddedBy \in [1 .. Releases -> SUBSET Tables]

VARIABLES
    head,       \* the last commit of main
    pipe,       \* [Versions -> Pipeline]: the pipeline of each commit's image
    applied,    \* the newest migration in drizzle's journal
    role,       \* BOOLEAN: the app role exists
    policied,   \* SUBSET Scoped: row-level security enabled, forced, with both policies
    granted,    \* SUBSET Tables: the app role may read and write them
    defaults,   \* BOOLEAN: default privileges give the app role tables to come
    desired,    \* the task definition of the ECS service, by its image (0: no service)
    tasks,      \* SUBSET Versions: the images that tasks are running
    migrated,   \* history: commits of which a run of the migrations has ended
    before      \* history: [Versions -> 0 .. Releases]: the image of the service
                \* that the apply of each pipeline replaced (0: none, or one
                \* whose own pipeline had not passed its smoke test)

database == <<applied, role, policied, granted, defaults>>
service  == <<desired, tasks>>
history  == <<migrated, before>>
vars     == <<head, pipe, database, service, history>>

Versions == 1 .. Releases

-----------------------------------------------------------------------------
(* The schema.                                                              *)

TablesOf(v) == UNION {AddedBy[i] : i \in {j \in Versions : j <= v}}

\* The tables that rlsPolicySql covers at a commit.
Registry(v) == TablesOf(v) \cap Scoped

-----------------------------------------------------------------------------
(* The steps of a pipeline.  ddl .. grants are those of runMigrations.      *)

Then ==
    [apply |-> "record", record |-> "ddl", ddl |-> "role", role |-> "rls", rls |-> "grants",
     grants |-> "deploy", deploy |-> "smoke", smoke |-> "done"]

Steps    == DOMAIN Then
Pipeline ==
    [at : Steps \cup {"none", "rollback", "done"},
     ok : BOOLEAN,          \* FALSE: the job has failed
     src : 0 .. Releases,   \* the commit that is checked out
     prev : 0 .. Releases]  \* PREV_TASK_DEF (0: not recorded)

TypeOK ==
    /\ head \in 0 .. Releases
    /\ pipe \in [Versions -> Pipeline]
    /\ applied \in 0 .. Releases
    /\ role \in BOOLEAN /\ defaults \in BOOLEAN
    /\ policied \in SUBSET Scoped /\ granted \in SUBSET Tables
    /\ desired \in 0 .. Releases
    /\ tasks \in SUBSET Versions
    /\ migrated \in SUBSET Versions
    /\ before \in [Versions -> 0 .. Releases]

Init ==
    /\ head = 0
    /\ pipe = [v \in Versions |-> [at |-> "none", ok |-> TRUE, src |-> 0, prev |-> 0]]
    /\ applied = 0 /\ role = FALSE /\ defaults = FALSE
    /\ policied = {} /\ granted = {}
    /\ desired = 0 /\ tasks = {}
    /\ migrated = {} /\ before = [v \in Versions |-> 0]

At(v, step) == pipe[v].at = step /\ pipe[v].ok
Go(v)       == pipe' = [pipe EXCEPT ![v].at = Then[@]]

\* A commit is pushed to main.
Push ==
    /\ head < Releases
    /\ head' = head + 1
    /\ UNCHANGED <<pipe, database, service, history>>

\* CI has passed for a commit: its pipeline starts.  A workflow_run checks out
\* main as it is by then, not the commit whose image it deploys.
Start(v) ==
    /\ v <= head /\ pipe[v].at = "none"
    /\ pipe' = [pipe EXCEPT ![v] = [at |-> "apply", ok |-> TRUE, src |-> head, prev |-> 0]]
    /\ UNCHANGED <<head, database, service, history>>

\* A failed job is run again, from its first step, on the same checkout.
Rerun(v) ==
    /\ ~pipe[v].ok
    /\ pipe' = [pipe EXCEPT ![v] = [at |-> "apply", ok |-> TRUE, src |-> @.src, prev |-> 0]]
    /\ UNCHANGED <<head, database, service, history>>

\* A step fails, or its runner dies; runMigrations closes its pool.  What the
\* steps before it did stays.
Fail(v) ==
    /\ pipe[v].at \in Steps \cup {"rollback"} /\ pipe[v].ok
    /\ pipe' = [pipe EXCEPT ![v].ok = FALSE]
    /\ UNCHANGED <<head, database, service, history>>

\* terraform apply: the service's task_definition follows the new image.
Apply(v) ==
    /\ At(v, "apply")
    /\ Go(v)
    /\ desired' = v
    /\ before' = [before EXCEPT ![v] =
                    IF desired # 0 /\ pipe[desired].at = "done" THEN desired ELSE 0]
    /\ UNCHANGED <<head, database, tasks, migrated>>

\* The snapshot is taken, and the service's task definition recorded.
Record(v) ==
    /\ At(v, "record")
    /\ pipe' = [pipe EXCEPT ![v].prev = desired, ![v].at = Then[@]]
    /\ UNCHANGED <<head, database, service, history>>

-----------------------------------------------------------------------------
(* runMigrations, each statement a transaction of its own.                  *)

\* drizzle's migrate: what the journal lacks, in one transaction.  New tables
\* fall under the default privileges of an earlier run.
Ddl(v) ==
    /\ At(v, "ddl")
    /\ applied' = IF pipe[v].src > applied THEN pipe[v].src ELSE applied
    /\ granted' = IF defaults
                  THEN granted \cup (TablesOf(applied') \ TablesOf(applied))
                  ELSE granted
    /\ Go(v)
    /\ UNCHANGED <<head, role, policied, defaults, service, history>>

\* createAppRoleSql.
Role(v) ==
    /\ At(v, "role")
    /\ role' = TRUE
    /\ Go(v)
    /\ UNCHANGED <<head, applied, policied, granted, defaults, service, history>>

\* Mutant of Rls: what the registry does not name loses its policies.
RlsOfRegistryOnly(v) ==
    /\ At(v, "rls")
    /\ policied' = Registry(pipe[v].src)
    /\ Go(v)
    /\ UNCHANGED <<head, applied, role, granted, defaults, service, history>>

\* rlsPolicySql: one query, so one implicit transaction for all its statements.
Rls(v) ==
    /\ At(v, "rls")
    /\ policied' = policied \cup Registry(pipe[v].src)
    /\ Go(v)
    /\ UNCHANGED <<head, applied, role, granted, defaults, service, history>>

\* grantsSql: every table there is, and those to come.
Grants(v) ==
    /\ At(v, "grants") /\ role
    /\ granted' = TablesOf(applied)
    /\ defaults' = TRUE
    /\ migrated' = migrated \cup {pipe[v].src}
    /\ Go(v)
    /\ UNCHANGED <<head, applied, role, policied, service, before>>

-----------------------------------------------------------------------------
\* A forced deployment has become stable.
Deploy(v) ==
    /\ At(v, "deploy") /\ tasks = {desired}
    /\ Go(v)
    /\ UNCHANGED <<head, database, service, history>>

\* The smoke test polls /health, which answers from the process alone.
Smoke(v) ==
    /\ At(v, "smoke")
    /\ \/ tasks # {} /\ Go(v)
       \/ pipe' = [pipe EXCEPT ![v].at = "rollback"]
    /\ UNCHANGED <<head, database, service, history>>

\* The rollback step; the job then fails.
Rollback(v) ==
    /\ At(v, "rollback")
    /\ desired' = pipe[v].prev
    /\ pipe' = [pipe EXCEPT ![v].ok = FALSE]
    /\ UNCHANGED <<head, database, tasks, history>>

\* ECS runs what the service is to run, and stops what it is not; tasks also die.
TaskStart ==
    /\ desired # 0 /\ tasks' = tasks \cup {desired}
    /\ UNCHANGED <<head, pipe, database, desired, history>>

TaskStop(u) ==
    /\ u \in tasks /\ tasks' = tasks \ {u}
    /\ UNCHANGED <<head, pipe, database, desired, history>>

Next ==
    \/ Push
    \/ \E v \in Versions :
        \/ Start(v) \/ Rerun(v) \/ Fail(v)
        \/ Apply(v) \/ Record(v)
        \/ Ddl(v) \/ Role(v) \/ Rls(v) \/ Grants(v)
        \/ Deploy(v) \/ Smoke(v) \/ Rollback(v)
        \/ TaskStop(v)
    \/ TaskStart

Spec == Init /\ [][Next]_vars

-----------------------------------------------------------------------------
(* Properties.                                                              *)

\* A table that the app role can use has its policies if it needs them.
Usable(t) == t \in granted /\ (t \in Scoped => t \in policied)

\* What a run of the migrations has reached, no run undoes, however old its
\* checkout, wherever it stops and whatever overlaps it: every table of a
\* migrated commit is there, usable, and closed to other tenants (R6.2, R18.2).
\* And a pipeline past its migrations has migrated the image it deploys, though
\* its checkout is another commit: the tasks it waits for find their tables.
Past(v) == pipe[v].at \in {"deploy", "smoke", "rollback", "done"}

MigratedIsSafe ==
    /\ \A v \in migrated :
        /\ role /\ v <= applied
        /\ \A t \in TablesOf(v) : Usable(t)
    /\ \A v \in Versions : Past(v) => \E u \in migrated : v <= u

\* A rollback goes to the last healthy image, the one that the failed release
\* replaced (R18.5).  False: PREV_TASK_DEF is read after terraform apply has given
\* the service the new image, so it is what has just failed its test.
RollbackRestoresPrevious ==
    \A v \in Versions : pipe[v].at = "rollback" /\ before[v] # 0 => pipe[v].prev = before[v]

\* Where pipelines are, told by what they leave behind: the strengthening that
\* makes MigratedIsSafe inductive.
Behind(v, step) ==
    CASE step = "role"                  -> pipe[v].src <= applied
      [] step = "rls"                   -> pipe[v].src <= applied /\ role
      [] step = "grants"                -> /\ pipe[v].src <= applied /\ role
                                           /\ Registry(pipe[v].src) \subseteq policied
      [] step \in {"none", "apply", "record", "ddl"} -> TRUE
      [] OTHER                          -> pipe[v].src \in migrated

Reached ==
    \A v \in Versions :
        /\ Behind(v, pipe[v].at)
        /\ IF pipe[v].at = "none" THEN pipe[v].ok ELSE v <= pipe[v].src

GrantsAreTables == granted \subseteq TablesOf(applied) /\ (defaults => granted = TablesOf(applied))

IInv == TypeOK /\ Reached /\ GrantsAreTables /\ MigratedIsSafe
=============================================================================
