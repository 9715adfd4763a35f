----------------------------- MODULE Migrations -----------------------------
(***************************************************************************)
(* cmd/migrate: the SQL files of an image are applied in order, each in a  *)
(* transaction of its own that also records it in schema_migration.  A     *)
(* database created before the history existed is recognised by a column   *)
(* that the baseline file adds, and the files up to it are recorded        *)
(* without being run.  Every container start runs a migrator; an old and a *)
(* new image may run theirs at the same time, and any of them may die      *)
(* between two statements.                                                 *)
(*                                                                         *)
(* A file is its rank in the order of the names; running one needs the     *)
(* effects of those before it.                                             *)
(***************************************************************************)
EXTENDS Naturals, FiniteSets

CONSTANTS
    Migrators,     \* containers that run cmd/migrate
    NFiles,        \* files of the newest image
    Baseline,      \* rank of legacyBaselineVersion, 007_source_mode.sql
    Image,         \* Image[p]: how many files p's image holds
    MaxFailures    \* bound on failed statements and killed processes

ASSUME MigrationsAssumption ==
    /\ NFiles \in Nat \ {0}
    /\ Baseline \in 1..NFiles
    /\ Image \in [Migrators -> 1..NFiles]
    /\ MaxFailures \in Nat

Files == 1..NFiles
NoFile == 0

VARIABLES
    schema,      \* files whose effects the database holds
    table,       \* schema_migration exists
    history,     \* its rows
    pc,          \* per migrator: its place in main
    next,        \* per migrator: the file its loop is at
    applied,     \* per migrator: the map read from the history
    open,        \* per migrator: the file its transaction has run, or NoFile
    failures

dbVars == <<schema, table, history>>
vars == <<dbVars, pc, next, applied, open, failures>>

Stages == {"ensure", "check", "bootstrap", "load", "apply", "done", "failed"}

TypeOK ==
    /\ schema \subseteq Files
    /\ table \in BOOLEAN
    /\ history \subseteq Files
    /\ pc \in [Migrators -> Stages]
    /\ next \in [Migrators -> 1..NFiles + 1]
    /\ applied \in [Migrators -> SUBSET Files]
    /\ open \in [Migrators -> Files \cup {NoFile}]
    /\ failures \in 0..MaxFailures

\* A new database, or one whose schema was created, up to some file, by the
\* database container itself before the history existed.
Init ==
    /\ \E n \in 0..NFiles : schema = 1..n
    /\ table = FALSE
    /\ history = {}
    /\ pc = [p \in Migrators |-> "ensure"]
    /\ next = [p \in Migrators |-> 1]
    /\ applied = [p \in Migrators |-> {}]
    /\ open = [p \in Migrators |-> NoFile]
    /\ failures = 0

\* Two transactions that touch the same row of the history, or the objects of
\* the same file, wait for each other.
Locked(p, f) == \E q \in Migrators \ {p} : open[q] = f

-----------------------------------------------------------------------------
\* ensureMigrationHistory
Ensure(p) ==
    /\ pc[p] = "ensure"
    /\ table' = TRUE
    /\ pc' = [pc EXCEPT ![p] = "check"]
    /\ UNCHANGED <<schema, history, next, applied, open, failures>>

\* Mutant: the first table is taken for a sign of the legacy schema.
FirstTableExists == 1 \in schema

\* bootstrapLegacyMigrationHistory: is the column of the baseline there?
LegacySchemaReady == Baseline \in schema

Check(p) ==
    /\ pc[p] = "check"
    /\ pc' = [pc EXCEPT ![p] = IF LegacySchemaReady THEN "bootstrap" ELSE "load"]
    /\ next' = [next EXCEPT ![p] = 1]
    /\ UNCHANGED <<dbVars, applied, open, failures>>

\* Mutant: the baseline is forgotten: every file of the image is recorded.
WholeImage(p, f) == f =< Image[p]

\* legacyBaselineVersions
IsBaseline(p, f) == f =< Image[p] /\ f =< Baseline

\* One INSERT of its loop, committed at once.
BootstrapRecord(p) ==
    /\ pc[p] = "bootstrap"
    /\ IsBaseline(p, next[p])
    /\ ~Locked(p, next[p])
    /\ history' = history \cup {next[p]}
    /\ next' = [next EXCEPT ![p] = @ + 1]
    /\ UNCHANGED <<schema, table, pc, applied, open, failures>>

BootstrapEnds(p) ==
    /\ pc[p] = "bootstrap"
    /\ ~IsBaseline(p, next[p])
    /\ pc' = [pc EXCEPT ![p] = "load"]
    /\ UNCHANGED <<dbVars, next, applied, open, failures>>

\* loadAppliedMigrationVersions
Load(p) ==
    /\ pc[p] = "load"
    /\ applied' = [applied EXCEPT ![p] = history]
    /\ next' = [next EXCEPT ![p] = 1]
    /\ pc' = [pc EXCEPT ![p] = "apply"]
    /\ UNCHANGED <<dbVars, open, failures>>

Skip(p) ==
    /\ pc[p] = "apply"
    /\ next[p] =< Image[p]
    /\ next[p] \in applied[p]
    /\ next' = [next EXCEPT ![p] = @ + 1]
    /\ UNCHANGED <<dbVars, pc, applied, open, failures>>

\* BEGIN and the file's statements, which fail if an earlier file is missing.
Execute(p) ==
    /\ pc[p] = "apply"
    /\ next[p] =< Image[p]
    /\ next[p] \notin applied[p]
    /\ open[p] = NoFile
    /\ ~Locked(p, next[p])
    /\ 1..(next[p] - 1) \subseteq schema
    /\ open' = [open EXCEPT ![p] = next[p]]
    /\ UNCHANGED <<dbVars, pc, next, applied, failures>>

\* Mutant: the file commits on its own and is recorded by the next start only.
CommitWithoutRecord(p) ==
    /\ open[p] # NoFile
    /\ schema' = schema \cup {open[p]}
    /\ \/ history' = history \cup {open[p]}
       \/ UNCHANGED history
    /\ applied' = [applied EXCEPT ![p] = @ \cup {open[p]}]
    /\ next' = [next EXCEPT ![p] = @ + 1]
    /\ open' = [open EXCEPT ![p] = NoFile]
    /\ UNCHANGED <<table, pc, failures>>

\* The INSERT into the history and COMMIT make both effects visible at once.
Commit(p) ==
    /\ open[p] # NoFile
    /\ schema' = schema \cup {open[p]}
    /\ history' = history \cup {open[p]}
    /\ applied' = [applied EXCEPT ![p] = @ \cup {open[p]}]
    /\ next' = [next EXCEPT ![p] = @ + 1]
    /\ open' = [open EXCEPT ![p] = NoFile]
    /\ UNCHANGED <<table, pc, failures>>

Done(p) ==
    /\ pc[p] = "apply"
    /\ next[p] > Image[p]
    /\ pc' = [pc EXCEPT ![p] = "done"]
    /\ UNCHANGED <<dbVars, next, applied, open, failures>>

\* A statement fails, the two minutes are over or the process is killed: the
\* open transaction is rolled back.
Fail(p) ==
    /\ pc[p] \notin {"done", "failed"}
    /\ failures < MaxFailures
    /\ failures' = failures + 1
    /\ pc' = [pc EXCEPT ![p] = "failed"]
    /\ open' = [open EXCEPT ![p] = NoFile]
    /\ UNCHANGED <<dbVars, next, applied>>

\* entrypoint.sh runs the migrator before anything else, at every start of
\* the container: after a failure, and at every deployment.
Restart(p) ==
    /\ pc[p] = "failed"
    /\ pc' = [pc EXCEPT ![p] = "ensure"]
    /\ UNCHANGED <<dbVars, next, applied, open, failures>>

Redeploy(p) ==
    /\ pc[p] = "done"
    /\ pc' = [pc EXCEPT ![p] = "ensure"]
    /\ UNCHANGED <<dbVars, next, applied, open, failures>>

-----------------------------------------------------------------------------
Migrate(p) ==
    \/ Ensure(p) \/ Check(p) \/ BootstrapRecord(p) \/ BootstrapEnds(p)
    \/ Load(p) \/ Skip(p) \/ Execute(p) \/ Commit(p) \/ Done(p)

Next == \E p \in Migrators : Migrate(p) \/ Fail(p) \/ Restart(p) \/ Redeploy(p)

\* A started migrator runs to its end; the platform restarts a failed one.
Fairness == \A p \in Migrators : WF_vars(Migrate(p)) /\ WF_vars(Restart(p))

Spec == Init /\ [][Next]_vars
FairSpec == Spec /\ Fairness

-----------------------------------------------------------------------------
(* Properties.                                                             *)

\* What the history calls applied is in the schema, whoever recorded it: no
\* crash, bootstrap or concurrent migrator makes a file skipped for ever.
RecordedIsApplied == history \subseteq schema

\* Files take effect in order, whatever the migrators' interleaving, and a
\* file is only run on top of all those before it.
AppliedInOrder ==
    /\ \E n \in 0..NFiles : schema = 1..n
    /\ \A p \in Migrators : pc[p] = "apply" => 1..(next[p] - 1) \subseteq schema

\* The services that the entrypoint starts after the migrator find every file
\* of their own image applied, even next to another image's migrator.
ServedSchemaComplete ==
    \A p \in Migrators : pc[p] = "done" => 1..Image[p] \subseteq schema

\* After any finite number of failures every image's files are recorded.
EventuallyRecorded == <>[](\A p \in Migrators : 1..Image[p] \subseteq history)
=============================================================================
