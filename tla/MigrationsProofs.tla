-------------------------- MODULE MigrationsProofs --------------------------
(***************************************************************************)
(* What the migrators guarantee for any number of containers, files and    *)
(* failures, and for any two images that share a prefix of the files.      *)
(***************************************************************************)
EXTENDS Migrations, TLAPS

\* The invariant that the steps preserve.  What a migrator has read of the
\* history, the place of its loop and its open transaction all stay below
\* what the schema already holds, and the schema only grows.
MigrationInv ==
    /\ TypeOK
    /\ RecordedIsApplied
    /\ AppliedInOrder
    /\ ServedSchemaComplete
    /\ \A p \in Migrators :
        /\ applied[p] \subseteq schema
        /\ pc[p] = "bootstrap" => Baseline \in schema
        /\ open[p] # NoFile =>
            /\ pc[p] = "apply" /\ open[p] = next[p] /\ next[p] =< Image[p]
            /\ open[p] \notin applied[p]

\* The schema stays a prefix of the files when the next one, or one that it
\* already holds, takes effect.
LEMMA PrefixGrows ==
    ASSUME NEW n \in 0..NFiles, NEW f \in Files, 1..(f - 1) \subseteq 1..n
    PROVE  \E m \in 0..NFiles : (1..n) \cup {f} = 1..m
<1>. USE MigrationsAssumption DEF Files
<1>1. CASE f =< n
  <2>1. (1..n) \cup {f} = 1..n
    BY <1>1
  <2> QED BY <2>1
<1>2. CASE f > n
  <2>1. f = n + 1
    <3>1. CASE f - 1 \in 1..(f - 1)
      BY <3>1, <1>2
    <3>2. CASE f - 1 \notin 1..(f - 1)
      BY <3>2, <1>2
    <3> QED BY <3>1, <3>2
  <2>2. (1..n) \cup {f} = 1..(n + 1)
    BY <2>1
  <2> QED BY <2>1, <2>2
<1> QED BY <1>1, <1>2

LEMMA MigrationInit == Init => MigrationInv
<1> SUFFICES ASSUME Init PROVE MigrationInv
  OBVIOUS
<1>. USE MigrationsAssumption
<1>1. PICK n \in 0..NFiles : schema = 1..n
  BY DEF Init
<1>2. TypeOK
  <2>1. 1 \in 1..NFiles + 1 /\ schema \subseteq 1..NFiles /\ 0 \in 0..MaxFailures
    BY <1>1
  <2> QED BY <2>1 DEF Init, TypeOK, Files, NoFile, Stages
<1>3. RecordedIsApplied /\ ServedSchemaComplete
  BY DEF Init, RecordedIsApplied, ServedSchemaComplete
<1>4. AppliedInOrder
  BY <1>1 DEF Init, AppliedInOrder
<1> QED BY <1>2, <1>3, <1>4 DEF MigrationInv, Init

LEMMA MigrationStep == MigrationInv /\ [Next]_vars => MigrationInv'
<1> SUFFICES ASSUME MigrationInv, [Next]_vars PROVE MigrationInv'
  OBVIOUS
<1>. USE MigrationsAssumption
<1>. USE DEF MigrationInv, TypeOK, RecordedIsApplied, AppliedInOrder, ServedSchemaComplete,
             dbVars, Files, NoFile, Stages
<1>1. CASE UNCHANGED vars
  BY <1>1 DEF vars
<1>2. ASSUME NEW p \in Migrators, Ensure(p) PROVE MigrationInv'
  BY <1>2 DEF Ensure
<1>3. ASSUME NEW p \in Migrators, Check(p) PROVE MigrationInv'
  <2>1. 1 \in 1..NFiles + 1
    OBVIOUS
  <2>2. TypeOK'
    BY <1>3, <2>1 DEF Check
  <2>3. RecordedIsApplied' /\ ServedSchemaComplete'
    BY <1>3 DEF Check
  <2>4. AppliedInOrder'
    BY <1>3, <2>1 DEF Check
  <2>5. \A q \in Migrators :
            /\ applied'[q] \subseteq schema'
            /\ pc'[q] = "bootstrap" => Baseline \in schema'
            /\ open'[q] # NoFile =>
                /\ pc'[q] = "apply" /\ open'[q] = next'[q] /\ next'[q] =< Image[q]
                /\ open'[q] \notin applied'[q]
    BY <1>3, <2>1 DEF Check, LegacySchemaReady
  <2> QED BY <2>2, <2>3, <2>4, <2>5
<1>4. ASSUME NEW p \in Migrators, BootstrapRecord(p) PROVE MigrationInv'
  <2>1. next[p] \in schema /\ next[p] \in 1..NFiles /\ next[p] + 1 \in 1..NFiles + 1
    <3>1. PICK n \in 0..NFiles : schema = 1..n
      OBVIOUS
    <3>2. Baseline \in 1..n /\ next[p] =< Baseline /\ next[p] \in 1..NFiles + 1
      BY <1>4, <3>1 DEF BootstrapRecord, IsBaseline
    <3> QED BY <3>1, <3>2
  <2>2. history' \subseteq schema' /\ history' \subseteq 1..NFiles
    BY <1>4, <2>1 DEF BootstrapRecord
  <2> QED BY <1>4, <2>1, <2>2 DEF BootstrapRecord
<1>5. ASSUME NEW p \in Migrators, BootstrapEnds(p) PROVE MigrationInv'
  BY <1>5 DEF BootstrapEnds
<1>6. ASSUME NEW p \in Migrators, Load(p) PROVE MigrationInv'
  <2>1. 1 \in 1..NFiles + 1 /\ 1..(1 - 1) = {}
    OBVIOUS
  <2>2. TypeOK'
    BY <1>6, <2>1 DEF Load
  <2>3. RecordedIsApplied' /\ ServedSchemaComplete'
    BY <1>6 DEF Load
  <2>4. AppliedInOrder'
    BY <1>6, <2>1 DEF Load
  <2>5. \A q \in Migrators :
            /\ applied'[q] \subseteq schema'
            /\ pc'[q] = "bootstrap" => Baseline \in schema'
            /\ open'[q] # NoFile =>
                /\ pc'[q] = "apply" /\ open'[q] = next'[q] /\ next'[q] =< Image[q]
                /\ open'[q] \notin applied'[q]
    BY <1>6, <2>1 DEF Load
  <2> QED BY <2>2, <2>3, <2>4, <2>5
<1>7. ASSUME NEW p \in Migrators, Skip(p) PROVE MigrationInv'
  <2>1. 1..((next[p] + 1) - 1) \subseteq schema /\ next[p] + 1 \in 1..NFiles + 1
    <3>1. next[p] \in schema /\ 1..(next[p] - 1) \subseteq schema /\ next[p] \in 1..NFiles
      BY <1>7 DEF Skip
    <3> QED BY <3>1
  <2>2. TypeOK'
    BY <1>7, <2>1 DEF Skip
  <2>3. RecordedIsApplied' /\ ServedSchemaComplete'
    BY <1>7 DEF Skip
  <2>4. AppliedInOrder'
    BY <1>7, <2>1 DEF Skip
  <2>5. \A q \in Migrators :
            /\ applied'[q] \subseteq schema'
            /\ pc'[q] = "bootstrap" => Baseline \in schema'
            /\ open'[q] # NoFile =>
                /\ pc'[q] = "apply" /\ open'[q] = next'[q] /\ next'[q] =< Image[q]
                /\ open'[q] \notin applied'[q]
    BY <1>7, <2>1 DEF Skip
  <2> QED BY <2>2, <2>3, <2>4, <2>5
<1>8. ASSUME NEW p \in Migrators, Execute(p) PROVE MigrationInv'
  <2>1. next[p] \in 1..NFiles
    BY <1>8 DEF Execute
  <2>2. TypeOK'
    BY <1>8, <2>1 DEF Execute
  <2>3. RecordedIsApplied' /\ ServedSchemaComplete'
    BY <1>8 DEF Execute
  <2>4. AppliedInOrder'
    BY <1>8, <2>1 DEF Execute
  <2>5. \A q \in Migrators :
            /\ applied'[q] \subseteq schema'
            /\ pc'[q] = "bootstrap" => Baseline \in schema'
            /\ open'[q] # NoFile =>
                /\ pc'[q] = "apply" /\ open'[q] = next'[q] /\ next'[q] =< Image[q]
                /\ open'[q] \notin applied'[q]
    BY <1>8, <2>1 DEF Execute
  <2> QED BY <2>2, <2>3, <2>4, <2>5
<1>9. ASSUME NEW p \in Migrators, Commit(p) PROVE MigrationInv'
  <2> DEFINE f == open[p]
  <2>1. f \in 1..NFiles /\ f = next[p] /\ pc[p] = "apply" /\ 1..(f - 1) \subseteq schema
    BY <1>9 DEF Commit
  <2>2. schema' = schema \cup {f}
    BY <1>9 DEF Commit
  <2>3. PICK n \in 0..NFiles : schema = 1..n
    OBVIOUS
  <2>4. \E m \in 0..NFiles : schema' = 1..m
    BY <2>1, <2>2, <2>3, PrefixGrows
  <2>5. 1..((f + 1) - 1) \subseteq schema' /\ f + 1 \in 1..NFiles + 1
    BY <2>1, <2>2
  <2>6. TypeOK'
    BY <1>9, <2>1, <2>2, <2>5 DEF Commit
  <2>7. RecordedIsApplied'
    BY <1>9, <2>2 DEF Commit
  <2>8. \A q \in Migrators : pc'[q] = "apply" => 1..(next'[q] - 1) \subseteq schema'
    <3> TAKE q \in Migrators
    <3>1. CASE q = p
      BY <3>1, <1>9, <2>1, <2>5 DEF Commit
    <3>2. CASE q # p
      BY <3>2, <1>9, <2>2 DEF Commit
    <3> QED BY <3>1, <3>2
  <2>9. ServedSchemaComplete'
    BY <1>9, <2>2 DEF Commit
  <2>10. \A q \in Migrators :
            /\ applied'[q] \subseteq schema'
            /\ pc'[q] = "bootstrap" => Baseline \in schema'
            /\ open'[q] # NoFile =>
                /\ pc'[q] = "apply" /\ open'[q] = next'[q] /\ next'[q] =< Image[q]
                /\ open'[q] \notin applied'[q]
    BY <1>9, <2>1, <2>2 DEF Commit
  <2> QED BY <2>4, <2>6, <2>7, <2>8, <2>9, <2>10
<1>10. ASSUME NEW p \in Migrators, Done(p) PROVE MigrationInv'
  <2>1. 1..Image[p] \subseteq schema
    BY <1>10 DEF Done
  <2>2. open[p] = NoFile
    BY <1>10 DEF Done
  <2> QED BY <1>10, <2>1, <2>2 DEF Done
<1>11. ASSUME NEW p \in Migrators, Fail(p) PROVE MigrationInv'
  <2>1. failures' \in 0..MaxFailures
    BY <1>11 DEF Fail
  <2> QED BY <1>11, <2>1 DEF Fail
<1>12. ASSUME NEW p \in Migrators, Restart(p) PROVE MigrationInv'
  BY <1>12 DEF Restart
<1>13. ASSUME NEW p \in Migrators, Redeploy(p) PROVE MigrationInv'
  BY <1>13 DEF Redeploy
<1> QED
  BY <1>1, <1>2, <1>3, <1>4, <1>5, <1>6, <1>7, <1>8, <1>9, <1>10, <1>11, <1>12, <1>13
  DEF Next, Migrate

\* The migrators keep the invariant at every step (cmd/migrate/main.go:39-80).
THEOREM MigrationCorrect == Spec => []MigrationInv
<1> QED BY MigrationInit, MigrationStep, PTL DEF Spec

\* No file is ever recorded whose effects the schema does not hold, for any
\* number of migrators, crashes and bootstraps.
THEOREM NothingSkipped == Spec => []RecordedIsApplied
<1>1. MigrationInv => RecordedIsApplied
  BY DEF MigrationInv
<1> QED BY <1>1, MigrationCorrect, PTL

\* Whatever container finishes migrating finds all the files of its image
\* applied, and files always take effect in order.
THEOREM ServedSchema == Spec => [](ServedSchemaComplete /\ AppliedInOrder)
<1>1. MigrationInv => ServedSchemaComplete /\ AppliedInOrder
  BY DEF MigrationInv
<1> QED BY <1>1, MigrationCorrect, PTL
=============================================================================
