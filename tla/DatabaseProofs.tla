----------------------------- MODULE DatabaseProofs -----------------------------
(***************************************************************************)
(* Proofs about Database, for any runners, months and edits.               *)
(***************************************************************************)
EXTENDS Database, FiniteSetTheorems, TLAPS

Versions == 0 .. MaxEdits + 1
Stages == {"idle", "checks", "applies", "reverts", "drops"}

DiskType == disk \in [Files -> 1 .. MaxEdits + 1]
TrackingType == tracking \in [Files -> Versions]
SchemaType ==
    schema \in [events : Versions, indexes : Versions, fn : Versions, default : Versions,
                months : SUBSET Nat]
RowsType ==
    /\ rows \in [inMonth : SUBSET Nat, inDefault : SUBSET Nat]
    /\ IsFiniteSet(rows.inDefault)
RunnerType == runner \in [Runners -> [stage : Stages, file : Files, version : Versions]]
JobType ==
    job \in [stage : {"idle", "creates", "ended"}, from : Nat, offset : 0 .. MonthsAhead + 1,
             gauge : Nat, found : BOOLEAN, void : BOOLEAN, promised : SUBSET Nat]

\* A rollback runs alone, and 002 goes before 001.
RevertsAlone ==
    \A p \in Runners : Reverting(p) =>
        /\ \A q \in Runners \ {p} : runner[q].stage = "idle"
        /\ runner[p].file \in {1, 2}
        /\ runner[p].file = 1 => tracking[2] = 0

\* Rows of a month with a partition are not in events_default, and the months that were
\* provided for have one.
DefaultIsApart == schema.months \cap rows.inDefault = {}
PromisedIsThere == job.promised \subseteq schema.months

\* What the maintenance job has created since it began is there, if the table is.
JobProgress ==
    job.stage = "creates" /\ ~job.void =>
        \A i \in Nat : i < job.offset => job.from + i \in schema.months

Types == DiskType /\ TrackingType /\ SchemaType /\ RowsType /\ RunnerType /\ JobType
             /\ month \in Nat

IInv == /\ Types
        /\ TrackedIsApplied /\ RevertsAlone
        /\ DefaultIsApart /\ PromisedIsThere /\ JobProgress

-----------------------------------------------------------------------------
\* The initial states satisfy the invariant.
LEMMA InitIInv == DbInit => IInv
  <1> SUFFICES ASSUME DbInit PROVE IInv
    OBVIOUS
  <1> USE DatabaseAssumption DEF DbInit
  <1>1. Types
    BY FS_EmptySet
       DEF Types, DiskType, TrackingType, SchemaType, RowsType, RunnerType, JobType,
           Versions, Stages, Files, NoTable, NoRows, NoJob
  <1>2. TrackedIsApplied
    BY DEF TrackedIsApplied, NoTable, Files
  <1>3. RevertsAlone /\ DefaultIsApart /\ PromisedIsThere /\ JobProgress
    BY DEF RevertsAlone, Reverting, DefaultIsApart, PromisedIsThere, JobProgress, NoTable, NoRows, NoJob
  <1> QED
    BY <1>1, <1>2, <1>3 DEF IInv

\* The runner after the end of an invocation, and after a file.
LEMMA EndsType ==
    ASSUME RunnerType, NEW p \in Runners
    PROVE  /\ Ends(p) \in [Runners -> [stage : Stages, file : Files, version : Versions]]
           /\ Ends(p)[p].stage = "idle"
           /\ \A q \in Runners \ {p} : Ends(p)[q] = runner[q]
  BY DatabaseAssumption DEF RunnerType, Ends, Stages, Files, Versions

\* NextFile moves one runner, to the next file or to idle.
LEMMA NextFileType ==
    ASSUME RunnerType, NEW p \in Runners
    PROVE  /\ NextFile(p) \in [Runners -> [stage : Stages, file : Files, version : Versions]]
           /\ NextFile(p)[p].stage \in {"idle", "checks"}
           /\ \A q \in Runners \ {p} : NextFile(p)[q] = runner[q]
  <1>1. CASE runner[p].file = 5
    BY <1>1, EndsType DEF NextFile
  <1>2. CASE runner[p].file # 5
    <2>1. runner[p].file + 1 \in Files
      BY <1>2 DEF RunnerType, Files
    <2> DEFINE next == [stage |-> "checks", file |-> runner[p].file + 1, version |-> 0]
    <2>2. NextFile(p) = [runner EXCEPT ![p] = next]
      BY <1>2 DEF RunnerType, NextFile
    <2>3. next \in [stage : Stages, file : Files, version : Versions] /\ next.stage = "checks"
      BY <2>1, DatabaseAssumption DEF RunnerType, Stages, Versions
    <2> HIDE DEF next
    <2> QED
      BY <2>2, <2>3 DEF RunnerType
  <1> QED
    BY <1>1, <1>2

-----------------------------------------------------------------------------
\* Steps of runners that leave the database alone keep the invariant, if a rollback they
\* begin is one that RevertsAlone allows.
LEMMA RunnerStep ==
    ASSUME IInv, UNCHANGED <<disk, tracking, schema, rows, month, job>>,
           RunnerType', RevertsAlone'
    PROVE  IInv'
  BY DEF IInv, Types, DiskType, TrackingType, SchemaType, RowsType, JobType,
         TrackedIsApplied, DefaultIsApart, PromisedIsThere, JobProgress

\* A rollback is not disturbed by a step of p to a stage that is none.
LEMMA OtherStage ==
    ASSUME IInv, NEW p \in Runners, tracking' = tracking,
           runner[p].stage # "idle" \/ \A q \in Runners : ~Reverting(q),
           ~Reverting(p) \/ runner'[p].stage = "idle",
           ~Reverting(p)',
           \A q \in Runners \ {p} : runner'[q] = runner[q]
    PROVE  RevertsAlone'
  BY DEF IInv, RevertsAlone, Reverting

\* The steps of a migrator that touch neither the schema nor the tracking table.
LEMMA RunnerSteps ==
    ASSUME IInv, NEW p \in Runners,
           MigrateBegins(p) \/ Check(p) \/ MigrationFails(p)
    PROVE  IInv'
  <1> USE DEF IInv, Types
  <1>1. CASE MigrateBegins(p)
    <2>1. /\ RunnerType' /\ runner'[p].stage = "checks"
          /\ \A q \in Runners \ {p} : runner'[q] = runner[q]
      BY <1>1 DEF MigrateBegins, RunnerType, Stages
    <2>2. RevertsAlone'
      BY <1>1, <2>1, OtherStage DEF MigrateBegins, Reverting
    <2> QED
      BY <1>1, <2>1, <2>2, RunnerStep DEF MigrateBegins
  <1>2. CASE Check(p)
    <2>1. \/ runner' = NextFile(p)
          \/ runner' = Ends(p)
          \/ runner' = [runner EXCEPT ![p].stage = "applies", ![p].version = disk[runner[p].file]]
      BY <1>2 DEF Check
    <2>2. disk[runner[p].file] \in Versions
      BY DatabaseAssumption DEF DiskType, RunnerType, Versions
    <2>3. /\ RunnerType' /\ ~Reverting(p)'
          /\ \A q \in Runners \ {p} : runner'[q] = runner[q]
      <3>1. CASE runner' = NextFile(p)
        BY <3>1, NextFileType DEF RunnerType, Reverting
      <3>2. CASE runner' = Ends(p)
        BY <3>2, EndsType DEF RunnerType, Reverting
      <3>3. CASE runner' = [runner EXCEPT ![p].stage = "applies", ![p].version = disk[runner[p].file]]
        BY <3>3, <2>2 DEF RunnerType, Stages, Reverting
      <3> QED
        BY <2>1, <3>1, <3>2, <3>3
    <2>4. RevertsAlone'
      BY <1>2, <2>3, OtherStage DEF Check, Reverting
    <2> QED
      BY <1>2, <2>3, <2>4, RunnerStep DEF Check
  <1>3. CASE MigrationFails(p)
    <2>1. /\ RunnerType' /\ runner'[p].stage = "idle"
          /\ \A q \in Runners \ {p} : runner'[q] = runner[q]
      BY <1>3, EndsType DEF MigrationFails, RunnerType
    <2>2. RevertsAlone'
      BY <1>3, <2>1, OtherStage DEF MigrationFails, Busy, Reverting
    <2> QED
      BY <1>3, <2>1, <2>2, RunnerStep DEF MigrationFails
  <1> QED
    BY <1>1, <1>2, <1>3

-----------------------------------------------------------------------------
\* What a file makes of the schema: a schema whose months are the same, or, for 005, those
\* that create_events_partition could make.
LEMMA ResultType ==
    ASSUME Types, NEW f \in Files, NEW v \in Versions
    PROVE  /\ Result(f, v) \in [events : Versions, indexes : Versions, fn : Versions,
                                default : Versions, months : SUBSET Nat]
           /\ f # 5 => Result(f, v).months = schema.months
           /\ f = 5 => Result(f, v).months = schema.months \cup month .. month + MonthsAhead
  <1> USE DEF Types, SchemaType
  <1>1. CASE f # 5
    BY <1>1 DEF Result, Files
  <1>2. CASE f = 5
    <2>1. {month + i : i \in 0 .. MonthsAhead} = month .. month + MonthsAhead
      <3>1. ASSUME NEW m \in month .. month + MonthsAhead
            PROVE  \E i \in 0 .. MonthsAhead : m = month + i
        <4>1. m - month \in 0 .. MonthsAhead /\ m = month + (m - month)
          BY <3>1, DatabaseAssumption
        <4> QED
          BY <4>1
      <3> QED
        BY <3>1, DatabaseAssumption
    <2>2. month .. month + MonthsAhead \in SUBSET Nat
      BY DatabaseAssumption
    <2>3. Result(f, v) = [schema EXCEPT !.months = @ \cup month .. month + MonthsAhead]
      BY <1>2, <2>1 DEF Result
    <2> QED
      BY <1>2, <2>2, <2>3
  <1> QED
    BY <1>1, <1>2

\* A file applied and tracked in one transaction is tracked with the version applied.
LEMMA AppliedMatches ==
    ASSUME Types, TrackedIsApplied, NEW f \in Files, NEW v \in Versions,
           schema' = Result(f, v), tracking' = [tracking EXCEPT ![f] = v]
    PROVE  TrackedIsApplied'
  <1> USE DEF Types, SchemaType, TrackingType, TrackedIsApplied, Result, Files
  <1>1. CASE f = 1  BY <1>1
  <1>2. CASE f = 2  BY <1>2
  <1>3. CASE f = 3  BY <1>3
  <1>4. CASE f = 4  BY <1>4
  <1>5. CASE f = 5  BY <1>5
  <1> QED
    BY <1>1, <1>2, <1>3, <1>4, <1>5

\* Apply keeps the invariant: the primary key of the tracking table makes the second of two
\* runs end where it is.
LEMMA ApplyStep ==
    ASSUME IInv, NEW p \in Runners, Apply(p)
    PROVE  IInv'
  <1> DEFINE f == runner[p].file
             v == runner[p].version
  <1>0. f \in Files /\ v \in Versions /\ runner[p].stage = "applies"
    BY DEF IInv, Types, RunnerType, Apply
  <1>1. \A q \in Runners : ~Reverting(q)
    BY <1>0 DEF IInv, RevertsAlone, Reverting
  <1>2. RunnerType' /\ \A q \in Runners : ~Reverting(q)'
    <2>1. runner' = NextFile(p) \/ runner' = Ends(p)
      BY DEF Apply
    <2>2. RunnerType
      BY DEF IInv, Types
    <2>3. CASE runner' = NextFile(p)
      BY <1>1, <2>2, <2>3, NextFileType DEF RunnerType, Reverting
    <2>4. CASE runner' = Ends(p)
      BY <1>1, <2>2, <2>4, EndsType DEF RunnerType, Reverting
    <2> QED
      BY <2>1, <2>3, <2>4
  <1>3. RevertsAlone'
    BY <1>2 DEF RevertsAlone
  <1>4. CASE Runs(f) /\ ~Conflicts(f)
    <2>1. /\ schema' = Result(f, v)
          /\ tracking' = [tracking EXCEPT ![f] = v]
          /\ job' = IF f = 5 THEN [job EXCEPT !.promised = @ \cup month .. month + MonthsAhead]
                             ELSE job
          /\ UNCHANGED <<disk, rows, month>>
      BY <1>4 DEF Apply
    <2>2. SchemaType' /\ schema.months \subseteq schema'.months
      BY <1>0, <2>1, ResultType DEF IInv, SchemaType
    <2>3. TrackedIsApplied'
      BY <1>0, <2>1, AppliedMatches DEF IInv
    <2>4. JobType' /\ job'.stage = job.stage /\ job'.void = job.void
                   /\ job'.from = job.from /\ job'.offset = job.offset
      <3>1. month .. month + MonthsAhead \in SUBSET Nat
        BY DatabaseAssumption DEF IInv, Types
      <3> QED
        BY <2>1, <3>1 DEF IInv, Types, JobType
    <2>5. PromisedIsThere'
      BY <1>0, <2>1, <2>2, ResultType DEF IInv, Types, JobType, PromisedIsThere
    <2>6. DefaultIsApart'
      <3>1. CASE f = 5
        <4>1. \A i \in 0 .. MonthsAhead :
                month + i \in schema.months \/ month + i \notin rows.inDefault
          BY <1>4, <3>1 DEF Runs, Creatable
        <4>2. \A m \in month .. month + MonthsAhead :
                m \in schema.months \/ m \notin rows.inDefault
          <5> TAKE m \in month .. month + MonthsAhead
          <5>1. m - month \in 0 .. MonthsAhead /\ month + (m - month) = m
            BY DatabaseAssumption DEF IInv, Types
          <5> QED
            BY <4>1, <5>1
        <4> QED
          BY <1>0, <2>1, <3>1, <4>2, ResultType DEF IInv, DefaultIsApart
      <3>2. CASE f # 5
        BY <1>0, <2>1, <3>2, ResultType DEF IInv, DefaultIsApart
      <3> QED
        BY <3>1, <3>2
    <2>7. JobProgress'
      BY <2>2, <2>4 DEF IInv, JobProgress
    <2>8. DiskType' /\ TrackingType' /\ RowsType' /\ month' \in Nat
      BY <1>0, <2>1 DEF IInv, Types, DiskType, TrackingType, RowsType
    <2> QED
      BY <1>2, <1>3, <2>2, <2>3, <2>4, <2>5, <2>6, <2>7, <2>8 DEF IInv, Types
  <1>5. CASE ~(Runs(f) /\ ~Conflicts(f))
    BY <1>2, <1>3, <1>5, RunnerStep DEF Apply
  <1> QED
    BY <1>4, <1>5

-----------------------------------------------------------------------------
\* A rollback begins when nobody else runs, and 001 is its file only if 002 is not applied.
LEMMA MigrateDownBeginsStep ==
    ASSUME IInv, NEW p \in Runners, MigrateDownBegins(p)
    PROVE  IInv'
  <1>0. RunnerType /\ \A q \in Runners : runner[q].stage = "idle"
    BY DEF IInv, Types, RunnerType, Stages, MigrateDownBegins, Busy
  <1>1. CASE Revertible = {}
    <2>1. runner' = Ends(p)
      BY <1>1 DEF MigrateDownBegins
    <2>2. RunnerType' /\ \A q \in Runners : runner'[q].stage = "idle"
      BY <1>0, <2>1, EndsType DEF RunnerType
    <2>3. RevertsAlone'
      BY <2>2 DEF RevertsAlone, Reverting
    <2> QED
      BY <2>2, <2>3, RunnerStep DEF MigrateDownBegins
  <1>2. CASE Revertible # {}
    <2> DEFINE file == NewestRevertible
    <2>1. runner' = [runner EXCEPT ![p] = [stage |-> "reverts", version |-> 0, file |-> file]]
      BY <1>2 DEF MigrateDownBegins
    <2>2. file \in {1, 2} /\ (file = 1 => tracking[2] = 0)
      BY DEF NewestRevertible, Revertible
    <2> HIDE DEF file
    <2>3. RunnerType'
      BY <1>0, <2>1, <2>2, DatabaseAssumption DEF RunnerType, Stages, Files, Versions
    <2>4. RevertsAlone'
      BY <1>0, <2>1, <2>2 DEF RevertsAlone, RunnerType, MigrateDownBegins, Reverting
    <2> QED
      BY <2>3, <2>4, RunnerStep DEF MigrateDownBegins
  <1> QED
    BY <1>1, <1>2

\* The check of a rollback only lets it go on or ends it.
LEMMA RevertChecksStep ==
    ASSUME IInv, NEW p \in Runners, RevertChecks(p)
    PROVE  IInv'
  <1>0. RunnerType /\ Reverting(p)
    BY DEF IInv, Types, RevertChecks, Reverting
  <1>1. CASE runner' = Ends(p)
    <2>1. /\ RunnerType' /\ runner'[p].stage = "idle"
          /\ \A q \in Runners \ {p} : runner'[q] = runner[q]
      BY <1>0, <1>1, EndsType DEF RunnerType
    <2>2. RevertsAlone'
      BY <1>0, <2>1, OtherStage DEF RevertChecks, Reverting
    <2> QED
      BY <2>1, <2>2, RunnerStep DEF RevertChecks
  <1>2. CASE runner' = [runner EXCEPT ![p].stage = "drops"]
    <2>1. RunnerType'
      BY <1>0, <1>2 DEF RunnerType, Stages
    <2>2. /\ runner'[p].file = runner[p].file
          /\ \A q \in Runners \ {p} : runner'[q] = runner[q]
      BY <1>0, <1>2 DEF RunnerType
    <2>3. RevertsAlone'
      BY <1>0, <2>2 DEF IInv, RevertsAlone, Reverting, RevertChecks
    <2> QED
      BY <2>1, <2>3, RunnerStep DEF RevertChecks
  <1> QED
    BY <1>1, <1>2 DEF RevertChecks

\* Reverting 001 leaves nothing that the tracking table would not tell of, for 002 was
\* reverted before, whatever was inserted since its check.
LEMMA RevertStep ==
    ASSUME IInv, NEW p \in Runners, Revert(p)
    PROVE  IInv'
  <1> DEFINE f == runner[p].file
  <1>0. /\ f \in {1, 2} /\ (f = 1 => tracking[2] = 0) /\ RunnerType
        /\ \A q \in Runners \ {p} : runner[q].stage = "idle"
    BY DEF IInv, Types, RevertsAlone, Revert, Reverting
  <1>1. /\ runner' = Ends(p)
        /\ tracking' = [tracking EXCEPT ![f] = 0]
        /\ schema' = IF f = 1 THEN [NoTable EXCEPT !.fn = schema.fn]
                              ELSE [schema EXCEPT !.indexes = 0]
        /\ rows' = IF f = 1 THEN NoRows ELSE rows
        /\ job' = IF f = 1 THEN [job EXCEPT !.promised = {}, !.void = TRUE] ELSE job
        /\ UNCHANGED <<disk, month>>
    BY DEF Revert
  <1>2. RunnerType' /\ \A q \in Runners : runner'[q].stage = "idle"
    BY <1>0, <1>1, EndsType DEF RunnerType
  <1>3. RevertsAlone'
    BY <1>2 DEF RevertsAlone, Reverting
  <1>4. DiskType' /\ RowsType' /\ month' \in Nat
    BY <1>1, FS_EmptySet DEF IInv, Types, DiskType, RowsType, NoRows
  <1>5. TrackingType' /\ SchemaType' /\ JobType'
    <2>1. 0 \in Versions
      BY DatabaseAssumption DEF Versions
    <2>2. TrackingType'
      BY <1>0, <1>1, <2>1 DEF IInv, Types, TrackingType
    <2>3. SchemaType'
      BY <1>0, <1>1, <2>1 DEF IInv, Types, SchemaType, NoTable
    <2>4. JobType'
      BY <1>0, <1>1 DEF IInv, Types, JobType
    <2> QED
      BY <2>2, <2>3, <2>4
  <1>6. TrackedIsApplied'
    BY <1>0, <1>1 DEF IInv, Types, TrackingType, SchemaType, TrackedIsApplied, NoTable, Files
  <1>7. DefaultIsApart' /\ PromisedIsThere' /\ JobProgress'
    <2>1. CASE f = 1
      BY <1>1, <2>1
         DEF IInv, Types, JobType, NoTable, NoRows, DefaultIsApart, PromisedIsThere, JobProgress
    <2>2. CASE f = 2
      BY <1>1, <2>2
         DEF IInv, Types, SchemaType, DefaultIsApart, PromisedIsThere, JobProgress
    <2> QED
      BY <1>0, <2>1, <2>2
  <1> QED
    BY <1>2, <1>3, <1>4, <1>5, <1>6, <1>7 DEF IInv, Types

\* Edits of files, rows and time.
LEMMA WorldStep ==
    ASSUME IInv,
           \/ \E f \in Edited : EditFile(f)
           \/ \E m \in {month, month + MonthsAhead + 1} : InsertRow(m)
           \/ Truncate
           \/ MonthPasses
    PROVE  IInv'
  <1> USE DEF IInv, Types, TrackingType, SchemaType, RunnerType, JobType,
              TrackedIsApplied, RevertsAlone, Reverting, DefaultIsApart, PromisedIsThere,
              JobProgress
  <1>1. ASSUME NEW f \in Edited, EditFile(f) PROVE IInv'
    <2>1. DiskType'
      BY <1>1, DatabaseAssumption DEF EditFile, DiskType, Files
    <2> QED
      BY <1>1, <2>1 DEF EditFile, RowsType
  <1>2. ASSUME NEW m \in {month, month + MonthsAhead + 1}, InsertRow(m) PROVE IInv'
    <2>1. m \in Nat
      BY DatabaseAssumption
    <2>2. RowsType' /\ DefaultIsApart'
      BY <1>2, <2>1, FS_AddElement DEF InsertRow, RowsType
    <2> QED
      BY <1>2, <2>2 DEF InsertRow, DiskType
  <1>3. CASE Truncate
    BY <1>3, FS_EmptySet DEF Truncate, RowsType, NoRows, DiskType
  <1>4. CASE MonthPasses
    BY <1>4 DEF MonthPasses, RowsType, DiskType
  <1> QED
    BY <1>1, <1>2, <1>3, <1>4

\* The maintenance job.  A month it created stays, unless the table goes, and then it
\* promises nothing.
LEMMA JobStep ==
    ASSUME IInv, JobBegins \/ JobCreates \/ JobCounts \/ JobFails
    PROVE  IInv'
  <1>0. /\ UNCHANGED <<disk, tracking, rows, month, runner>>
        /\ Types
    BY DEF IInv, JobBegins, JobCreates, JobCounts, JobFails
  <1>1. /\ DiskType' /\ TrackingType' /\ RowsType' /\ RunnerType' /\ month' \in Nat
        /\ RevertsAlone'
    BY <1>0 DEF IInv, Types, DiskType, TrackingType, RowsType, RunnerType, RevertsAlone, Reverting
  <1>2. 0 \in 0 .. MonthsAhead + 1
    BY DatabaseAssumption
  <1>3. CASE JobBegins
    <2> DEFINE found == rows.inDefault # {}
    <2>1. found \in BOOLEAN
      OBVIOUS
    <2>2. /\ UNCHANGED schema
          /\ job' = [job EXCEPT !.stage = "creates", !.from = month, !.offset = 0,
                                !.found = found, !.void = FALSE]
      BY <1>3 DEF JobBegins
    <2> HIDE DEF found
    <2>3. JobType' /\ job'.offset = 0 /\ job'.promised = job.promised
      BY <1>0, <1>2, <2>1, <2>2 DEF Types, JobType
    <2>4. JobProgress'
      BY <2>3 DEF JobProgress
    <2> QED
      BY <1>0, <1>1, <2>2, <2>3, <2>4
         DEF IInv, Types, SchemaType, TrackedIsApplied, DefaultIsApart, PromisedIsThere
  <1>4. CASE JobCreates
    <2> DEFINE m == job.from + job.offset
    <2>1. m \in Nat /\ job.offset \in 0 .. MonthsAhead
      BY <1>0, <1>4, DatabaseAssumption DEF JobCreates, Types, JobType, Offsets
    <2>2. CASE Creatable(schema, m)
      <3>1. /\ schema' = [schema EXCEPT !.months = @ \cup {m}]
            /\ job' = [job EXCEPT !.offset = @ + 1]
            /\ job.stage = "creates"
        BY <1>4, <2>2 DEF JobCreates
      <3>2. SchemaType' /\ schema'.months = schema.months \cup {m}
        BY <1>0, <2>1, <3>1 DEF Types, SchemaType
      <3>3. JobType' /\ job'.offset = job.offset + 1 /\ job'.from = job.from
        <4>1. job.offset + 1 \in 0 .. MonthsAhead + 1
          BY <2>1, DatabaseAssumption
        <4> QED
          BY <1>0, <3>1, <4>1 DEF Types, JobType
      <3>4. TrackedIsApplied' /\ DefaultIsApart' /\ PromisedIsThere'
        BY <1>0, <2>2, <3>1, <3>2
           DEF IInv, Types, SchemaType, JobType, TrackedIsApplied, DefaultIsApart,
               PromisedIsThere, Creatable
      <3>5. JobProgress'
        <4>1. job'.void = job.void
          BY <1>0, <3>1 DEF Types, JobType
        <4>2. ASSUME ~job.void, NEW i \in Nat, i < job.offset + 1
              PROVE  job.from + i \in schema'.months
          BY <2>1, <3>1, <3>2, <4>2 DEF IInv, JobProgress
        <4> QED
          BY <3>3, <4>1, <4>2 DEF JobProgress
      <3> QED
        BY <1>1, <3>2, <3>3, <3>4, <3>5 DEF IInv, Types
    <2>3. CASE ~Creatable(schema, m)
      <3>1. job' = JobOver("ended") /\ UNCHANGED schema
        BY <1>4, <2>3 DEF JobCreates
      <3>2. JobType' /\ job'.stage = "ended" /\ job'.promised = job.promised
        BY <1>0, <1>2, <3>1 DEF JobOver, Types, JobType
      <3> QED
        BY <1>0, <1>1, <3>1, <3>2
           DEF IInv, Types, SchemaType, TrackedIsApplied, DefaultIsApart, PromisedIsThere,
               JobProgress
    <2> QED
      BY <2>2, <2>3
  <1>5. CASE JobCounts
    <2>1. /\ UNCHANGED schema
          /\ job.stage = "creates"
          /\ job.offset = MonthsAhead + 1
      BY <1>0, <1>5, DatabaseAssumption DEF JobCounts, Offsets, Types, JobType
    <2>2. Cardinality(rows.inDefault) \in Nat
      BY <1>0, FS_CardinalityType DEF Types, RowsType
    <2>3. /\ job'.stage = "ended"
          /\ job' \in [stage : {"idle", "creates", "ended"}, from : Nat,
                       offset : 0 .. MonthsAhead + 1, gauge : Nat, found : BOOLEAN,
                       void : BOOLEAN, promised : SUBSET Nat]
          /\ job'.promised = IF job.void THEN job.promised
                             ELSE job.promised \cup job.from .. job.from + MonthsAhead
      <3>1. job.from .. job.from + MonthsAhead \in SUBSET Nat
        BY <1>0, DatabaseAssumption DEF Types, JobType
      <3> QED
        BY <1>0, <1>2, <1>5, <2>2, <3>1 DEF JobCounts, JobOver, Types, JobType
    <2>4. PromisedIsThere'
      <3>1. ASSUME ~job.void, NEW m \in job.from .. job.from + MonthsAhead
            PROVE  m \in schema.months
        <4>1. job.from \in Nat
          BY <1>0 DEF Types, JobType
        <4>2. m - job.from \in Nat /\ m - job.from < job.offset /\ job.from + (m - job.from) = m
          BY <2>1, <3>1, <4>1, DatabaseAssumption
        <4> QED
          BY <2>1, <3>1, <4>2 DEF IInv, JobProgress
      <3> QED
        BY <2>1, <2>3, <3>1 DEF IInv, PromisedIsThere
    <2> QED
      BY <1>0, <1>1, <2>1, <2>3, <2>4
         DEF IInv, Types, JobType, SchemaType, TrackedIsApplied, DefaultIsApart, JobProgress
  <1>6. CASE JobFails
    <2>1. PICK gauge \in {job.gauge, 0} : job' = [JobOver("idle") EXCEPT !.gauge = gauge]
      BY <1>6 DEF JobFails
    <2>2. UNCHANGED schema
      BY <1>6 DEF JobFails
    <2>3. JobType' /\ job'.stage = "idle" /\ job'.promised = job.promised
      <3>1. gauge \in Nat
        BY <1>0, <2>1 DEF Types, JobType
      <3> QED
        BY <1>0, <1>2, <2>1, <3>1 DEF JobOver, Types, JobType
    <2> QED
      BY <1>0, <1>1, <2>2, <2>3
         DEF IInv, Types, SchemaType, TrackedIsApplied, DefaultIsApart, PromisedIsThere,
             JobProgress
  <1> QED
    BY <1>3, <1>4, <1>5, <1>6

-----------------------------------------------------------------------------
\* Every step keeps the invariant.
LEMMA NextIInv ==
    ASSUME IInv, [DbNext]_dbVars
    PROVE  IInv'
  <1>1. CASE UNCHANGED dbVars
    BY <1>1
       DEF dbVars, IInv, Types, DiskType, TrackingType, SchemaType, RowsType, RunnerType,
           JobType, TrackedIsApplied, RevertsAlone, Reverting, DefaultIsApart, PromisedIsThere,
           JobProgress
  <1>2. ASSUME NEW p \in Runners, MigrateBegins(p) \/ Check(p) \/ MigrationFails(p)
        PROVE  IInv'
    BY <1>2, RunnerSteps
  <1>3. ASSUME NEW p \in Runners, Apply(p) PROVE IInv'
    BY <1>3, ApplyStep
  <1>4. ASSUME NEW p \in Runners, MigrateDownBegins(p) PROVE IInv'
    BY <1>4, MigrateDownBeginsStep
  <1>5. ASSUME NEW p \in Runners, RevertChecks(p) \/ Revert(p) PROVE IInv'
    BY <1>5, RevertChecksStep, RevertStep
  <1>6. CASE \/ \E f \in Edited : EditFile(f)
             \/ \E m \in {month, month + MonthsAhead + 1} : InsertRow(m)
             \/ Truncate \/ MonthPasses
    BY <1>6, WorldStep
  <1>7. CASE JobBegins \/ JobCreates \/ JobCounts \/ JobFails
    BY <1>7, JobStep
  <1> QED
    BY <1>1, <1>2, <1>3, <1>4, <1>5, <1>6, <1>7 DEF DbNext

\* The invariant holds in every reachable state, for any number of overlapping runs,
\* rollbacks, edits and jobs.
THEOREM Invariance == DbSpec => []IInv
  <1>1. DbInit => IInv
    BY InitIInv
  <1>2. IInv /\ [DbNext]_dbVars => IInv'
    BY NextIInv
  <1> QED
    BY <1>1, <1>2, PTL DEF DbSpec

\* Type correctness.
THEOREM TypeCorrect == DbSpec => []DbTypeOK
  <1>1. IInv => DbTypeOK
    BY DEF IInv, Types, DiskType, TrackingType, RunnerType, JobType, DbTypeOK, Versions
  <1> QED
    BY <1>1, Invariance, PTL

\* The tracking table tells what is in the schema, whatever overlaps or dies half way.
THEOREM TrackingIsTrue == DbSpec => []TrackedIsApplied
  <1>1. IInv => TrackedIsApplied
    BY DEF IInv
  <1> QED
    BY <1>1, Invariance, PTL

\* Rows of a month that was provided for are in its partition, where queries look.
THEOREM RowsAreFound == DbSpec => []RowsLandInTheirMonth
  <1>1. IInv => RowsLandInTheirMonth
    BY DEF IInv, DefaultIsApart, PromisedIsThere, RowsLandInTheirMonth
  <1> QED
    BY <1>1, Invariance, PTL

\* No run replaces what another applied: the primary key of the tracking table sees to it.
THEOREM NeverReplaced == DbSpec => AppliedIsNeverEdited
  <1> DEFINE Kept == \A f \in Files : tracking[f] # 0 /\ tracking'[f] # 0
                                         => tracking'[f] = tracking[f]
  <1>1. ASSUME IInv, [DbNext]_dbVars
        PROVE  [Kept]_dbVars
    <2>1. ASSUME NEW p \in Runners, Apply(p)
          PROVE  Kept
      BY <1>1, <2>1 DEF Apply, Conflicts, IInv, Types, TrackingType
    <2>2. ASSUME NEW p \in Runners, Revert(p)
          PROVE  Kept
      BY <1>1, <2>2 DEF Revert, IInv, Types, TrackingType
    <2>3. ASSUME UNCHANGED tracking
          PROVE  Kept
      BY <2>3
    <2> QED
      BY <1>1, <2>1, <2>2, <2>3
         DEF DbNext, MigrateBegins, Check, MigrationFails, MigrateDownBegins, RevertChecks, EditFile,
             InsertRow, Truncate, MonthPasses, JobBegins, JobCreates, JobCounts, JobFails
  <1> QED
    BY <1>1, Invariance, PTL DEF DbSpec, AppliedIsNeverEdited
=============================================================================
