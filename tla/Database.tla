------------------------------- MODULE Database -------------------------------
(***************************************************************************)
(* The events table: the hand-written migrations 001 to 005 and their      *)
(* runner (core/db/sql-migrate.ts, migrate.ts, migrate-down.ts), the       *)
(* monthly partitions (core/db/partitions.ts) and the job that creates     *)
(* them ahead of need (worker/partitions/partition-maintenance.job.ts).    *)
(*                                                                         *)
(* A file has versions, of which the checksum is the number; what a file   *)
(* creates carries the version that created it, 0 if it is not there.      *)
(***************************************************************************)
EXTENDS Integers, FiniteSets

CONSTANTS
    Runners,       \* those who run migrate and migrate:down
    MonthsAhead,   \* MONTHS_AHEAD
    MaxMonth,      \* bound: the last month
    Edited,        \* bound: the migration files that may be edited, one of them
    MaxEdits       \* bound: how often

ASSUME DatabaseAssumption ==
    MonthsAhead \in Nat \ {0} /\ MaxMonth \in Nat /\ MaxEdits \in Nat
    /\ Edited \subseteq 1 .. 5

VARIABLES
    disk,       \* version of each file
    tracking,   \* _posta_sql_migrations: version of each applied file, or 0
    schema,     \* events and what belongs to it
    rows,       \* months of the rows in their partition, and in events_default
    month,      \* the current month
    runner,     \* what they run
    job         \* the maintenance job

dbVars == <<disk, tracking, schema, rows, month, runner, job>>

\* 001 events, 002 indexes, 003 create_events_partition, 004 events_default, 005 bootstrap.
Files == 1 .. 5

NoTable == [events |-> 0, indexes |-> 0, fn |-> 0, default |-> 0, months |-> {}]
NoRows == [inMonth |-> {}, inDefault |-> {}]

\* promised are the months that the bootstrap or a job that ended well has provided for,
\* found is whether there were rows in events_default when the job began, void whether the
\* table was dropped under it.
NoJob == [stage |-> "idle", from |-> 0, offset |-> 0, gauge |-> 0, found |-> FALSE,
          void |-> FALSE, promised |-> {}]

DbInit ==
    /\ disk = [f \in Files |-> 1]
    /\ tracking = [f \in Files |-> 0]
    /\ schema = NoTable
    /\ rows = NoRows
    /\ month = 1
    /\ runner = [p \in Runners |-> [stage |-> "idle", file |-> 1, version |-> 0]]
    /\ job = NoJob

-----------------------------------------------------------------------------
\* create_events_partition: no month can be split off a default partition that has rows
\* of it; a month that is there already is left alone.
Creatable(s, m) == s.fn # 0 /\ s.events # 0 /\ (m \in s.months \/ m \notin rows.inDefault)

\* Bug: the last of the months ahead is left out.
OffsetsBelow == 0 .. MonthsAhead - 1

\* The current month and every one of the months ahead.
Offsets == 0 .. MonthsAhead

\* What the SQL of a file needs, and what it makes of the schema.
Runs(f) ==
    CASE f = 1 -> schema.events = 0
      [] f = 2 -> schema.events # 0 /\ schema.indexes = 0
      [] f = 3 -> TRUE
      [] f = 4 -> schema.events # 0 /\ schema.default = 0
      [] f = 5 -> \A i \in 0 .. MonthsAhead : Creatable(schema, month + i)

Result(f, v) ==
    CASE f = 1 -> [schema EXCEPT !.events = v]
      [] f = 2 -> [schema EXCEPT !.indexes = v]
      [] f = 3 -> [schema EXCEPT !.fn = v]
      [] f = 4 -> [schema EXCEPT !.default = v]
      [] f = 5 -> [schema EXCEPT !.months = @ \cup {month + i : i \in 0 .. MonthsAhead}]

\* An invocation is over, well or not, and there may be another one.
Ends(p) == [runner EXCEPT ![p] = [stage |-> "idle", file |-> 1, version |-> 0]]

\* Bug: a run goes on to a file that is not there.
NextFileUnbounded(p) ==
    [runner EXCEPT ![p] = [stage |-> "checks", file |-> @.file + 1, version |-> 0]]

\* The files in the order of their names, and then the run is done.
NextFile(p) ==
    IF runner[p].file = 5 THEN Ends(p)
    ELSE [runner EXCEPT ![p] = [stage |-> "checks", file |-> @.file + 1, version |-> 0]]

\* Several runs of migrate may overlap; migrate:down runs alone.
Busy(p) == runner[p].stage # "idle"
Reverting(p) == runner[p].stage \in {"reverts", "drops"}

MigrateBegins(p) ==
    /\ ~Busy(p)
    /\ \A q \in Runners : ~Reverting(q)
    /\ runner' = [runner EXCEPT ![p].stage = "checks"]
    /\ UNCHANGED <<disk, tracking, schema, rows, month, job>>

\* The file is read and its tracking row selected: applied and the same, applied and
\* edited since, or not applied.
Check(p) ==
    LET f == runner[p].file
    IN  /\ runner[p].stage = "checks"
        /\ runner' = IF tracking[f] = disk[f] THEN NextFile(p)
                     ELSE IF tracking[f] # 0 THEN Ends(p)
                     ELSE [runner EXCEPT ![p].stage = "applies", ![p].version = disk[f]]
        /\ UNCHANGED <<disk, tracking, schema, rows, month, job>>

\* Bug: the tracking row is upserted.
NeverConflicts(f) == FALSE

\* The primary key of the tracking table: another run was first.
Conflicts(f) == tracking[f] # 0

\* The SQL and the tracking row in one transaction.
Apply(p) ==
    LET f == runner[p].file
        v == runner[p].version
    IN  /\ runner[p].stage = "applies"
        /\ IF Runs(f) /\ ~Conflicts(f)
           THEN /\ schema' = Result(f, v)
                /\ tracking' = [tracking EXCEPT ![f] = v]
                /\ runner' = NextFile(p)
                /\ job' = IF f = 5 THEN [job EXCEPT !.promised = @ \cup month .. month + MonthsAhead]
                                   ELSE job
           ELSE runner' = Ends(p) /\ UNCHANGED <<schema, tracking, job>>
        /\ UNCHANGED <<disk, rows, month>>

\* Only 001 and 002 have a .down.sql.
Revertible == {f \in {1, 2} : tracking[f] # 0}

\* Bug: the order of the files' names, as of migrate.
OldestRevertible == IF 1 \in Revertible THEN 1 ELSE 2

\* findNewestRevertibleMigration.
NewestRevertible == IF 2 \in Revertible THEN 2 ELSE 1

MigrateDownBegins(p) ==
    /\ \A q \in Runners : ~Busy(q)
    /\ runner' = IF Revertible = {} THEN Ends(p)
                 ELSE [runner EXCEPT ![p] = [stage |-> "reverts", version |-> 0,
                                             file |-> NewestRevertible]]
    /\ UNCHANGED <<disk, tracking, schema, rows, month, job>>

\* 001_events.down.sql refuses to drop rows; no caller of migrate:down forces it.
Refuses(f) == f = 1 /\ (schema.events = 0 \/ rows # NoRows)

\* Its first statement looks for them.
RevertChecks(p) ==
    /\ runner[p].stage = "reverts"
    /\ runner' = IF Refuses(runner[p].file) THEN Ends(p)
                 ELSE [runner EXCEPT ![p].stage = "drops"]
    /\ UNCHANGED <<disk, tracking, schema, rows, month, job>>

\* What that SELECT read stays locked until the DROP, against all but reads and INSERTs.
TableIsLocked == \E p \in Runners : runner[p].stage = "drops" /\ runner[p].file = 1

\* downSqlMigration: the DROP and the end of the tracking row in the same transaction.  DROP
\* TABLE events takes its partitions and its indexes along, and the rows that were inserted
\* since the check.
Revert(p) ==
    LET f == runner[p].file
    IN  /\ runner[p].stage = "drops"
        /\ runner' = Ends(p)
        /\ tracking' = [tracking EXCEPT ![f] = 0]
        /\ IF f = 1
           THEN /\ schema' = [NoTable EXCEPT !.fn = schema.fn]
                /\ rows' = NoRows
                /\ job' = [job EXCEPT !.promised = {}, !.void = TRUE]
           ELSE schema' = [schema EXCEPT !.indexes = 0] /\ UNCHANGED <<rows, job>>
        /\ UNCHANGED <<disk, month>>

\* Postgres fails or the process dies: no transaction is half done.
MigrationFails(p) ==
    /\ Busy(p)
    /\ runner' = Ends(p)
    /\ UNCHANGED <<disk, tracking, schema, rows, month, job>>

\* Somebody edits a migration file.
EditFile(f) ==
    /\ disk[f] <= MaxEdits
    /\ \A g \in Files \ {f} : disk[g] = 1
    /\ disk' = [disk EXCEPT ![f] = @ + 1]
    /\ UNCHANGED <<tracking, schema, rows, month, runner, job>>

-----------------------------------------------------------------------------
\* An INSERT of the flush, of this month or of a clock that runs ahead.  A row for which
\* there is no partition at all is refused, and changes nothing.
InsertRow(m) ==
    /\ schema.events # 0
    /\ \/ m \in schema.months /\ rows' = [rows EXCEPT !.inMonth = @ \cup {m}]
       \/ m \notin schema.months /\ schema.default # 0
          /\ rows' = [rows EXCEPT !.inDefault = @ \cup {m}]
    /\ UNCHANGED <<disk, tracking, schema, month, runner, job>>

\* An operator empties the table.
Truncate ==
    /\ ~TableIsLocked
    /\ schema.events # 0 /\ rows # NoRows
    /\ rows' = NoRows
    /\ UNCHANGED <<disk, tracking, schema, month, runner, job>>

MonthPasses ==
    /\ month < MaxMonth
    /\ month' = month + 1
    /\ UNCHANGED <<disk, tracking, schema, rows, runner, job>>

\* processPartitionMaintenanceJob, on the day's schedule.
JobBegins ==
    /\ job.stage \in {"idle", "ended"}
    /\ job' = [job EXCEPT !.stage = "creates", !.from = month, !.offset = 0,
                          !.found = rows.inDefault # {}, !.void = FALSE]
    /\ UNCHANGED <<disk, tracking, schema, rows, month, runner>>

JobOver(stage) == [job EXCEPT !.stage = stage, !.from = 0, !.offset = 0, !.void = FALSE]

\* ensurePartitionsAhead creates one month after the other and stops at the first that
\* fails; the job is failed then, and its gauge is what it was.
JobCreates ==
    LET m == job.from + job.offset
    IN  /\ job.stage = "creates" /\ job.offset \in Offsets /\ ~TableIsLocked
        /\ IF Creatable(schema, m)
           THEN /\ schema' = [schema EXCEPT !.months = @ \cup {m}]
                /\ job' = [job EXCEPT !.offset = @ + 1]
           ELSE job' = JobOver("ended") /\ UNCHANGED schema
        /\ UNCHANGED <<disk, tracking, rows, month, runner>>

\* countDefaultPartitionRows sets the gauge.
JobCounts ==
    /\ job.stage = "creates" /\ job.offset \notin Offsets
    /\ job' = [JobOver("ended") EXCEPT
                  !.gauge = Cardinality(rows.inDefault),
                  !.promised = IF job.void THEN @
                               ELSE @ \cup job.from .. job.from + MonthsAhead]
    /\ UNCHANGED <<disk, tracking, schema, rows, month, runner>>

\* Postgres fails, or the worker dies and its gauge with it: the next day's job starts anew.
JobFails ==
    /\ job.stage = "creates"
    /\ \E gauge \in {job.gauge, 0} : job' = [JobOver("idle") EXCEPT !.gauge = gauge]
    /\ UNCHANGED <<disk, tracking, schema, rows, month, runner>>

DbNext ==
    \/ \E p \in Runners : \/ MigrateBegins(p) \/ Check(p) \/ Apply(p)
                          \/ MigrateDownBegins(p) \/ RevertChecks(p)
                          \/ Revert(p) \/ MigrationFails(p)
    \/ \E f \in Edited : EditFile(f)
    \/ \E m \in {month, month + MonthsAhead + 1} : InsertRow(m)
    \/ Truncate \/ MonthPasses
    \/ JobBegins \/ JobCreates \/ JobCounts \/ JobFails

DbSpec == DbInit /\ [][DbNext]_dbVars

-----------------------------------------------------------------------------
\* Every variable has its type.
DbTypeOK ==
    /\ disk \in [Files -> 1 .. MaxEdits + 1]
    /\ tracking \in [Files -> 0 .. MaxEdits + 1]
    /\ \A p \in Runners : runner[p].file \in Files /\ runner[p].version \in 0 .. MaxEdits + 1
    /\ job.offset \in 0 .. MonthsAhead + 1

\* Whatever overlaps or dies half way, the tracking table tells what version made what is
\* in the schema, and nothing is in the schema that it does not tell of.  (It does not
\* notice that events_default went with its table.)
TrackedIsApplied ==
    /\ schema.events = tracking[1] /\ schema.indexes = tracking[2] /\ schema.fn = tracking[3]
    /\ schema.default \in {0, tracking[4]}

\* No run replaces what another applied: a version changes only by being reverted first.
AppliedIsNeverEdited ==
    [][\A f \in Files : tracking[f] # 0 /\ tracking'[f] # 0 => tracking'[f] = tracking[f]]_dbVars

\* No row of a month that a job that ended well has provided for is in events_default,
\* where no query that is pruned to its month looks.
RowsLandInTheirMonth == rows.inDefault \cap job.promised = {}

\* What the maintenance job says of itself: every run sets the gauge to the row count, so
\* that rows in events_default do not go unnoticed, once the migrations are done.
DefaultRowsAreReported ==
    tracking[5] # 0 /\ job.stage = "ended" /\ job.found /\ rows.inDefault # {} => job.gauge > 0
=============================================================================
