-------------------------------- MODULE Replay --------------------------------
(***************************************************************************)
(* posta replay: the rows of a range of days are rebuilt from the log      *)
(* (cli/replay.ts, replay-driver.ts, replay-report.ts, r2/ndjson.ts), by   *)
(* runs that may be killed and repeated, beside the live flush and one     *)
(* another.                                                                *)
(*                                                                         *)
(* A log object is filed under the hour of its first event (r2/keys.ts);   *)
(* hours are left out, for a run reads whole days.  Its events are never   *)
(* changed, but each try of a flush PUTs it again, with destinations       *)
(* resolved anew (BatchFlush), so that a run may read one and a later run  *)
(* another.  The order of keys is the order of batch ids.                  *)
(***************************************************************************)
EXTENDS Integers, Sequences, FiniteSets, SequencesExt, Lexicographic

CONSTANTS
    Runs,        \* invocations of the tool
    Requests,    \* the arguments they may be given
    Log,         \* every log object there will be, by batch id: its day and the records it
                 \* has when it is PUT first
    Archived,    \* the objects that are in the log from the start, which no flush writes again
    Events,      \* the events of the records
    DayOf,       \* the day of each event
    Hosts,       \* what a later try of a flush may resolve a destination to
    TenantOf,    \* the tenant of each event
    AnyTenant,   \* no --tenant
    NewHost,     \* what resolving a destination today would give
    PageSize,    \* LIST_PAGE_SIZE
    MaxBatch,    \* MAX_BATCH_SIZE
    MaxDays,     \* MAX_RANGE_DAYS
    MaxLosses    \* bound: how often Postgres loses its rows

Record == [event : Events, host : STRING, kind : {"ok", "invalid", "corrupt"}]

ASSUME ReplayAssumption ==
    /\ PageSize \in Nat \ {0} /\ MaxBatch \in Nat \ {0} /\ MaxDays \in Nat
    /\ MaxLosses \in Nat
    /\ IsFiniteSet(Events) /\ {"nobody", "flush"} \cap Runs = {}
ASSUME LogAssumption ==
    /\ IsFiniteSet(DOMAIN Log) /\ DOMAIN Log \subseteq Nat \ {0}
    /\ Archived \subseteq DOMAIN Log
    /\ \A b \in DOMAIN Log : Log[b].day \in Nat /\ Log[b].records \in Seq(Record)
    /\ Hosts \subseteq STRING
\* eventBatchKey: an object has a first record, and is filed under its day.
ASSUME FilingAssumption ==
    \A b \in DOMAIN Log :
        /\ Log[b].records # <<>>
        /\ Log[b].day = DayOf[Head(Log[b].records).event]
\* replayWithReport has no tenant to ask for.
ASSUME RequestsAssumption ==
    \A args \in Requests :
        /\ args.from \in Nat /\ args.to \in Nat /\ args.batch \in Int
        /\ args.mode \in {"replay", "report", "dry"}
        /\ args.mode = "report" => args.tenant = AnyTenant

VARIABLES
    objects,   \* batch ids of the objects in the log
    says,      \* the records of each object, as it is PUT next or was PUT last
    said,      \* history: every record that each object has had
    rows,      \* events with a row, its dest_host and who wrote it
    losses,    \* how often the rows were lost
    run        \* the runs

logVars == <<objects, says, said>>
vars == <<objects, says, said, rows, losses, run>>

NoRow == [host |-> "none", by |-> "nobody"]
HasRow(e) == rows[e] # NoRow

NoCounts == [parsed |-> 0, inserted |-> 0, skipped |-> 0]

\* seen is what was under a run's days when it began, age how often rows had been lost.
Idle == [stage |-> "idle", args |-> <<>>, day |-> 0, token |-> 0, truncated |-> FALSE,
         page |-> {}, lines |-> <<>>, buffer |-> <<>>, counts |-> NoCounts, exit |-> -1,
         seen |-> {}, age |-> 0]

Init ==
    /\ objects = Archived
    /\ says = [b \in DOMAIN Log |-> Log[b].records]
    /\ said = [b \in DOMAIN Log |-> ToSet(Log[b].records)]
    /\ rows = [e \in Events |-> NoRow]
    /\ losses = 0
    /\ run = [r \in Runs |-> Idle]

-----------------------------------------------------------------------------
\* The first record of an event in a batch.
FirstOf(batch, e) ==
    batch[CHOOSE i \in DOMAIN batch :
             /\ batch[i].event = e
             /\ \A j \in DOMAIN batch : batch[j].event = e => i <= j]

\* INSERT ... ON CONFLICT (event_id) DO NOTHING, one row after the other.
InsertEventsBatch(table, batch, by) ==
    [e \in Events |->
        IF table[e] = NoRow /\ \E rec \in ToSet(batch) : rec.event = e
        THEN [host |-> FirstOf(batch, e).host, by |-> by]
        ELSE table[e]]

EventsOf(b) == {rec.event : rec \in ToSet(Log[b].records)}

\* The records of an object, with destinations resolved anew.
Resolved(records, hostOf) ==
    [i \in DOMAIN records |-> [records[i] EXCEPT !.host = hostOf[records[i].event]]]

\* The live flush PUTs an object.
Put(b) ==
    /\ b \notin objects
    /\ objects' = objects \cup {b}
    /\ UNCHANGED <<says, said, rows, losses, run>>

\* The next try of the flush resolves the destinations anew and PUTs the object again, in
\* the place of what is there.
PutAgain(b) ==
    /\ b \in objects \ Archived
    /\ \E hostOf \in [EventsOf(b) -> Hosts] :
          says' = [says EXCEPT ![b] = Resolved(Log[b].records, hostOf)]
    /\ said' = [said EXCEPT ![b] = @ \cup ToSet(says'[b])]
    /\ UNCHANGED <<objects, rows, losses, run>>

\* And then INSERTs what it put (BatchFlush: InsertedAsLogged).
Insert(b) ==
    /\ b \in objects \ Archived
    /\ rows' = InsertEventsBatch(rows, says[b], "flush")
    /\ rows' # rows
    /\ UNCHANGED <<logVars, losses, run>>

\* Postgres loses its rows: what replay is there for.
Lose ==
    /\ losses < MaxLosses /\ \E e \in Events : HasRow(e)
    /\ losses' = losses + 1
    /\ rows' = [e \in Events |-> NoRow]
    /\ UNCHANGED <<logVars, run>>

-----------------------------------------------------------------------------
\* eventPrefixes: all of every day from the first to the last.
EventPrefixes(args) == args.from .. args.to

Under(days) == {b \in objects : Log[b].day \in days}

\* What parseReplayArgs and eventPrefixes refuse: days out of order, a batch larger than
\* the live flush's, a range that can only be a typing error.
ArgumentsError(args) ==
    \/ args.from > args.to
    \/ args.batch \notin 1 .. MaxBatch
RangeError(args) == args.to - args.from + 1 > MaxDays

\* The log's address: R2_ENDPOINT as it is, or what R2_ACCOUNT_ID says if it is well formed.
ResolvesEndpoint(args) == args.endpoint \/ args.account = "id"

\* The environment schema asks for one of the two, not for an account that is well formed.
EnvironmentError(args) == ~args.endpoint /\ args.account \in {"none", "blank"}

\* Why an invocation ends before its first LIST: 1 for what it was given, 2 for what fails
\* while it sets up.
Refusal(args) ==
    CASE EnvironmentError(args)      -> 1
      [] ~ResolvesEndpoint(args)     -> 2
      [] ArgumentsError(args)        -> 1
      [] RangeError(args)            -> 2
      [] OTHER                       -> 0

Exits(r, code) ==
    run' = [run EXCEPT ![r] = [Idle EXCEPT !.stage = "exited", !.args = run[r].args,
                                           !.exit = code,
                                           !.counts = [NoCounts EXCEPT !.inserted = run[r].counts.inserted],
                                           !.seen = run[r].seen, !.age = run[r].age]]

\* runReplayCli and replayWithReport, up to the first LIST.
Start(r) ==
    /\ run[r].stage = "idle"
    /\ \E args \in Requests :
          run' = [run EXCEPT ![r] =
                    IF Refusal(args) # 0
                    THEN [@ EXCEPT !.stage = "exited", !.args = args, !.exit = Refusal(args)]
                    ELSE [@ EXCEPT !.stage = "running", !.args = args, !.day = args.from,
                                   !.truncated = TRUE,
                                   !.seen = Under(EventPrefixes(args)), !.age = losses]]
    /\ UNCHANGED <<logVars, rows, losses>>

\* Bug: a buffer is flushed when it is over full.
FullOneLate(r) == Len(run[r].buffer) > run[r].args.batch

\* A buffer is flushed when it is full, before the next record is read.
Full(r) == Len(run[r].buffer) >= run[r].args.batch

\* The page is done.
NeedsKeys(r) ==
    /\ run[r].stage = "running" /\ ~Full(r)
    /\ run[r].lines = <<>> /\ run[r].page = {}

\* The stream is done.
AtEnd(r) == NeedsKeys(r) /\ ~run[r].truncated /\ run[r].day = run[r].args.to

\* Bug: IsTruncated is not looked at, another page is always asked for.
TruncatedAlways(keys) == TRUE

\* IsTruncated: there are more keys than the page holds.
IsTruncated(keys) == Cardinality(keys) > PageSize

\* The first PageSize of some keys.
FirstPage(keys) == {b \in keys : Cardinality({c \in keys : c < b}) < PageSize}

\* Bug: the next page is asked for without the token.
TokenNotSent(r) == 0

\* Where a LIST begins: after the last key of the page before.
ContinuationToken(r) == IF run[r].truncated THEN run[r].token ELSE 0

\* ListObjectsV2, for the next page of the day or for the next day: the first keys after
\* the continuation token.
ListObjectKeys(r) ==
    LET day == IF run[r].truncated THEN run[r].day ELSE run[r].day + 1
        token == ContinuationToken(r)
        keys == {b \in Under({day}) : b > token}
    IN  /\ NeedsKeys(r) /\ ~AtEnd(r)
        /\ run' = [run EXCEPT ![r] = [@ EXCEPT !.day = day, !.token = token,
                                               !.page = FirstPage(keys),
                                               !.truncated = IsTruncated(keys)]]
        /\ UNCHANGED <<logVars, rows, losses>>

\* streamRecordsFromObject: the next object of the page is read.
GetObject(r) ==
    /\ run[r].stage = "running" /\ ~Full(r) /\ run[r].lines = <<>>
    /\ \E b \in run[r].page :
          /\ \A c \in run[r].page : b <= c
          /\ run' = [run EXCEPT ![r].page = @ \ {b}, ![r].token = b,
                                ![r].lines = says[b]]
    /\ UNCHANGED <<logVars, rows, losses>>

\* Bug: the rows are filtered where they are counted, not where they are buffered.
MatchesAnyTenant(args, rec) == TRUE

Matches(args, rec) == args.tenant \in {AnyTenant, TenantOf[rec.event]}

\* Bug: the destination is resolved as a flush would resolve it.
ToRowResolvedAnew(rec) == [event |-> rec.event, host |-> NewHost, kind |-> rec.kind]

\* toNewEventRow: the columns of the log, dest_host among them.
ToNewEventRow(rec) == rec

\* The next line: parsed, filtered or validated, and buffered.  Only a report validates.
ReadRecord(r) ==
    LET args == run[r].args
        rec == Head(run[r].lines)
        rejected == args.mode = "report" /\ rec.kind = "invalid"
        buffered == IF args.mode = "dry" \/ rejected \/ ~Matches(args, rec)
                    THEN run[r].buffer
                    ELSE Append(run[r].buffer, ToNewEventRow(rec))
    IN  /\ run[r].stage = "running" /\ ~Full(r) /\ run[r].lines # <<>>
        /\ IF rec.kind = "corrupt"
           THEN Exits(r, 2)
           ELSE run' = [run EXCEPT ![r].lines = Tail(@), ![r].buffer = buffered,
                                   ![r].counts.parsed = IF rejected THEN @ ELSE @ + 1]
        /\ UNCHANGED <<logVars, rows, losses>>

\* Bug: every row that was not there before the statement counts as inserted, also the
\* second of two that are the same.
InsertedButForPresent(batch) == Len(SelectSeq(batch, LAMBDA rec : ~HasRow(rec.event)))

\* RETURNING event_id: one for every row the statement inserted.
InsertedEventIds(batch) ==
    Cardinality({rec.event : rec \in ToSet(batch)} \ {e \in Events : HasRow(e)})

\* Bug: the last, partial batch is forgotten.
FlushesFullOnly(r) == Full(r)

\* A buffer is flushed when it is full, and what is left of it at the end.
Flushes(r) == run[r].buffer # <<>> /\ (Full(r) \/ AtEnd(r))

\* flushBuffer.  Postgres refuses a row that lacks a column, and its whole batch with it.
FlushBuffer(r) ==
    LET batch == run[r].buffer
        inserted == InsertedEventIds(batch)
    IN  /\ run[r].stage = "running" /\ Flushes(r)
        /\ IF \E rec \in ToSet(batch) : rec.kind = "invalid"
           THEN Exits(r, 2) /\ UNCHANGED rows
           ELSE /\ rows' = InsertEventsBatch(rows, batch, r)
                /\ run' = [run EXCEPT ![r].buffer = <<>>,
                           ![r].counts = [parsed |-> @.parsed,
                                          inserted |-> @.inserted + inserted,
                                          skipped |-> @.skipped + Len(batch) - inserted]]
        /\ UNCHANGED <<logVars, losses>>

\* buildReplayReport: a report that does not add up is an exit code of its own.
Reconciled(counts) == counts.inserted + counts.skipped = counts.parsed

Finish(r) ==
    /\ AtEnd(r) /\ ~Flushes(r)
    /\ Exits(r, IF run[r].args.mode = "report" /\ ~Reconciled(run[r].counts) THEN 3 ELSE 0)
    /\ UNCHANGED <<logVars, rows, losses>>

Running(r) == run[r].stage = "running"

\* R2 or Postgres fails, or the run is killed: it ends where it is, whatever it inserted
\* stays, and its exit code is not 0.
Fault(r) ==
    /\ Running(r)
    /\ Exits(r, 2)
    /\ UNCHANGED <<logVars, rows, losses>>

Step(r) == ListObjectKeys(r) \/ GetObject(r) \/ ReadRecord(r) \/ FlushBuffer(r) \/ Finish(r)

Next ==
    \/ \E b \in DOMAIN Log : Put(b) \/ PutAgain(b) \/ Insert(b)
    \/ Lose
    \/ \E r \in Runs : Start(r) \/ Step(r) \/ Fault(r)

\* A run that is not ended goes on; nothing else has to happen.
Spec == Init /\ [][Next]_vars /\ \A r \in Runs : WF_vars(Step(r))

-----------------------------------------------------------------------------
\* Every variable has its type, an object keeps its events, and no buffer grows past the batch it was asked for.
TypeOK ==
    /\ objects \subseteq DOMAIN Log
    /\ \A b \in DOMAIN Log : DOMAIN says[b] = DOMAIN Log[b].records
    /\ \A e \in Events : rows[e] = NoRow \/ rows[e].by \in Runs \cup {"flush"}
    /\ losses \in 0 .. MaxLosses
    /\ \A r \in Runs :
          /\ run[r].stage \in {"idle", "running", "exited"}
          /\ run[r].exit \in {-1, 0, 1, 2, 3}
          /\ run[r].seen \subseteq objects
          /\ Running(r) => Len(run[r].buffer) <= run[r].args.batch

\* A run that exits with 0 leaves a row for every record it was asked for that was in the
\* log when it began, whatever ran beside it and whatever was killed before it; unless the
\* rows were lost once more.
ReplayRebuilds ==
    \A r \in Runs :
        run[r].exit = 0 /\ run[r].args.mode # "dry" /\ run[r].age = losses =>
            \A b \in run[r].seen : \A rec \in ToSet(Log[b].records) :
                rec.kind = "ok" /\ Matches(run[r].args, rec) => HasRow(rec.event)

\* What the runbook says of a range (docs/runbooks/replay.md, 5: "makes Postgres match what R2
\* already has for a range"): after a run that exits with 0 every event of its days that was
\* archived has its row.
RangeIsRebuilt ==
    \A r \in Runs :
        run[r].exit = 0 /\ run[r].args.mode # "dry" /\ run[r].age = losses =>
            \A b \in Archived : \A rec \in ToSet(Log[b].records) :
                /\ rec.kind = "ok" /\ Matches(run[r].args, rec)
                /\ DayOf[rec.event] \in EventPrefixes(run[r].args)
                => HasRow(rec.event)

\* Every row says what some object of the log has said of its event, whether a flush or a
\* run wrote it, however often the object was overwritten between being read and being
\* inserted: a rebuild resolves nothing (replay-driver.ts: toNewEventRow of what is logged).
\* It need not be what the object says now: BatchFlush, RowsAreWhatTheLogSays.
RowsComeFromTheLog ==
    \A e \in Events : HasRow(e) =>
        \E b \in objects : \E rec \in said[b] :
            rec.event = e /\ rec.host = rows[e].host

\* A report adds up, and the rows it counts as inserted are those it wrote, not those of
\* a live flush or of another run.
ReportIsExact ==
    \A r \in Runs :
        /\ run[r].exit # 3
        /\ run[r].stage # "idle" /\ run[r].age = losses =>
              run[r].counts.inserted = Cardinality({e \in Events : rows[e].by = r})

\* A run writes rows of its tenant and of objects under its days only, and none in a dry run.
WritesWhatWasAsked ==
    \A e \in Events : rows[e].by \in Runs =>
        LET args == run[rows[e].by].args
        IN  /\ args.mode # "dry"
            /\ args.tenant \in {AnyTenant, TenantOf[e]}
            /\ \E b \in Under(args.from .. args.to) :
                  \E rec \in ToSet(Log[b].records) : rec.event = e

\* Every run ends, however many objects are added while it reads.
ReplayEnds ==
    \A r \in Runs : []<>~Running(r)

\* How far a run is: the day and the last object it began to read, what it still has to read
\* of it, whether it has to LIST this day again, and what it still has to insert.
Stand(r) ==
    <<run[r].day, run[r].token, -Len(run[r].lines),
      IF run[r].truncated /\ run[r].page = {} THEN 0 ELSE 1,
      -Len(run[r].buffer)>>

\* Each step brings a run further or ends it: no object is read twice and no LIST repeated,
\* whatever is added to the log, inserted or lost meanwhile (r2/ndjson.ts: the continuation
\* token; replay-driver.ts: the buffer).
EveryStepAdvances ==
    [][\A r \in Runs : Step(r) =>
         run'[r].stage = "exited" \/ Before(Stand(r), Stand(r)')]_vars

=============================================================================
