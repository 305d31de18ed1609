------------------------------ MODULE BatchFlush ------------------------------
(***************************************************************************)
(* The worker's production flush (apps/worker/src/app.module.ts,           *)
(* buildProductionFlush): retryWithSplit around flushBatch, followed by    *)
(* sendPoisonEventsToDlq.                                                  *)
(*                                                                         *)
(* One call of it receives a batch of events and a batch id.  It tries the *)
(* whole batch; each try reads the link destinations from Postgres, PUTs   *)
(* one NDJSON object to R2 and only then INSERTs the rows.  A batch whose  *)
(* last error blames a row is split in two halves, each tried in turn with *)
(* an id derived from its parent's, until the poison rows stand alone.     *)
(*                                                                         *)
(* Several calls run at once: the accumulator hands over a batch while the *)
(* previous one is still being flushed, and a job whose lock expired is    *)
(* delivered again while its first delivery is still running, so two calls *)
(* may hold the same event.                                                *)
(*                                                                         *)
(* R2, Postgres, the dead-letter queue and the link table are outside this *)
(* code and modelled by what a call to them may do: succeed, fail without  *)
(* effect, or take effect and fail to answer.                              *)
(***************************************************************************)
EXTENDS Integers, Sequences, Lexicographic

CONSTANTS
    Events,               \* capture events, by event_id
    Poison,               \* events whose row Postgres refuses (SQLSTATE class 22 or 23)
    Calls,                \* flush calls, by batch id: newId() makes each one unique
    Batches,              \* the batches the accumulator may hand to a call
    MaxAttemptsPerBatch,  \* SPLIT_RETRY_MAX_ATTEMPTS_PER_BATCH
    MaxPutAttempts,       \* DEFAULT_R2_MAX_ATTEMPTS
    MaxFaults,            \* bound: infrastructure faults in one behaviour
    MaxEdits              \* bound: edits of a link's destination in one behaviour

ASSUME PoisonAssumption == Poison \subseteq Events
\* The accumulator only hands over a batch that an add() opened: never an empty one.
ASSUME BatchesAssumption == Batches \subseteq Seq(Events) \ {<<>>}
\* validateOptions in split-retry.ts and r2-retry.ts throws otherwise.
ASSUME AttemptsAssumption == /\ MaxAttemptsPerBatch \in Nat \ {0}
                             /\ MaxPutAttempts \in Nat \ {0}
ASSUME BoundsAssumption == MaxFaults \in Nat /\ MaxEdits \in Nat

VARIABLES
    pc,          \* where each call stands
    batch,       \* the events of each call, in order of arrival
    pending,     \* the sub-batches of a call that are still to be settled
    attempt,     \* attemptBatch's loop counter for the sub-batch being tried
    putAttempt,  \* retryR2Put's loop counter
    verdict,     \* classifyFlushError of the sub-batch's last error
    poisoned,    \* positions of the events isolated as poison, not yet dead-lettered
    host,        \* the destination this try resolved (dest_host of its rows)
    r2,          \* the R2 event log: its objects
    pg,          \* the events table: its rows
    dlq,         \* the entries of the dead-letter queue
    links,       \* the link table: how often the destination was edited
    faults       \* infrastructure faults so far

callVars == <<pc, batch, pending, attempt, putAttempt, verdict, poisoned, host>>
vars == <<pc, batch, pending, attempt, putAttempt, verdict, poisoned, host,
          r2, pg, dlq, links, faults>>

-----------------------------------------------------------------------------
(***************************************************************************)
(* A sub-batch is the slice lo..hi of its call's batch and the suffix its  *)
(* id carries: <<>> for the whole batch, then .0 and .1 for the halves.    *)
(***************************************************************************)
SubBatch == [lo : Nat, hi : Nat, path : Seq({0, 1})]

Whole(b) == [lo |-> 1, hi |-> Len(b), path |-> <<>>]

Slice(c, f) == {batch[c][i] : i \in f.lo .. f.hi}

Size(f) == f.hi - f.lo + 1

\* Bug: two halves that share an id.
SharedId(path, half) == Append(path, 0)

HalfId(path, half) == Append(path, half)

\* Bug: rounded up twice, so that the left half of a pair is the pair.
LastOfLeftRoundsTwice(f) == f.lo + (Size(f) \div 2 + 1) - 1

\* Math.ceil(events.length / 2) events go to the left half.
LastOfLeft(f) == f.lo + ((Size(f) + 1) \div 2) - 1

LeftHalf(f) ==
    [lo |-> f.lo, hi |-> LastOfLeft(f), path |-> HalfId(f.path, 0)]

\* Bug: the right half starts one event late.
RightHalfSkipsOne(f) ==
    [lo |-> LastOfLeft(f) + 2, hi |-> f.hi, path |-> HalfId(f.path, 1)]

RightHalf(f) ==
    [lo |-> LastOfLeft(f) + 1, hi |-> f.hi, path |-> HalfId(f.path, 1)]

\* The recursion settles the left half completely before the right one starts,
\* so the sub-batch being tried is the one with the earliest events.
InFlight(c, f) == f \in pending[c] /\ \A g \in pending[c] : f.lo <= g.lo

-----------------------------------------------------------------------------
(***************************************************************************)
(* The stores.  An object is written under the key its batch id makes, so  *)
(* a second PUT of the same id replaces it.  A multi-row INSERT ... ON     *)
(* CONFLICT DO NOTHING takes every row or none, and leaves a row that is   *)
(* already there as it was.                                                *)
(***************************************************************************)
LogObject(c, f) ==
    [key |-> <<c, f.path>>, events |-> Slice(c, f), host |-> host[c]]

Put(c, f) == {o \in r2 : o.key # <<c, f.path>>} \cup {LogObject(c, f)}

HasRow(e) == \E r \in pg : r.event = e

\* Bug: the rows are enriched anew, after the object was written.
InsertResolvesAnew(c, f) ==
    pg \cup [event : {e \in Slice(c, f) : ~HasRow(e)}, host : {links}]

Insert(c, f) ==
    pg \cup [event : {e \in Slice(c, f) : ~HasRow(e)}, host : {host[c]}]

Logged(e) == \E o \in r2 : e \in o.events

DeadLetter(reason, c, events) == [reason |-> reason, batch |-> c, events |-> events]

-----------------------------------------------------------------------------
Settled == {"resolved", "rejected", "killed"}
Running == {"read", "put", "dlqBatch", "insert", "threw", "dlqPoison"}

TypeOK ==
    /\ pc \in [Calls -> {"idle"} \cup Running \cup Settled]
    /\ batch \in [Calls -> Seq(Events)]
    /\ pending \in [Calls -> SUBSET SubBatch]
    /\ attempt \in [Calls -> 1 .. MaxAttemptsPerBatch]
    /\ putAttempt \in [Calls -> 1 .. MaxPutAttempts]
    /\ verdict \in [Calls -> {"none", "row-fault", "infrastructure"}]
    /\ poisoned \in [Calls -> SUBSET Nat]
    /\ host \in [Calls -> 0 .. MaxEdits]
    /\ r2 \subseteq [key : Calls \X Seq({0, 1}), events : SUBSET Events, host : 0 .. MaxEdits]
    /\ pg \subseteq [event : Events, host : 0 .. MaxEdits]
    /\ dlq \subseteq [reason : {"r2-put-failed", "flush-poison"}, batch : Calls,
                      events : SUBSET Events]
    /\ links \in 0 .. MaxEdits
    /\ faults \in 0 .. MaxFaults

Init ==
    /\ pc = [c \in Calls |-> "idle"]
    /\ batch = [c \in Calls |-> <<>>]
    /\ pending = [c \in Calls |-> {}]
    /\ attempt = [c \in Calls |-> 1]
    /\ putAttempt = [c \in Calls |-> 1]
    /\ verdict = [c \in Calls |-> "none"]
    /\ poisoned = [c \in Calls |-> {}]
    /\ host = [c \in Calls |-> 0]
    /\ r2 = {}
    /\ pg = {}
    /\ dlq = {}
    /\ links = 0
    /\ faults = 0

(***************************************************************************)
(* The accumulator hands a batch to the flush callback.                    *)
(***************************************************************************)
Start(c, b) ==
    /\ pc[c] = "idle"
    /\ pc' = [pc EXCEPT ![c] = "read"]
    /\ batch' = [batch EXCEPT ![c] = b]
    /\ pending' = [pending EXCEPT ![c] = {Whole(b)}]
    /\ UNCHANGED <<attempt, putAttempt, verdict, poisoned, host, r2, pg, dlq, links, faults>>

-----------------------------------------------------------------------------
(***************************************************************************)
(* flushBatch, step by step.  An error it throws is kept as its            *)
(* classification, which is all attemptBatch asks about it.                *)
(***************************************************************************)
Throw(c, blame) ==
    /\ pc' = [pc EXCEPT ![c] = "threw"]
    /\ verdict' = [verdict EXCEPT ![c] = blame]
    /\ UNCHANGED <<batch, pending, attempt, putAttempt, poisoned, host>>

Outage == faults < MaxFaults /\ faults' = faults + 1

\* attemptBatch is done with sub-batch f: on to the next one, or, when the whole
\* recursion has returned, to the isolated poison events.
Finish(c, f) ==
    /\ pending' = [pending EXCEPT ![c] = @ \ {f}]
    /\ attempt' = [attempt EXCEPT ![c] = 1]
    /\ pc' = [pc EXCEPT ![c] = IF pending[c] = {f} THEN "dlqPoison" ELSE "read"]
    /\ UNCHANGED <<batch, putAttempt, verdict, host>>

\* resolveDestinationsByLinkIds: one SELECT, before anything is written.
ReadDestinations(c) ==
    /\ pc[c] = "read"
    /\ pc' = [pc EXCEPT ![c] = "put"]
    /\ host' = [host EXCEPT ![c] = links]
    /\ putAttempt' = [putAttempt EXCEPT ![c] = 1]
    /\ UNCHANGED <<batch, pending, attempt, verdict, poisoned, r2, pg, dlq, links, faults>>

ReadFault(c) ==
    /\ pc[c] = "read"
    /\ Outage
    /\ Throw(c, "infrastructure")
    /\ UNCHANGED <<r2, pg, dlq, links>>

\* The R2 PUT is answered with success: only now may the INSERT run.
PutOk(c, f) ==
    /\ pc[c] = "put" /\ InFlight(c, f)
    /\ r2' = Put(c, f)
    /\ pc' = [pc EXCEPT ![c] = "insert"]
    /\ UNCHANGED <<batch, pending, attempt, putAttempt, verdict, poisoned, host,
                   pg, dlq, links, faults>>

\* Bug: an exhausted PUT falls through to the INSERT.
PutGivesUpToInsert(c, retryable) ==
    IF retryable /\ putAttempt[c] < MaxPutAttempts THEN "put" ELSE "insert"

\* retryR2Put: a retryable error is retried until the attempts are spent, any
\* other one gives up at once.
AfterPutError(c, retryable) ==
    IF retryable /\ putAttempt[c] < MaxPutAttempts THEN "put" ELSE "dlqBatch"

\* The PUT fails.  The object may be there all the same: the answer was lost.
PutFault(c, f, retryable) ==
    /\ pc[c] = "put" /\ InFlight(c, f)
    /\ Outage
    /\ r2' \in {r2, Put(c, f)}
    /\ pc' = [pc EXCEPT ![c] = AfterPutError(c, retryable)]
    /\ putAttempt' = [putAttempt EXCEPT
                        ![c] = IF AfterPutError(c, retryable) = "put" THEN @ + 1 ELSE @]
    /\ UNCHANGED <<batch, pending, attempt, verdict, poisoned, host, pg, dlq, links>>

BatchDeadLetter(c, f) == dlq \cup {DeadLetter("r2-put-failed", c, Slice(c, f))}

\* sendR2PutFailureToDlq: the sub-batch goes to the dead-letter queue whole, as one
\* entry, and flushBatch resolves without an INSERT.
DlqBatch(c, f) ==
    /\ pc[c] = "dlqBatch" /\ InFlight(c, f)
    /\ dlq' = BatchDeadLetter(c, f)
    /\ Finish(c, f)
    /\ UNCHANGED <<poisoned, r2, pg, links, faults>>

\* The dead-letter queue does not answer: flushBatch rejects.
DlqBatchFault(c, f) ==
    /\ pc[c] = "dlqBatch" /\ InFlight(c, f)
    /\ Outage
    /\ dlq' \in {dlq, BatchDeadLetter(c, f)}
    /\ Throw(c, "infrastructure")
    /\ UNCHANGED <<r2, pg, links>>

InsertOk(c, f) ==
    /\ pc[c] = "insert" /\ InFlight(c, f)
    /\ Slice(c, f) \cap Poison = {}
    /\ pg' = Insert(c, f)
    /\ Finish(c, f)
    /\ UNCHANGED <<poisoned, r2, dlq, links, faults>>

\* One refused row fails the whole statement.
InsertRefused(c, f) ==
    /\ pc[c] = "insert" /\ InFlight(c, f)
    /\ Slice(c, f) \cap Poison # {}
    /\ Throw(c, "row-fault")
    /\ UNCHANGED <<r2, pg, dlq, links, faults>>

\* Postgres is away.  A statement without a bad row may have committed before the
\* connection was lost.
InsertFault(c, f) ==
    /\ pc[c] = "insert" /\ InFlight(c, f)
    /\ Outage
    /\ pg' \in {pg} \cup (IF Slice(c, f) \cap Poison = {} THEN {Insert(c, f)} ELSE {})
    /\ Throw(c, "infrastructure")
    /\ UNCHANGED <<r2, dlq, links>>

-----------------------------------------------------------------------------
(***************************************************************************)
(* attemptBatch, after flushBatch threw.                                   *)
(***************************************************************************)
\* Bug: one try too many.
RetriesOnceMore(c) == attempt[c] <= MaxAttemptsPerBatch

AttemptsLeft(c) == attempt[c] < MaxAttemptsPerBatch

Retry(c) ==
    /\ pc[c] = "threw"
    /\ AttemptsLeft(c)
    /\ attempt' = [attempt EXCEPT ![c] = @ + 1]
    /\ pc' = [pc EXCEPT ![c] = "read"]
    /\ UNCHANGED <<batch, pending, putAttempt, verdict, poisoned, host, r2, pg, dlq, links, faults>>

\* Bugs: every failure is taken for a row's, or none is.
BlamesRowAlways(c) == TRUE
BlamesRowNever(c) == FALSE

BlamesRow(c) == verdict[c] = "row-fault"

\* An infrastructure verdict rejects the whole call: what its siblings isolated so
\* far is discarded, and the jobs are delivered again.
Reject(c) ==
    /\ pc[c] = "threw"
    /\ ~AttemptsLeft(c)
    /\ ~BlamesRow(c)
    /\ pc' = [pc EXCEPT ![c] = "rejected"]
    /\ UNCHANGED <<batch, pending, attempt, putAttempt, verdict, poisoned, host,
                   r2, pg, dlq, links, faults>>

Isolate(c, f) ==
    /\ pc[c] = "threw" /\ InFlight(c, f)
    /\ ~AttemptsLeft(c)
    /\ BlamesRow(c)
    /\ Size(f) = 1
    /\ poisoned' = [poisoned EXCEPT ![c] = @ \cup {f.lo}]
    /\ Finish(c, f)
    /\ UNCHANGED <<r2, pg, dlq, links, faults>>

Split(c, f) ==
    /\ pc[c] = "threw" /\ InFlight(c, f)
    /\ ~AttemptsLeft(c)
    /\ BlamesRow(c)
    /\ Size(f) > 1
    /\ pending' = [pending EXCEPT ![c] = (@ \ {f}) \cup {LeftHalf(f), RightHalf(f)}]
    /\ attempt' = [attempt EXCEPT ![c] = 1]
    /\ pc' = [pc EXCEPT ![c] = "read"]
    /\ UNCHANGED <<batch, putAttempt, verdict, poisoned, host, r2, pg, dlq, links, faults>>

-----------------------------------------------------------------------------
(***************************************************************************)
(* sendPoisonEventsToDlq: one entry per isolated event, one after another, *)
(* in the order of the batch.                                              *)
(***************************************************************************)
NextPoisoned(c, i) == i \in poisoned[c] /\ \A j \in poisoned[c] : i <= j

PoisonDeadLetter(c, i) == dlq \cup {DeadLetter("flush-poison", c, {batch[c][i]})}

SendPoison(c, i) ==
    /\ pc[c] = "dlqPoison"
    /\ NextPoisoned(c, i)
    /\ dlq' = PoisonDeadLetter(c, i)
    /\ poisoned' = [poisoned EXCEPT ![c] = @ \ {i}]
    /\ UNCHANGED <<pc, batch, pending, attempt, putAttempt, verdict, host, r2, pg, links, faults>>

\* A rejected send rejects the flush, with the earlier entries already in the queue.
SendPoisonFault(c, i) ==
    /\ pc[c] = "dlqPoison"
    /\ NextPoisoned(c, i)
    /\ Outage
    /\ dlq' \in {dlq, PoisonDeadLetter(c, i)}
    /\ pc' = [pc EXCEPT ![c] = "rejected"]
    /\ UNCHANGED <<batch, pending, attempt, putAttempt, verdict, poisoned, host, r2, pg, links>>

\* Bug: the dead letters are on their way, and nobody waits for them.
PoisonSentUnawaited(c) == TRUE

PoisonSent(c) == poisoned[c] = {}

Resolve(c) ==
    /\ pc[c] = "dlqPoison"
    /\ PoisonSent(c)
    /\ pc' = [pc EXCEPT ![c] = "resolved"]
    /\ UNCHANGED <<batch, pending, attempt, putAttempt, verdict, poisoned, host,
                   r2, pg, dlq, links, faults>>

-----------------------------------------------------------------------------
\* The worker process that runs the call dies between two of its steps.
Kill(c) ==
    /\ pc[c] \in Running
    /\ pc' = [pc EXCEPT ![c] = "killed"]
    /\ UNCHANGED <<batch, pending, attempt, putAttempt, verdict, poisoned, host,
                   r2, pg, dlq, links, faults>>

\* The owner of the link changes its destination.
EditLink ==
    /\ links < MaxEdits
    /\ links' = links + 1
    /\ UNCHANGED <<callVars, r2, pg, dlq, faults>>

AllSettled ==
    /\ \A c \in Calls : pc[c] \in Settled
    /\ UNCHANGED vars

FlushStep(c) ==
    \/ ReadDestinations(c) \/ ReadFault(c)
    \/ \E f \in pending[c] :
         \/ PutOk(c, f)
         \/ \E retryable \in BOOLEAN : PutFault(c, f, retryable)
         \/ DlqBatch(c, f) \/ DlqBatchFault(c, f)
         \/ InsertOk(c, f) \/ InsertRefused(c, f) \/ InsertFault(c, f)

SplitStep(c) ==
    \/ Retry(c) \/ Reject(c)
    \/ \E f \in pending[c] : Isolate(c, f) \/ Split(c, f)

PoisonStep(c) ==
    \/ \E i \in poisoned[c] : SendPoison(c, i) \/ SendPoisonFault(c, i)
    \/ Resolve(c)

CallStep(c) == FlushStep(c) \/ SplitStep(c) \/ PoisonStep(c)

Next ==
    \/ \E c \in Calls : \/ \E b \in Batches : Start(c, b)
                        \/ CallStep(c)
                        \/ Kill(c)
    \/ EditLink
    \/ AllSettled

Spec == Init /\ [][Next]_vars

(***************************************************************************)
(* A call that runs keeps running: every await it is suspended on ends     *)
(* some day, with an answer or with an error, as it does once a paused     *)
(* service resumes or its connection is given up.  Nothing is assumed      *)
(* about which of the two it is.                                           *)
(***************************************************************************)
FairSpec == Spec /\ \A c \in Calls : WF_vars(CallStep(c))

-----------------------------------------------------------------------------
(***************************************************************************)
(* PROPERTIES                                                              *)
(***************************************************************************)

\* Invariant 7 of the pipeline: Postgres never runs ahead of the log.  Every row's
\* event is in some R2 object, through retries, splits and lost answers (flush.ts:
\* the INSERT runs only once the PUT has succeeded).
RowsAreLogged == \A r \in pg : Logged(r.event)

\* What an object once held it holds for ever: a retry overwrites its own object
\* with the same events, and a half of a split never touches its parent's or its
\* sibling's (split-retry.ts: the .0 and .1 ids).
LogKeepsEveryEvent ==
    [][\A o \in r2 : \E p \in r2' : p.key = o.key /\ p.events = o.events]_vars

\* A row says, when it is inserted, what an object of the log says of its event: each try
\* resolves the destinations once, for the object and for the rows (flush.ts: toNewEventRow
\* before the PUT), whatever is edited, flushed or overwritten between PUT and INSERT.  What
\* the object says later is another matter: RowsAreWhatTheLogSays.
InsertedAsLogged ==
    [][\A row \in pg' \ pg : \E o \in r2 : row.event \in o.events /\ o.host = row.host]_vars

InDlq(reason, c, e) ==
    \E d \in dlq : d.reason = reason /\ d.batch = c /\ e \in d.events

Accounted(c, e) ==
    \/ InDlq("r2-put-failed", c, e)
    \/ IF e \in Poison THEN InDlq("flush-poison", c, e) ELSE HasRow(e)

\* A resolved flush acknowledges its jobs, so it must have lost nothing: a poison row
\* costs that one row, which is in the dead-letter queue, and every healthy event has
\* its row, unless the PUT of its sub-batch failed and sent it to the queue whole.
PoisonCostsOneRow ==
    \A c \in Calls : pc[c] = "resolved" =>
        \A i \in DOMAIN batch[c] : Accounted(c, batch[c][i])

\* What EventsConsumer takes a flush for.  An event counts as stored when both stores
\* have it.
Contract == INSTANCE FlushContract WITH
    outcome <- [c \in Calls |-> IF pc[c] \in Running THEN "running" ELSE pc[c]],
    taken <- [c \in Calls |-> {batch[c][i] : i \in DOMAIN batch[c]}],
    stored <- {e \in {r.event : r \in pg} : Logged(e)},
    parked <- UNION {{d.batch} \X d.events : d \in dlq}

\* The flush is what the intake relies on: through splits, retries, lost answers and
\* overlapping calls it secures nothing but its own events, never undoes what it or another
\* call secured, and resolves when all is secured and not before.
KeepsContract == Contract!Spec

\* An outage is never mistaken for a poison row, and a poison event's record is in
\* the log by the time it is dead-lettered (dlq.service.ts relies on both).
PoisonIsProven ==
    \A d \in dlq : d.reason = "flush-poison" =>
        \A e \in d.events : e \in Poison /\ Logged(e)

\* The recursion ends: a flush that began resolves, unless its process is killed or an
\* outage rejects it.  Bad rows alone, however many, never reject a batch: one that is all
\* poison is split down to its single rows as well (classify-flush-error.ts looks at one
\* error's SQLSTATE, never at how many rows it blames).
EveryFlushSettles ==
    \A c \in Calls :
        pc[c] \in Running ~> \/ pc[c] \in {"resolved", "killed"}
                             \/ pc[c] = "rejected" /\ faults > 0

\* How far a call is with the sub-batch f it is trying.
Stage(step) ==
    CASE step = "read" -> 1
      [] step = "put" -> 2
      [] step \in {"dlqBatch", "insert"} -> 3
      [] step = "threw" -> 4

Stand(c, f) == <<f.lo, -Size(f), attempt[c], Stage(pc[c]), putAttempt[c]>>

\* Each step brings the call further through its batch, or on to its poison events, or ends
\* it: it never tries again what it tried as often as it may, whatever fails and however
\* the other calls interfere (split-retry.ts: the recursion and its attempts are bounded).
EveryStepAdvances ==
    [][\A c \in Calls : CallStep(c) =>
         \/ pc'[c] \in Settled
         \/ pc[c] # "dlqPoison" /\ pc'[c] = "dlqPoison"
         \/ poisoned'[c] \in (SUBSET poisoned[c]) \ {poisoned[c]}
         \/ \E f \in pending[c], g \in pending'[c] :
                /\ InFlight(c, f) /\ InFlight(c, g)'
                /\ Before(Stand(c, f), Stand(c, g)')]_vars

\* What replay-driver.ts asks of the projection: a row that a rebuild from the log
\* would write again just as it is, dest_host included.
RowsAreWhatTheLogSays ==
    \A r \in pg : \E o \in r2 : r.event \in o.events /\ o.host = r.host

=============================================================================
