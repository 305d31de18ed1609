---------------------------- MODULE EventsConsumer ----------------------------
(***************************************************************************)
(* The worker's intake: EventsConsumer, the BatchAccumulator its sink adds *)
(* to, DlqService and ShutdownService (apps/worker/src/consumer, batch),   *)
(* driven by the events queue.                                             *)
(*                                                                         *)
(* A job is acknowledged when process() returns, and process() returns     *)
(* only once the flush of the batch its event joined has settled.  Until   *)
(* then the event exists in the memory of one worker and in a job nobody   *)
(* has acknowledged, so a worker that dies loses nothing: the job's lock   *)
(* expires and the queue delivers it again, here or to another worker, at  *)
(* times while the first delivery is still running.                        *)
(*                                                                         *)
(* BullMQ is outside this repository and modelled from what the consumer's *)
(* comments verify of it: one lock per active job, a 'failed' event on     *)
(* every failed attempt, and a job that stalls too often is failed for     *)
(* good when it is next fetched.  The flush is the one BatchFlush models,  *)
(* reduced to what it promises a resolved or rejected batch.               *)
(***************************************************************************)
EXTENDS Integers, FiniteSets

CONSTANTS
    Workers,          \* worker processes (pods)
    Jobs,             \* jobs of EVENTS_QUEUE, one per captured event
    Malformed,        \* jobs whose data fails eventJobSchema
    None,             \* no worker
    BatchSize,        \* EVENT_BATCH_SIZE
    Concurrency,      \* WORKER_CONCURRENCY
    Attempts,         \* EVENTS_JOB_OPTIONS.attempts
    MaxStalledCount,  \* BullMQ's maxStalledCount, which the worker leaves at its default
    MaxFaults,        \* bound: failed calls and lost locks in one behaviour
    MaxStops          \* bound: SIGTERMs and SIGKILLs in one behaviour

ASSUME JobsAssumption == Malformed \subseteq Jobs /\ None \notin Workers
\* The accumulator's constructor and readWorkerConcurrency throw otherwise.
ASSUME SizesAssumption == /\ BatchSize \in Nat \ {0}
                          /\ Concurrency \in Nat \ {0}
                          /\ Attempts \in Nat \ {0}
ASSUME LimitsAssumption == MaxStalledCount \in Nat /\ MaxFaults \in Nat /\ MaxStops \in Nat

VARIABLES
    queue,         \* the state of each job in EVENTS_QUEUE
    lock,          \* the worker that holds the lock of an active job
    attemptsMade,  \* failed attempts of each job
    stalls,        \* how often each job's lock expired
    mode,          \* what each worker process is doing
    call,          \* process() and what BullMQ does around it, by worker and job
    open,          \* the accumulator's currentBatch: the events of each worker's open batch
    flights,       \* the batches each worker has handed to its flush
    awaited,       \* the batch whose flush a worker's drain() is awaiting
    stored,        \* events in R2 and Postgres
    dlq,           \* the entries of EVENTS_DLQ_QUEUE
    faults, stops  \* counters of the bounds above

queueVars == <<queue, lock, attemptsMade, stalls>>
workerVars == <<mode, call, open, flights, awaited>>
vars == <<queue, lock, attemptsMade, stalls, mode, call, open, flights, awaited,
          stored, dlq, faults, stops>>

-----------------------------------------------------------------------------
\* A batch that is being flushed, and those of its events the flush has still to
\* store or dead-letter.
Flight == [jobs : SUBSET Jobs, left : SUBSET Jobs]

Held == {"dispatched", "routing", "awaiting", "returned", "threw"}

TypeOK ==
    /\ queue \in [Jobs -> {"none", "waiting", "active", "completed", "failed"}]
    /\ lock \in [Jobs -> Workers \cup {None}]
    /\ attemptsMade \in [Jobs -> 0 .. Attempts]
    /\ stalls \in [Jobs -> Nat]
    /\ mode \in [Workers -> {"up", "draining", "exiting", "down"}]
    /\ call \in [Workers -> [Jobs -> Held \cup {"none", "handling"}]]
    /\ open \in [Workers -> SUBSET Jobs]
    /\ flights \in [Workers -> SUBSET Flight]
    /\ awaited \in [Workers -> SUBSET Jobs]
    /\ stored \subseteq Jobs \ Malformed
    /\ dlq \subseteq [reason : {"schema-validation-failed", "attempts-exhausted", "flush"},
                      job : Jobs]
    /\ faults \in 0 .. MaxFaults
    /\ stops \in 0 .. MaxStops

Init ==
    /\ queue = [j \in Jobs |-> "none"]
    /\ lock = [j \in Jobs |-> None]
    /\ attemptsMade = [j \in Jobs |-> 0]
    /\ stalls = [j \in Jobs |-> 0]
    /\ mode = [w \in Workers |-> "up"]
    /\ call = [w \in Workers |-> [j \in Jobs |-> "none"]]
    /\ open = [w \in Workers |-> {}]
    /\ flights = [w \in Workers |-> {}]
    /\ awaited = [w \in Workers |-> {}]
    /\ stored = {}
    /\ dlq = {}
    /\ faults = 0
    /\ stops = 0

Fault == faults < MaxFaults /\ faults' = faults + 1

Becomes(w, j, state) == call' = [call EXCEPT ![w][j] = state]

-----------------------------------------------------------------------------
(***************************************************************************)
(* EVENTS_QUEUE.                                                           *)
(***************************************************************************)

\* The redirect path enqueues a captured event.
Enqueue(j) ==
    /\ queue[j] = "none"
    /\ queue' = [queue EXCEPT ![j] = "waiting"]
    /\ UNCHANGED <<lock, attemptsMade, stalls, workerVars, stored, dlq, faults, stops>>

\* The queue has given the job up: it fails when it is fetched, without process().
GivenUp(j) == stalls[j] > MaxStalledCount

\* A worker that is not paused fetches a job (whose backoff, if any, is over) as
\* long as it runs fewer than WORKER_CONCURRENCY of them.
Fetch(w, j) ==
    /\ mode[w] = "up"
    /\ queue[j] = "waiting"
    /\ call[w][j] = "none"
    /\ Cardinality({k \in Jobs : call[w][k] \in Held}) < Concurrency
    /\ queue' = [queue EXCEPT ![j] = "active"]
    /\ lock' = [lock EXCEPT ![j] = w]
    /\ Becomes(w, j, IF GivenUp(j) THEN "threw" ELSE "dispatched")
    /\ UNCHANGED <<attemptsMade, stalls, mode, open, flights, awaited, stored, dlq, faults, stops>>

\* The lock of an active job is not renewed any more, and the job waits again.
Stalls(j) ==
    /\ queue[j] = "active"
    /\ queue' = [queue EXCEPT ![j] = "waiting"]
    /\ lock' = [lock EXCEPT ![j] = None]
    /\ stalls' = [stalls EXCEPT ![j] = @ + 1]
    /\ UNCHANGED <<attemptsMade, workerVars, stored, dlq, stops>>

Abandoned(j) == call[lock[j]][j] \notin Held

\* The worker that held the lock is gone.
StallAbandoned(j) ==
    /\ Stalls(j)
    /\ Abandoned(j)
    /\ UNCHANGED faults

\* The worker that holds the lock lives, but cannot renew it in time.
StallRunning(j) ==
    /\ Stalls(j)
    /\ ~Abandoned(j)
    /\ Fault

-----------------------------------------------------------------------------
(***************************************************************************)
(* The accumulator.  A batch is detached before its flush begins, so that  *)
(* whatever is added next opens another one.                               *)
(***************************************************************************)

\* Bug: the batch handed over stays the current one.
DetachKeepsOpen(w, batch) ==
    /\ open' = [open EXCEPT ![w] = batch]
    /\ flights' = [flights EXCEPT ![w] = @ \cup {[jobs |-> batch, left |-> batch]}]

\* triggerFlush
Detach(w, batch) ==
    /\ open' = [open EXCEPT ![w] = {}]
    /\ flights' = [flights EXCEPT ![w] = @ \cup {[jobs |-> batch, left |-> batch]}]

\* Bug: sink.handle() does not wait for add()'s promise.
AddReturnsAtOnce(w, j) == Becomes(w, j, "returned")

AwaitsItsBatch(w, j) == Becomes(w, j, "awaiting")

\* add(): the event joins the open batch, and the one that fills it hands it over.
Add(w, j) ==
    /\ AwaitsItsBatch(w, j)
    /\ LET batch == open[w] \cup {j} IN
          IF Cardinality(batch) >= BatchSize
          THEN Detach(w, batch)
          ELSE open' = [open EXCEPT ![w] = batch] /\ UNCHANGED flights

\* Bug: nothing is armed when a batch is opened.
NeverArmed(w) == FALSE

TimerArmed(w) == open[w] # {}

\* The interval trigger.
TimerFires(w) ==
    /\ TimerArmed(w)
    /\ Detach(w, open[w])
    /\ UNCHANGED <<queueVars, mode, call, awaited, stored, dlq, faults, stops>>

-----------------------------------------------------------------------------
(***************************************************************************)
(* process().                                                              *)
(***************************************************************************)

\* Bug: the data of a job is taken as it comes.
NothingFailsSchema(j) == FALSE

\* eventJobSchema.safeParse
FailsSchema(j) == j \in Malformed

\* A valid event goes to the sink, any other job to the dead-letter queue.
Process(w, j) ==
    /\ call[w][j] = "dispatched"
    /\ IF FailsSchema(j)
       THEN Becomes(w, j, "routing") /\ UNCHANGED <<open, flights>>
       ELSE Add(w, j)
    /\ UNCHANGED <<queueVars, mode, awaited, stored, dlq, faults, stops>>

Entry(reason, j) == [reason |-> reason, job |-> j]

\* routeToDlq
RouteToDlq(w, j) ==
    /\ call[w][j] = "routing"
    /\ dlq' = dlq \cup {Entry("schema-validation-failed", j)}
    /\ Becomes(w, j, "returned")
    /\ UNCHANGED <<queueVars, mode, open, flights, awaited, stored, faults, stops>>

\* Bug: a job whose dead letter was refused is acknowledged all the same.
RefusalIsSwallowed == "returned"

AfterRefusal == "threw"

\* The dead-letter queue does not answer: the job fails like any other.
RouteToDlqFault(w, j) ==
    /\ call[w][j] = "routing"
    /\ Fault
    /\ dlq' \in {dlq, dlq \cup {Entry("schema-validation-failed", j)}}
    /\ Becomes(w, j, AfterRefusal)
    /\ UNCHANGED <<queueVars, mode, open, flights, awaited, stored, stops>>

\* BullMQ acknowledges the job of a process() that returned, if its lock is still held.
MoveToCompleted(w, j) ==
    /\ call[w][j] = "returned"
    /\ Becomes(w, j, "none")
    /\ IF lock[j] = w
       THEN /\ queue' = [queue EXCEPT ![j] = "completed"]
            /\ lock' = [lock EXCEPT ![j] = None]
       ELSE UNCHANGED <<queue, lock>>
    /\ UNCHANGED <<attemptsMade, stalls, mode, open, flights, awaited, stored, dlq, faults, stops>>

\* Bug: onFailed dead-letters every failed attempt.
EveryAttemptIsFinal(made) == TRUE

OnFinalAttempt(made) == made >= Attempts

\* moveToFailed, and the 'failed' event it emits: the job waits for its next attempt
\* or stays in the failed set (removeOnFail is false), and onFailed starts its dead
\* letter if the last attempt is spent.
MoveToFailed(w, j) ==
    /\ call[w][j] = "threw"
    /\ LET made == attemptsMade[j] + 1 IN
       IF lock[j] = w
       THEN /\ attemptsMade' = [attemptsMade EXCEPT ![j] = made]
            /\ queue' = [queue EXCEPT
                            ![j] = IF made < Attempts /\ ~GivenUp(j) THEN "waiting" ELSE "failed"]
            /\ lock' = [lock EXCEPT ![j] = None]
            /\ Becomes(w, j, IF OnFinalAttempt(made) THEN "handling" ELSE "none")
       ELSE /\ Becomes(w, j, "none")
            /\ UNCHANGED <<attemptsMade, queue, lock>>
    /\ UNCHANGED <<stalls, mode, open, flights, awaited, stored, dlq, faults, stops>>

\* The data is validated again, since a job that routeToDlq could not route ends here.
LastReason(j) == IF FailsSchema(j) THEN "schema-validation-failed" ELSE "attempts-exhausted"

\* onFailed
OnFailed(w, j) ==
    /\ call[w][j] = "handling"
    /\ dlq' = dlq \cup {Entry(LastReason(j), j)}
    /\ Becomes(w, j, "none")
    /\ UNCHANGED <<queueVars, mode, open, flights, awaited, stored, faults, stops>>

\* A refused dead letter is logged, and that is all.
OnFailedFault(w, j) ==
    /\ call[w][j] = "handling"
    /\ Fault
    /\ dlq' \in {dlq, dlq \cup {Entry(LastReason(j), j)}}
    /\ Becomes(w, j, "none")
    /\ UNCHANGED <<queueVars, mode, open, flights, awaited, stored, stops>>

-----------------------------------------------------------------------------
(***************************************************************************)
(* The flush of a batch, event by event, and runFlush, which settles every *)
(* waiter of the batch with what became of the whole.                      *)
(***************************************************************************)
Settles(f, j) == [f EXCEPT !.left = @ \ {j}]

FlushStores(w, f, j) ==
    /\ j \in f.left
    /\ stored' = stored \cup {j}
    /\ flights' = [flights EXCEPT ![w] = (@ \ {f}) \cup {Settles(f, j)}]
    /\ UNCHANGED <<queueVars, mode, call, open, awaited, dlq, faults, stops>>

\* A poison row, or the PUT of its sub-batch exhausted its retries.
FlushDeadLetters(w, f, j) ==
    /\ j \in f.left
    /\ Fault
    /\ dlq' = dlq \cup {Entry("flush", j)}
    /\ flights' = [flights EXCEPT ![w] = (@ \ {f}) \cup {Settles(f, j)}]
    /\ UNCHANGED <<queueVars, mode, call, open, awaited, stored, stops>>

Wake(w, batch, state) ==
    call' = [call EXCEPT ![w] = [j \in Jobs |-> IF j \in batch THEN state ELSE @[j]]]

FlushResolves(w, f) ==
    /\ f.left = {}
    /\ flights' = [flights EXCEPT ![w] = @ \ {f}]
    /\ Wake(w, f.jobs, "returned")
    /\ awaited' = [awaited EXCEPT ![w] = IF @ = f.jobs THEN {} ELSE @]
    /\ UNCHANGED <<queueVars, mode, open, stored, dlq, faults, stops>>

\* Bug: a failed flush leaves its waiters pending.
WaitersForgotten(w, f) == UNCHANGED call

RejectWaiters(w, f) == Wake(w, f.jobs, "threw")

\* The batch is gone, whatever it had written by then stays.  If drain() awaits this
\* flush, it ends with it.
FlushRejects(w, f) ==
    /\ Fault
    /\ flights' = [flights EXCEPT ![w] = @ \ {f}]
    /\ RejectWaiters(w, f)
    /\ IF awaited[w] = f.jobs
       THEN /\ mode' = [mode EXCEPT ![w] = "exiting"]
            /\ awaited' = [awaited EXCEPT ![w] = {}]
       ELSE UNCHANGED <<mode, awaited>>
    /\ UNCHANGED <<queueVars, open, stored, dlq, stops>>

-----------------------------------------------------------------------------
(***************************************************************************)
(* Shutdown.  drain() pauses the consumer, flushes and waits; the shutdown *)
(* chain goes on until the process exits, and takes along its calls and    *)
(* its batches.                                                            *)
(***************************************************************************)
Stop == stops < MaxStops /\ stops' = stops + 1

\* SIGTERM: drain() pauses the consumer, without waiting for its active jobs.
Sigterm(w) ==
    /\ mode[w] = "up"
    /\ Stop
    /\ mode' = [mode EXCEPT ![w] = "draining"]
    /\ UNCHANGED <<queueVars, call, open, flights, awaited, stored, dlq, faults>>

Pending(w) == {j \in Jobs : call[w][j] \in {"routing", "awaiting"}}

\* Bug: the loop looks at the open batch only.
OnlyOpenBatch(w) == open[w] = {}

NothingPending(w) == Pending(w) = {} /\ open[w] = {}

\* flushNow(): hand over what is open, and wait for that flush.
DrainFlush(w) ==
    /\ mode[w] = "draining"
    /\ awaited[w] = {}
    /\ open[w] # {}
    /\ Detach(w, open[w])
    /\ awaited' = [awaited EXCEPT ![w] = open[w]]
    /\ UNCHANGED <<queueVars, mode, call, stored, dlq, faults, stops>>

DrainEnds(w) ==
    /\ mode[w] = "draining"
    /\ mode' = [mode EXCEPT ![w] = "exiting"]
    /\ awaited' = [awaited EXCEPT ![w] = {}]
    /\ UNCHANGED <<queueVars, call, open, flights, stored, dlq, faults, stops>>

DrainDone(w) == awaited[w] = {} /\ NothingPending(w) /\ DrainEnds(w)

\* SHUTDOWN_TIMEOUT_MS is over, whatever drain() is doing.
DrainTimesOut(w) == DrainEnds(w)

Gone(w) ==
    /\ mode' = [mode EXCEPT ![w] = "down"]
    /\ call' = [call EXCEPT ![w] = [j \in Jobs |-> "none"]]
    /\ open' = [open EXCEPT ![w] = {}]
    /\ flights' = [flights EXCEPT ![w] = {}]
    /\ awaited' = [awaited EXCEPT ![w] = {}]
    /\ UNCHANGED <<queueVars, stored, dlq, faults>>

\* useProcessExit: process.exit(0), whatever is still running.
ProcessExit(w) == mode[w] = "exiting" /\ Gone(w) /\ UNCHANGED stops

Sigkill(w) == mode[w] # "down" /\ Gone(w) /\ Stop

Boot(w) ==
    /\ mode[w] = "down"
    /\ mode' = [mode EXCEPT ![w] = "up"]
    /\ UNCHANGED <<queueVars, call, open, flights, awaited, stored, dlq, faults, stops>>

-----------------------------------------------------------------------------
\* What a worker does on its own account when nothing fails.
JobStep(w, j) ==
    \/ Fetch(w, j) \/ Process(w, j) \/ RouteToDlq(w, j)
    \/ MoveToCompleted(w, j) \/ MoveToFailed(w, j) \/ OnFailed(w, j)

FlushStep(w) ==
    \E f \in flights[w] : FlushResolves(w, f) \/ \E j \in f.left : FlushStores(w, f, j)

WorkerStep(w) ==
    \/ \E j \in Jobs : JobStep(w, j)
    \/ TimerFires(w)
    \/ FlushStep(w)
    \/ DrainFlush(w) \/ DrainDone(w) \/ ProcessExit(w) \/ Boot(w)

\* What goes wrong around it.
Failure(w) ==
    \/ \E j \in Jobs : RouteToDlqFault(w, j) \/ OnFailedFault(w, j)
    \/ \E f \in flights[w] :
         \/ FlushRejects(w, f)
         \/ \E j \in f.left : FlushDeadLetters(w, f, j)
    \/ Sigterm(w) \/ Sigkill(w) \/ DrainTimesOut(w)

AllDone ==
    /\ \A j \in Jobs : queue[j] \in {"completed", "failed"}
    /\ UNCHANGED vars

Next ==
    \/ \E w \in Workers : WorkerStep(w) \/ Failure(w)
    \/ \E j \in Jobs : Enqueue(j) \/ StallAbandoned(j) \/ StallRunning(j)
    \/ AllDone

Spec == Init /\ [][Next]_vars

(***************************************************************************)
(* A worker that can do something does: its event loop turns, Kubernetes   *)
(* starts it again once it is down, and a flush that runs settles, which   *)
(* BatchFlush shows.  BullMQ notices a lock nobody renews.  No fault is    *)
(* assumed, and neither is the shutdown timeout.                           *)
(***************************************************************************)
FairSpec ==
    /\ Spec
    /\ \A w \in Workers : WF_vars(WorkerStep(w))
    /\ \A j \in Jobs : WF_vars(StallAbandoned(j))

-----------------------------------------------------------------------------
(***************************************************************************)
(* PROPERTIES                                                              *)
(***************************************************************************)
DeadLettered(j) == \E d \in dlq : d.job = j

Durable(j) == j \in stored \/ DeadLettered(j)

\* T3.5.4, the reason add() returns a promise: a job is acknowledged only once its event
\* is in R2 and Postgres or in the dead-letter queue, however many batches, workers and
\* deliveries it went through.
AckedIsDurable == \A j \in Jobs : queue[j] = "completed" => Durable(j)

\* Every batch a worker holds.
Batches(w) == {open[w]} \cup {f.jobs : f \in flights[w]}

\* At-least-once delivery, of which the lines above are the worker's share.
Promise == INSTANCE Delivery WITH
    accepted <- {j \in Jobs : queue[j] # "none"},
    durable <- {j \in Jobs : Durable(j)},
    acked <- {j \in Jobs : queue[j] = "completed"},
    parked <- {j \in Jobs : queue[j] = "failed"}

\* The worker keeps the promise: deliveries that overlap, fail or die with their process
\* never acknowledge an event early, twice, or after its job has been given up.
KeepsPromise == Promise!Spec

\* Nobody waits for a flush that will never come, and no event is flushed for nobody: a
\* call awaits add() exactly when its event is in a batch, and in one only (accumulator.ts:
\* detach before the flush, waiters[i] beside events[i]).
WaitersAreHeld ==
    \A w \in Workers :
        /\ Pending(w) \ Malformed = UNION Batches(w)
        /\ \A f \in flights[w] : f.jobs \cap open[w] = {}
        /\ \A f, g \in flights[w] : f = g \/ f.jobs \cap g.jobs = {}

\* A job dead-lettered as exhausted is over: it is not waiting for another attempt, which
\* would land its event in Postgres beside its dead letter (onFailed's attemptsMade test).
\* It stays in the failed set, which nothing trims; events-queue.ts (60-65) says it is moved.
ExhaustedIsOver ==
    \A j \in Jobs : Entry("attempts-exhausted", j) \in dlq => queue[j] = "failed"

\* A drain that ends by itself leaves no batch behind, open or in the middle of its flush
\* (shutdown.ts: pendingJobCount and size(), polled).
DrainLeavesNoBatch ==
    [][\A w \in Workers : DrainDone(w) => UNION Batches(w) = {}]_vars

\* A SIGTERM never hangs: the drain ends without the help of its timeout, though every
\* call it waits for is itself waiting for a flush (shutdown.ts: the deadlock of the
\* first design).
DrainTerminates == \A w \in Workers : mode[w] = "draining" ~> mode[w] # "draining"

\* Every job is settled, the ones of a batch that never fills up and the ones of a worker
\* that died included.
EveryJobSettles ==
    \A j \in Jobs : queue[j] # "none" ~> queue[j] \in {"completed", "failed"}

\* What shutdown.ts says a slow drain costs: a redelivery at worst, never the event.
NeverLostInFailedSet ==
    \A j \in Jobs :
        queue[j] = "failed" => Durable(j) \/ \E w \in Workers : call[w][j] = "handling"

=============================================================================
