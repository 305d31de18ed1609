------------------------- MODULE EventsConsumerProofs -------------------------
(***************************************************************************)
(* Safety of EventsConsumer for any number of workers and jobs, any batch  *)
(* size and concurrency, and any bounds.                                   *)
(*                                                                         *)
(* AckedIsDurable is not inductive: a completed job is durable because the *)
(* call that returned was woken by a flush that had nothing left, and that *)
(* was the flush of its event because a call that waits is in exactly one  *)
(* batch.  IInv says so worker by worker, beside what a lock means.        *)
(***************************************************************************)
EXTENDS EventsConsumer, TLAPS

-----------------------------------------------------------------------------
(***************************************************************************)
(* The inductive invariant.                                                *)
(***************************************************************************)

\* A job is locked while it is active, and has an attempt left until it is over.
Locks ==
    \A j \in Jobs :
        /\ queue[j] = "active" <=> lock[j] # None
        /\ queue[j] \in {"none", "waiting", "active"} => attemptsMade[j] < Attempts

\* Where a call stands tells what has become of its job.
Calls(w) ==
    \A j \in Jobs :
        /\ call[w][j] # "none" => queue[j] # "none"
        /\ call[w][j] = "routing" => j \in Malformed
        /\ call[w][j] = "awaiting" => j \notin Malformed
        /\ call[w][j] = "returned" => Durable(j)
        /\ call[w][j] = "handling" => queue[j] = "failed"

\* A flush has made durable what it has not left to do.
Progress(w) ==
    \A f \in flights[w] : /\ f.left \subseteq f.jobs
                          /\ \A j \in f.jobs \ f.left : Durable(j)

Batched(w, j) == j \in open[w] \/ \E f \in flights[w] : j \in f.jobs

\* A call waits exactly when its event is in a batch, and in one only.
Waiters(w) ==
    /\ \A j \in Jobs : call[w][j] = "awaiting" <=> Batched(w, j)
    /\ \A f \in flights[w] : f.jobs \cap open[w] = {}
    /\ \A f, g \in flights[w] : f = g \/ f.jobs \cap g.jobs = {}

WorkerInv(w) == Calls(w) /\ Progress(w) /\ Waiters(w)

QueueInv == Locks /\ AckedIsDurable /\ ExhaustedIsOver

IInv == TypeOK /\ QueueInv /\ \A w \in Workers : WorkerInv(w)

-----------------------------------------------------------------------------
(***************************************************************************)
(* Type correctness.                                                       *)
(***************************************************************************)

\* What a step of a call may write.
LEMMA CallType ==
  ASSUME TypeOK, NEW w \in Workers, NEW j \in Jobs, NEW s \in Held \cup {"none", "handling"},
         Becomes(w, j, s)
  PROVE  /\ call' \in [Workers -> [Jobs -> Held \cup {"none", "handling"}]]
         /\ call'[w][j] = s
         /\ \A k \in Jobs \ {j} : call'[w][k] = call[w][k]
         /\ \A v \in Workers \ {w} : call'[v] = call[v]
  BY DEF TypeOK, Becomes

\* Waking the calls of a batch leaves the others alone.
LEMMA WakeType ==
  ASSUME TypeOK, NEW w \in Workers, NEW b, NEW s \in Held, Wake(w, b, s)
  PROVE  /\ call' \in [Workers -> [Jobs -> Held \cup {"none", "handling"}]]
         /\ \A j \in Jobs : call'[w][j] = IF j \in b THEN s ELSE call[w][j]
         /\ \A v \in Workers \ {w} : call'[v] = call[v]
  BY DEF TypeOK, Wake

\* A batch that is handed over is a flight.
LEMMA DetachType ==
  ASSUME TypeOK, NEW w \in Workers, NEW b \in SUBSET Jobs, Detach(w, b)
  PROVE  /\ open' \in [Workers -> SUBSET Jobs]
         /\ flights' \in [Workers -> SUBSET Flight]
         /\ open'[w] = {}
         /\ flights'[w] = flights[w] \cup {[jobs |-> b, left |-> b]}
         /\ \A v \in Workers \ {w} : open'[v] = open[v] /\ flights'[v] = flights[v]
<1>1. [jobs |-> b, left |-> b] \in Flight
  BY DEF Flight
<1> QED BY <1>1 DEF TypeOK, Detach

\* A flight that settles an event is a flight.
LEMMA SettlesType ==
  ASSUME TypeOK, NEW w \in Workers, NEW f \in flights[w], NEW j \in f.left
  PROVE  /\ f \in Flight
         /\ Settles(f, j) = [jobs |-> f.jobs, left |-> f.left \ {j}]
         /\ Settles(f, j) \in Flight
<1>1. f \in Flight
  BY DEF TypeOK
<1> QED BY <1>1 DEF Settles, Flight

\* The steps of the queue and of a call.
LEMMA JobType ==
  ASSUME TypeOK, Locks, NEW w \in Workers, NEW j \in Jobs,
         \/ Fetch(w, j) \/ RouteToDlq(w, j) \/ RouteToDlqFault(w, j)
         \/ MoveToCompleted(w, j) \/ OnFailed(w, j) \/ OnFailedFault(w, j)
         \/ MoveToFailed(w, j)
  PROVE  TypeOK'
<1> USE LimitsAssumption, SizesAssumption, JobsAssumption
<1>1. \E s \in Held \cup {"none", "handling"} : Becomes(w, j, s)
  BY DEF Fetch, RouteToDlq, RouteToDlqFault, AfterRefusal, MoveToCompleted, OnFailed,
         OnFailedFault, MoveToFailed, Held
<1>2. call' \in [Workers -> [Jobs -> Held \cup {"none", "handling"}]]
  BY <1>1, CallType
<1>3. CASE Fetch(w, j) \/ MoveToCompleted(w, j)
  <2>1. UNCHANGED <<attemptsMade, stalls, mode, open, flights, awaited, stored, dlq, faults, stops>>
    BY <1>3 DEF Fetch, MoveToCompleted
  <2>2. /\ \E q \in {"active", "completed"} : queue' \in {queue, [queue EXCEPT ![j] = q]}
        /\ \E o \in {w, None} : lock' \in {lock, [lock EXCEPT ![j] = o]}
    BY <1>3 DEF Fetch, MoveToCompleted
  <2>3. queue' \in [Jobs -> {"none", "waiting", "active", "completed", "failed"}]
    BY <2>2 DEF TypeOK
  <2>4. lock' \in [Jobs -> Workers \cup {None}]
    BY <2>2 DEF TypeOK
  <2> QED BY <1>2, <2>1, <2>3, <2>4 DEF TypeOK
<1>4. CASE RouteToDlq(w, j) \/ RouteToDlqFault(w, j) \/ OnFailed(w, j) \/ OnFailedFault(w, j)
  <2>1. \/ dlq' = dlq
        \/ \E reason \in {"schema-validation-failed", "attempts-exhausted"} :
              dlq' = dlq \cup {Entry(reason, j)}
    BY <1>4 DEF RouteToDlq, RouteToDlqFault, OnFailed, OnFailedFault, LastReason
  <2>2. dlq' \subseteq [reason : {"schema-validation-failed", "attempts-exhausted", "flush"},
                        job : Jobs]
    BY <2>1 DEF TypeOK, Entry
  <2>3. faults' \in 0 .. MaxFaults
    BY <1>4 DEF RouteToDlq, RouteToDlqFault, OnFailed, OnFailedFault, Fault, TypeOK
  <2>4. UNCHANGED <<queueVars, mode, open, flights, awaited, stored, stops>>
    BY <1>4 DEF RouteToDlq, RouteToDlqFault, OnFailed, OnFailedFault
  <2> QED BY <1>2, <2>2, <2>3, <2>4 DEF TypeOK, queueVars
<1>5. CASE MoveToFailed(w, j)
  <2>1. UNCHANGED <<stalls, mode, open, flights, awaited, stored, dlq, faults, stops>>
    BY <1>5 DEF MoveToFailed
  <2>2. CASE lock[j] = w
    <3>1. attemptsMade[j] \in 0 .. Attempts /\ attemptsMade[j] < Attempts
      BY <2>2 DEF TypeOK, Locks
    <3>2. attemptsMade[j] + 1 \in 0 .. Attempts
      BY <3>1
    <3>3. \E q \in {"waiting", "failed"} : queue' = [queue EXCEPT ![j] = q]
      BY <1>5, <2>2 DEF MoveToFailed
    <3>4. /\ attemptsMade' = [attemptsMade EXCEPT ![j] = attemptsMade[j] + 1]
          /\ lock' = [lock EXCEPT ![j] = None]
      BY <1>5, <2>2 DEF MoveToFailed
    <3> QED BY <1>2, <2>1, <3>2, <3>3, <3>4 DEF TypeOK
  <2>3. CASE lock[j] # w
    BY <1>2, <1>5, <2>1, <2>3 DEF MoveToFailed, TypeOK
  <2> QED BY <2>2, <2>3
<1> QED BY <1>3, <1>4, <1>5

\* The steps of the accumulator and of the flush.
LEMMA BatchType ==
  ASSUME TypeOK, NEW w \in Workers, \A v \in Workers : WorkerInv(v),
         \/ \E j \in Jobs : Process(w, j)
         \/ TimerFires(w) \/ DrainFlush(w) \/ FlushStep(w)
         \/ \E f \in flights[w] : \/ FlushRejects(w, f)
                                   \/ \E j \in f.left : FlushDeadLetters(w, f, j)
  PROVE  TypeOK'
<1> USE LimitsAssumption
<1>1. CASE \E j \in Jobs : Process(w, j)
  <2>1. PICK j \in Jobs : Process(w, j)
    BY <1>1
  <2>2. UNCHANGED <<queueVars, mode, awaited, stored, dlq, faults, stops>>
    BY <2>1 DEF Process
  <2>3. call' \in [Workers -> [Jobs -> Held \cup {"none", "handling"}]]
    BY <2>1, CallType DEF Process, Add, AwaitsItsBatch, Held
  <2>4. open[w] \cup {j} \in SUBSET Jobs
    BY DEF TypeOK
  <2>5. open' \in [Workers -> SUBSET Jobs] /\ flights' \in [Workers -> SUBSET Flight]
    <3>1. CASE Detach(w, open[w] \cup {j})
      BY <2>4, <3>1, DetachType
    <3>2. CASE ~Detach(w, open[w] \cup {j})
      BY <2>1, <2>4, <3>2 DEF Process, Add, TypeOK
    <3> QED BY <3>1, <3>2
  <2> QED BY <2>2, <2>3, <2>5 DEF TypeOK, queueVars
<1>2. CASE TimerFires(w) \/ DrainFlush(w)
  <2>1. Detach(w, open[w]) /\ open[w] \in SUBSET Jobs
    BY <1>2 DEF TimerFires, DrainFlush, TypeOK
  <2>2. open' \in [Workers -> SUBSET Jobs] /\ flights' \in [Workers -> SUBSET Flight]
    BY <2>1, DetachType
  <2>3. /\ UNCHANGED <<queueVars, mode, call, stored, dlq, faults, stops>>
        /\ awaited' \in {awaited, [awaited EXCEPT ![w] = open[w]]}
    BY <1>2 DEF TimerFires, DrainFlush
  <2>4. awaited' \in [Workers -> SUBSET Jobs]
    BY <2>1, <2>3 DEF TypeOK
  <2> QED BY <2>2, <2>3, <2>4 DEF TypeOK, queueVars
<1>3. ASSUME NEW f \in flights[w], NEW j \in f.left,
             FlushStores(w, f, j) \/ FlushDeadLetters(w, f, j)
      PROVE  TypeOK'
  <2>1. flights' \in [Workers -> SUBSET Flight] /\ f \in Flight
    <3>1. flights' = [flights EXCEPT ![w] = (@ \ {f}) \cup {Settles(f, j)}]
      BY <1>3 DEF FlushStores, FlushDeadLetters
    <3> QED BY <3>1, SettlesType DEF TypeOK
  <2>2. j \in Jobs \ Malformed
    <3>1. j \in Jobs /\ j \in f.jobs
      BY <2>1 DEF Flight, WorkerInv, Progress
    <3> QED BY <3>1 DEF WorkerInv, Waiters, Batched, Calls
  <2>3. UNCHANGED <<queueVars, mode, call, open, awaited, stops>>
    BY <1>3 DEF FlushStores, FlushDeadLetters
  <2>4. stored' \subseteq Jobs \ Malformed
    BY <1>3, <2>2 DEF FlushStores, FlushDeadLetters, TypeOK
  <2>5. dlq' \in {dlq, dlq \cup {Entry("flush", j)}} /\ faults' \in 0 .. MaxFaults
    BY <1>3 DEF FlushStores, FlushDeadLetters, Fault, TypeOK
  <2> QED BY <2>1, <2>2, <2>3, <2>4, <2>5 DEF TypeOK, queueVars, Entry
<1>4. ASSUME NEW f \in flights[w], FlushResolves(w, f) \/ FlushRejects(w, f)
      PROVE  TypeOK'
  <2>1. call' \in [Workers -> [Jobs -> Held \cup {"none", "handling"}]]
    BY <1>4, WakeType DEF FlushResolves, FlushRejects, RejectWaiters, Held
  <2>2. flights' = [flights EXCEPT ![w] = @ \ {f}]
    BY <1>4 DEF FlushResolves, FlushRejects
  <2>3. flights' \in [Workers -> SUBSET Flight]
    BY <2>2 DEF TypeOK
  <2>4. UNCHANGED <<queueVars, open, stored, dlq, stops>> /\ faults' \in 0 .. MaxFaults
    BY <1>4 DEF FlushResolves, FlushRejects, Fault, TypeOK
  <2>5. /\ mode' \in [Workers -> {"up", "draining", "exiting", "down"}]
        /\ awaited' \in [Workers -> SUBSET Jobs]
    BY <1>4 DEF FlushResolves, FlushRejects, TypeOK
  <2> QED BY <2>1, <2>3, <2>4, <2>5 DEF TypeOK, queueVars
<1> QED BY <1>1, <1>2, <1>3, <1>4 DEF FlushStep

\* The steps of the process, of the queue by itself, and of nobody.
LEMMA ProcessType ==
  ASSUME TypeOK, Locks,
         \/ \E j \in Jobs : Enqueue(j) \/ StallAbandoned(j) \/ StallRunning(j)
         \/ \E w \in Workers : \/ Sigterm(w) \/ Sigkill(w) \/ DrainDone(w) \/ DrainTimesOut(w)
                                \/ ProcessExit(w) \/ Boot(w)
         \/ AllDone \/ UNCHANGED vars
  PROVE  TypeOK'
<1> USE LimitsAssumption
<1>1. CASE \E j \in Jobs : Enqueue(j) \/ StallAbandoned(j) \/ StallRunning(j)
  <2>1. PICK j \in Jobs : Enqueue(j) \/ StallAbandoned(j) \/ StallRunning(j)
    BY <1>1
  <2>2. /\ UNCHANGED <<attemptsMade, workerVars, stored, dlq, stops>>
        /\ queue' = [queue EXCEPT ![j] = "waiting"]
        /\ lock' \in {lock, [lock EXCEPT ![j] = None]}
        /\ stalls' \in {stalls, [stalls EXCEPT ![j] = @ + 1]}
    BY <2>1 DEF Enqueue, StallAbandoned, StallRunning, Stalls
  <2>3. faults' \in 0 .. MaxFaults
    BY <2>1 DEF Enqueue, StallAbandoned, StallRunning, Fault, TypeOK
  <2>4. /\ queue' \in [Jobs -> {"none", "waiting", "active", "completed", "failed"}]
        /\ lock' \in [Jobs -> Workers \cup {None}]
    BY <2>2 DEF TypeOK
  <2>5. stalls' \in [Jobs -> Nat]
    BY <2>2 DEF TypeOK
  <2> QED BY <2>2, <2>3, <2>4, <2>5 DEF TypeOK, workerVars
<1>2. CASE \E w \in Workers : Sigterm(w) \/ DrainDone(w) \/ DrainTimesOut(w) \/ Boot(w)
  <2>1. PICK w \in Workers : Sigterm(w) \/ DrainDone(w) \/ DrainTimesOut(w) \/ Boot(w)
    BY <1>2
  <2>2. /\ UNCHANGED <<queueVars, call, open, flights, stored, dlq, faults>>
        /\ \E m \in {"draining", "exiting", "up"} : mode' = [mode EXCEPT ![w] = m]
        /\ awaited' \in {awaited, [awaited EXCEPT ![w] = {}]}
    BY <2>1 DEF Sigterm, DrainDone, DrainTimesOut, DrainEnds, Boot
  <2>3. stops' \in 0 .. MaxStops
    BY <2>1 DEF Sigterm, DrainDone, DrainTimesOut, DrainEnds, Boot, Stop, TypeOK
  <2> QED BY <2>2, <2>3 DEF TypeOK, queueVars
<1>3. CASE \E w \in Workers : Sigkill(w) \/ ProcessExit(w)
  <2>1. PICK w \in Workers : Gone(w)
    BY <1>3 DEF Sigkill, ProcessExit
  <2>2. /\ mode' \in [Workers -> {"up", "draining", "exiting", "down"}]
        /\ call' \in [Workers -> [Jobs -> Held \cup {"none", "handling"}]]
        /\ open' \in [Workers -> SUBSET Jobs]
        /\ flights' \in [Workers -> SUBSET Flight]
        /\ awaited' \in [Workers -> SUBSET Jobs]
    BY <2>1 DEF Gone, TypeOK
  <2>3. UNCHANGED <<queueVars, stored, dlq, faults>>
    BY <2>1 DEF Gone
  <2>4. stops' \in 0 .. MaxStops
    BY <1>3 DEF Sigkill, ProcessExit, Stop, TypeOK
  <2> QED BY <2>2, <2>3, <2>4 DEF TypeOK, queueVars
<1>4. CASE AllDone \/ UNCHANGED vars
  BY <1>4 DEF AllDone, vars, TypeOK
<1> QED BY <1>1, <1>2, <1>3, <1>4

-----------------------------------------------------------------------------
(***************************************************************************)
(* What a step does to what the invariant of a worker speaks of.           *)
(***************************************************************************)

\* No dead letter and no stored event is taken back, and no job forgotten or revived.
Grows ==
    /\ stored \subseteq stored' /\ dlq \subseteq dlq'
    /\ \A j \in Jobs : /\ queue[j] # "none" => queue'[j] # "none"
                       /\ queue[j] = "failed" => queue'[j] = "failed"

SameWorker(w) == call'[w] = call[w] /\ open'[w] = open[w] /\ flights'[w] = flights[w]

\* What is durable stays so.
LEMMA DurableStays == ASSUME Grows, NEW j, Durable(j) PROVE Durable(j)'
  BY DEF Grows, Durable, DeadLettered

\* Whatever another worker or the queue does, a worker's own invariant stands.
LEMMA OtherWorkersKeep ==
  ASSUME NEW w \in Workers, WorkerInv(w), SameWorker(w), Grows
  PROVE  WorkerInv(w)'
<1>1. \A j \in Jobs : Durable(j) => Durable(j)'
  BY DurableStays
<1>2. Calls(w)'
  BY <1>1 DEF WorkerInv, Calls, SameWorker, Grows
<1>3. Progress(w)'
  <2>1. ASSUME NEW f \in flights[w], NEW j \in f.jobs \ f.left PROVE Durable(j)'
    BY <2>1, DurableStays DEF WorkerInv, Progress
  <2> QED BY <2>1 DEF WorkerInv, Progress, SameWorker
<1>4. Waiters(w)'
  BY DEF WorkerInv, Waiters, Batched, SameWorker
<1> QED BY <1>2, <1>3, <1>4 DEF WorkerInv

\* Only a job that is not acknowledged is acknowledged, and only a failed one dead-lettered
\* as exhausted: what has to be shown of a step for the queue's invariants.
LEMMA QueueKeeps ==
  ASSUME QueueInv, Grows, Locks',
         \A j \in Jobs : queue'[j] = "completed" => queue[j] = "completed" \/ Durable(j)',
         \A j \in Jobs : Entry("attempts-exhausted", j) \in dlq' =>
              Entry("attempts-exhausted", j) \in dlq \/ queue'[j] = "failed"
  PROVE  QueueInv'
  BY DurableStays DEF QueueInv, AckedIsDurable, ExhaustedIsOver, Grows

\* What the proof of each step establishes.
StepKeeps == Grows /\ QueueInv' /\ \A w \in Workers : WorkerInv(w)'

\* A step that leaves the queue and the stores alone, and all workers but one.
Local(w) ==
    /\ UNCHANGED <<queueVars, stored, dlq>>
    /\ \A v \in Workers \ {w} : SameWorker(v)

\* A step inside one worker that leaves the queue, the store and the DLQ alone.
LEMMA LocalStep ==
  ASSUME IInv, NEW w \in Workers, Local(w), WorkerInv(w)'
  PROVE  StepKeeps
<1>1. Grows
  BY DEF Local, Grows, queueVars
<1>2. Locks'
  BY DEF IInv, QueueInv, Locks, Local, queueVars
<1>3. QueueInv'
  BY <1>1, <1>2, QueueKeeps DEF IInv, Local, queueVars
<1>4. \A v \in Workers : WorkerInv(v)'
  BY <1>1, OtherWorkersKeep DEF IInv, Local
<1> QED BY <1>1, <1>3, <1>4 DEF StepKeeps

-----------------------------------------------------------------------------
(***************************************************************************)
(* The steps of the queue and of the calls.  None of them moves an event   *)
(* into or out of a batch.                                                 *)
(***************************************************************************)

\* A call that is not waiting for a batch goes where the invariant lets it.
LEMMA CallMoves ==
  ASSUME IInv, Grows, NEW w \in Workers, NEW j \in Jobs,
         NEW s \in {"none", "dispatched", "routing", "returned", "threw", "handling"},
         Becomes(w, j, s), UNCHANGED <<open, flights>>,
         call[w][j] # "awaiting",
         s # "none" => queue'[j] # "none",
         s = "routing" => j \in Malformed,
         s = "returned" => Durable(j)',
         s = "handling" => queue'[j] = "failed"
  PROVE  \A v \in Workers : WorkerInv(v)'
<1>1. /\ call'[w][j] = s
      /\ \A k \in Jobs \ {j} : call'[w][k] = call[w][k]
      /\ \A v \in Workers \ {w} : call'[v] = call[v]
  BY CallType DEF IInv, Held
<1>2. \A v \in Workers \ {w} : WorkerInv(v)'
  BY <1>1, OtherWorkersKeep DEF IInv, SameWorker
<1>3. Calls(w)'
  <2>1. \A k \in Jobs : Durable(k) => Durable(k)'
    BY DurableStays
  <2> QED BY <1>1, <2>1 DEF IInv, WorkerInv, Calls, Grows
<1>4. Progress(w)'
  <2>1. ASSUME NEW f \in flights[w], NEW k \in f.jobs \ f.left PROVE Durable(k)'
    BY <2>1, DurableStays DEF IInv, WorkerInv, Progress
  <2> QED BY <2>1 DEF IInv, WorkerInv, Progress
<1>5. Waiters(w)'
  BY <1>1 DEF IInv, WorkerInv, Waiters, Batched
<1> QED BY <1>2, <1>3, <1>4, <1>5 DEF WorkerInv

\* A job arrives, or its lock expires.
LEMMA QueueStep ==
  ASSUME IInv, NEW j \in Jobs, Enqueue(j) \/ StallAbandoned(j) \/ StallRunning(j)
  PROVE  StepKeeps
<1>1. /\ UNCHANGED <<attemptsMade, workerVars, stored, dlq>>
      /\ queue' = [queue EXCEPT ![j] = "waiting"]
      /\ \/ queue[j] = "none" /\ lock' = lock
         \/ queue[j] = "active" /\ lock' = [lock EXCEPT ![j] = None]
  BY DEF Enqueue, StallAbandoned, StallRunning, Stalls
<1>2. Grows
  BY <1>1 DEF Grows, IInv, TypeOK
<1>3. Locks'
  BY <1>1 DEF IInv, TypeOK, QueueInv, Locks
<1>4. \A k \in Jobs : queue'[k] = "completed" => queue[k] = "completed"
  BY <1>1 DEF IInv, TypeOK
<1>5. QueueInv'
  BY <1>1, <1>2, <1>3, <1>4, QueueKeeps DEF IInv
<1>6. \A w \in Workers : WorkerInv(w)'
  BY <1>1, <1>2, OtherWorkersKeep DEF IInv, SameWorker, workerVars
<1> QED BY <1>2, <1>5, <1>6 DEF StepKeeps

\* A fetch locks a waiting job, which no other worker can then hold.
LEMMA FetchStep ==
  ASSUME IInv, NEW w \in Workers, NEW j \in Jobs, Fetch(w, j)
  PROVE  StepKeeps
<1>1. /\ queue[j] = "waiting" /\ call[w][j] = "none"
      /\ queue' = [queue EXCEPT ![j] = "active"]
      /\ lock' = [lock EXCEPT ![j] = w]
      /\ \E s \in {"threw", "dispatched"} : Becomes(w, j, s)
      /\ UNCHANGED <<attemptsMade, open, flights, stored, dlq>>
  BY DEF Fetch
<1>2. Grows
  BY <1>1 DEF Grows, IInv, TypeOK
<1>3. Locks'
  BY <1>1, JobsAssumption DEF IInv, TypeOK, QueueInv, Locks
<1>4. \A k \in Jobs : queue'[k] = "completed" => queue[k] = "completed"
  BY <1>1 DEF IInv, TypeOK
<1>5. QueueInv'
  BY <1>1, <1>2, <1>3, <1>4, QueueKeeps DEF IInv
<1>6. \A v \in Workers : WorkerInv(v)'
  BY <1>1, <1>2, CallMoves DEF IInv, TypeOK
<1> QED BY <1>2, <1>5, <1>6 DEF StepKeeps

\* The dead letters of a call, written or refused.
LEMMA DeadLetterStep ==
  ASSUME IInv, NEW w \in Workers, NEW j \in Jobs,
         \/ RouteToDlq(w, j) \/ RouteToDlqFault(w, j)
         \/ OnFailed(w, j) \/ OnFailedFault(w, j)
  PROVE  StepKeeps
<1>1. /\ UNCHANGED <<queueVars, open, flights, stored>>
      /\ \/ dlq' = dlq
         \/ \E reason \in {"schema-validation-failed", "attempts-exhausted"} :
               dlq' = dlq \cup {Entry(reason, j)}
      /\ \/ call[w][j] = "routing" /\ DeadLettered(j)' /\ Becomes(w, j, "returned")
         \/ call[w][j] = "routing" /\ Becomes(w, j, "threw")
         \/ call[w][j] = "handling" /\ Becomes(w, j, "none")
      /\ Entry("attempts-exhausted", j) \in dlq' =>
            Entry("attempts-exhausted", j) \in dlq \/ call[w][j] = "handling"
  <2>1. CASE RouteToDlq(w, j) \/ RouteToDlqFault(w, j)
    <3>1. Entry("schema-validation-failed", j) # Entry("attempts-exhausted", j)
      BY DEF Entry
    <3>2. Entry("schema-validation-failed", j).job = j
      BY DEF Entry
    <3> QED BY <2>1, <3>1, <3>2 DEF RouteToDlq, RouteToDlqFault, AfterRefusal, DeadLettered
  <2>2. CASE OnFailed(w, j) \/ OnFailedFault(w, j)
    <3>1. LastReason(j) \in {"schema-validation-failed", "attempts-exhausted"}
      BY DEF LastReason
    <3> QED BY <2>2, <3>1 DEF OnFailed, OnFailedFault
  <2> QED BY <2>1, <2>2
<1>2. Grows
  BY <1>1 DEF Grows, queueVars
<1>3. Locks'
  BY <1>1 DEF IInv, QueueInv, Locks, queueVars
<1>4. \A k \in Jobs : Entry("attempts-exhausted", k) \in dlq' =>
          Entry("attempts-exhausted", k) \in dlq \/ queue'[k] = "failed"
  <2>1. call[w][j] = "handling" => queue'[j] = "failed"
    BY <1>1 DEF IInv, WorkerInv, Calls, queueVars
  <2>2. \A k \in Jobs : k # j =>
            \A reason : Entry("attempts-exhausted", k) # Entry(reason, j)
    BY DEF Entry
  <2> QED BY <1>1, <2>1, <2>2
<1>5. QueueInv'
  BY <1>1, <1>2, <1>3, <1>4, QueueKeeps DEF IInv, queueVars
<1>6. queue'[j] # "none"
  BY <1>1, <1>2 DEF IInv, WorkerInv, Calls, Grows
<1>7. \A v \in Workers : WorkerInv(v)'
  BY <1>1, <1>2, <1>6, CallMoves DEF Durable
<1> QED BY <1>2, <1>5, <1>7 DEF StepKeeps

\* A call ends: its job is acknowledged, retried or failed, if the lock is still the worker's.
LEMMA EndStep ==
  ASSUME IInv, NEW w \in Workers, NEW j \in Jobs, MoveToCompleted(w, j) \/ MoveToFailed(w, j)
  PROVE  StepKeeps
<1> USE DEF IInv
<1>1. /\ UNCHANGED <<open, flights, stored, dlq>>
      /\ call[w][j] \in {"returned", "threw"}
      /\ \E s \in {"none", "handling"} :
            /\ Becomes(w, j, s)
            /\ s = "handling" => queue'[j] = "failed"
      /\ \/ UNCHANGED <<queue, lock, attemptsMade>>
         \/ /\ lock[j] = w
            /\ lock' = [lock EXCEPT ![j] = None]
            /\ \E q \in {"completed", "waiting", "failed"} :
                  /\ queue' = [queue EXCEPT ![j] = q]
                  /\ q = "completed" => call[w][j] = "returned"
                  /\ q = "waiting" => attemptsMade'[j] < Attempts
            /\ \E made : attemptsMade' = [attemptsMade EXCEPT ![j] = made]
  <2>1. CASE MoveToCompleted(w, j)
    <3>1. attemptsMade' = [attemptsMade EXCEPT ![j] = attemptsMade[j]]
      BY <2>1 DEF MoveToCompleted, TypeOK
    <3> QED BY <2>1, <3>1 DEF MoveToCompleted
  <2>2. CASE MoveToFailed(w, j) /\ lock[j] = w
    <3> DEFINE made == attemptsMade[j] + 1
               q == IF made < Attempts /\ ~GivenUp(j) THEN "waiting" ELSE "failed"
               s == IF OnFinalAttempt(made) THEN "handling" ELSE "none"
    <3>1. /\ attemptsMade' = [attemptsMade EXCEPT ![j] = made]
          /\ queue' = [queue EXCEPT ![j] = q]
          /\ lock' = [lock EXCEPT ![j] = None]
          /\ Becomes(w, j, s)
          /\ call[w][j] = "threw"
          /\ UNCHANGED <<open, flights, stored, dlq>>
      BY <2>2 DEF MoveToFailed
    <3>2. made \in Nat /\ Attempts \in Nat
      BY SizesAssumption DEF TypeOK
    <3>3. attemptsMade'[j] = made /\ queue'[j] = q
      BY <3>1 DEF TypeOK
    <3>4. s = "handling" => q = "failed"
      BY <3>2 DEF OnFinalAttempt
    <3> QED BY <2>2, <3>1, <3>3, <3>4
  <2>3. CASE MoveToFailed(w, j) /\ lock[j] # w
    BY <2>3 DEF MoveToFailed
  <2> QED BY <2>1, <2>2, <2>3
<1>2. queue[j] # "none" /\ (lock[j] = w => queue[j] = "active")
  BY <1>1, JobsAssumption DEF WorkerInv, Calls, QueueInv, Locks
<1>3. Grows
  BY <1>1, <1>2 DEF Grows, TypeOK
<1>4. Locks'
  BY <1>1, <1>2 DEF TypeOK, QueueInv, Locks
<1>5. \A k \in Jobs : queue'[k] = "completed" => queue[k] = "completed" \/ Durable(k)'
  <2>1. call[w][j] = "returned" => Durable(j)'
    BY <1>3, DurableStays DEF WorkerInv, Calls
  <2> QED BY <1>1, <2>1 DEF TypeOK
<1>6. QueueInv'
  BY <1>1, <1>3, <1>4, <1>5, QueueKeeps
<1>7. \A v \in Workers : WorkerInv(v)'
  BY <1>1, <1>2, <1>3, CallMoves DEF Grows
<1> QED BY <1>3, <1>6, <1>7 DEF StepKeeps

-----------------------------------------------------------------------------
(***************************************************************************)
(* The steps that move events into batches, and batches out.               *)
(***************************************************************************)

\* The open batch takes off, whatever opened it.
LEMMA DetachStep ==
  ASSUME IInv, NEW w \in Workers, TimerFires(w) \/ DrainFlush(w)
  PROVE  StepKeeps
<1> DEFINE new == [jobs |-> open[w], left |-> open[w]]
<1>1. /\ UNCHANGED <<queueVars, call, stored, dlq>>
      /\ Detach(w, open[w])
  BY DEF TimerFires, DrainFlush
<1>2. /\ open'[w] = {}
      /\ flights'[w] = flights[w] \cup {new}
      /\ \A v \in Workers \ {w} : open'[v] = open[v] /\ flights'[v] = flights[v]
  BY <1>1, DetachType DEF IInv, TypeOK
<1>3. Local(w)
  BY <1>1, <1>2 DEF Local, SameWorker
<1>4. \A j : Durable(j)' <=> Durable(j)
  BY <1>1 DEF Durable, DeadLettered
<1>5. Calls(w)'
  BY <1>1, <1>4 DEF IInv, WorkerInv, Calls, queueVars
<1>6. Progress(w)'
  BY <1>2, <1>4 DEF IInv, WorkerInv, Progress
<1>7. Waiters(w)'
  <2>1. new.jobs = open[w]
    OBVIOUS
  <2> HIDE DEF new
  <2>2. \A j \in Jobs : Batched(w, j)' <=> Batched(w, j)
    BY <1>2, <2>1 DEF Batched
  <2>3. \A j \in Jobs : call'[w][j] = "awaiting" <=> Batched(w, j)'
    BY <1>1, <2>2 DEF IInv, WorkerInv, Waiters
  <2>4. \A f \in flights'[w] : f.jobs \cap open'[w] = {}
    BY <1>2
  <2>5. \A f, g \in flights'[w] : f = g \/ f.jobs \cap g.jobs = {}
    BY <1>2, <2>1 DEF IInv, WorkerInv, Waiters
  <2> QED BY <2>3, <2>4, <2>5 DEF Waiters
<1> QED BY <1>3, <1>5, <1>6, <1>7, LocalStep DEF WorkerInv

\* An event joins the open batch, which leaves if that fills it.
LEMMA ProcessStep ==
  ASSUME IInv, NEW w \in Workers, NEW j \in Jobs, Process(w, j)
  PROVE  StepKeeps
<1> USE DEF IInv
<1>1. UNCHANGED <<queueVars, stored, dlq>> /\ call[w][j] = "dispatched"
  BY DEF Process
<1>2. Grows
  BY <1>1 DEF Grows, queueVars
<1>3. queue[j] # "none"
  BY <1>1 DEF WorkerInv, Calls
<1>4. \A k : Durable(k)' <=> Durable(k)
  BY <1>1 DEF Durable, DeadLettered
<1>5. CASE FailsSchema(j)
  <2>1. Becomes(w, j, "routing") /\ UNCHANGED <<open, flights>>
    BY <1>5 DEF Process
  <2>2. \A v \in Workers : WorkerInv(v)'
    BY <1>1, <1>2, <1>3, <1>5, <2>1, CallMoves DEF FailsSchema, queueVars
  <2>3. Local(w)
    BY <1>1, <2>1, CallType DEF Local, SameWorker, Held
  <2> QED BY <2>2, <2>3, LocalStep
<1>6. CASE ~FailsSchema(j)
  <2> DEFINE b == open[w] \cup {j}
             new == [jobs |-> b, left |-> b]
  <2>1. Add(w, j)
    BY <1>6 DEF Process
  <2>2. /\ call'[w][j] = "awaiting"
        /\ \A k \in Jobs \ {j} : call'[w][k] = call[w][k]
        /\ \A v \in Workers \ {w} : call'[v] = call[v]
    BY <2>1, CallType DEF Add, AwaitsItsBatch, Held
  <2>3. b \in SUBSET Jobs
    BY DEF TypeOK
  <2>4. /\ \A v \in Workers \ {w} : open'[v] = open[v] /\ flights'[v] = flights[v]
        /\ \/ open'[w] = {} /\ flights'[w] = flights[w] \cup {new}
           \/ open'[w] = b /\ flights'[w] = flights[w]
    <3>1. CASE Detach(w, b)
      BY <2>3, <3>1, DetachType
    <3>2. CASE ~Detach(w, b)
      BY <2>1, <3>2 DEF Add, TypeOK
    <3> QED BY <3>1, <3>2
  <2>5. Local(w)
    BY <1>1, <2>2, <2>4 DEF Local, SameWorker
  <2>6. ~Batched(w, j)
    BY <1>1 DEF WorkerInv, Waiters
  <2>7. Calls(w)'
    BY <1>1, <1>3, <1>4, <1>6, <2>2 DEF WorkerInv, Calls, queueVars, FailsSchema
  <2>8. Progress(w)'
    BY <1>4, <2>4 DEF WorkerInv, Progress
  <2>9. Waiters(w)'
    <3>1. \A k \in Jobs : Batched(w, k)' <=> Batched(w, k) \/ k = j
      <4>1. new.jobs = b /\ \A k : k \in b <=> k \in open[w] \/ k = j
        OBVIOUS
      <4> HIDE DEF b, new
      <4>2. CASE open'[w] = {} /\ flights'[w] = flights[w] \cup {new}
        BY <4>1, <4>2 DEF Batched
      <4>3. CASE open'[w] = b /\ flights'[w] = flights[w]
        BY <4>1, <4>3 DEF Batched
      <4> QED BY <2>4, <4>2, <4>3
    <3>2. \A k \in Jobs : call'[w][k] = "awaiting" <=> Batched(w, k)'
      BY <2>2, <3>1 DEF WorkerInv, Waiters
    <3>3. \A f \in flights[w] : f.jobs \cap b = {}
      BY <2>6 DEF WorkerInv, Waiters, Batched
    <3>4. \A f, g \in flights[w] : f = g \/ f.jobs \cap g.jobs = {}
      BY DEF WorkerInv, Waiters
    <3>5. new.jobs = b
      OBVIOUS
    <3> HIDE DEF b, new
    <3>6. CASE open'[w] = {} /\ flights'[w] = flights[w] \cup {new}
      BY <3>2, <3>3, <3>4, <3>5, <3>6 DEF Waiters
    <3>7. CASE open'[w] = b /\ flights'[w] = flights[w]
      BY <3>2, <3>3, <3>4, <3>7 DEF Waiters
    <3> QED BY <2>4, <3>6, <3>7
  <2> QED BY <2>5, <2>7, <2>8, <2>9, LocalStep DEF WorkerInv
<1> QED BY <1>5, <1>6

\* A flush makes an event durable, one way or the other.
LEMMA SettleStep ==
  ASSUME IInv, NEW w \in Workers, NEW f \in flights[w], NEW j \in f.left,
         FlushStores(w, f, j) \/ FlushDeadLetters(w, f, j)
  PROVE  StepKeeps
<1> USE DEF IInv
<1> DEFINE rest == [jobs |-> f.jobs, left |-> f.left \ {j}]
<1>1. /\ UNCHANGED <<queueVars, call, open>>
      /\ \/ dlq' = dlq /\ stored' = stored \cup {j}
         \/ dlq' = dlq \cup {Entry("flush", j)} /\ stored' = stored
      /\ flights' = [flights EXCEPT ![w] = (@ \ {f}) \cup {Settles(f, j)}]
  BY DEF FlushStores, FlushDeadLetters
<1>2. /\ flights'[w] = (flights[w] \ {f}) \cup {rest}
      /\ \A v \in Workers \ {w} : flights'[v] = flights[v]
  <2>1. Settles(f, j) = rest
    BY SettlesType
  <2> QED BY <1>1, <2>1 DEF TypeOK
<1>3. Grows
  BY <1>1 DEF Grows, queueVars
<1>4. Durable(j)'
  <2>1. Entry("flush", j).job = j
    BY DEF Entry
  <2> QED BY <1>1, <2>1 DEF Durable, DeadLettered
<1>5. Locks'
  BY <1>1 DEF QueueInv, Locks, queueVars
<1>6. \A k \in Jobs : Entry("attempts-exhausted", k) \in dlq' =>
          Entry("attempts-exhausted", k) \in dlq
  BY <1>1 DEF Entry
<1>7. QueueInv'
  BY <1>1, <1>3, <1>5, <1>6, QueueKeeps DEF queueVars
<1>8. \A v \in Workers \ {w} : WorkerInv(v)'
  BY <1>1, <1>2, <1>3, OtherWorkersKeep DEF SameWorker
<1>9. Calls(w)'
  <2>1. \A k \in Jobs : Durable(k) => Durable(k)'
    BY <1>3, DurableStays
  <2> QED BY <1>1, <2>1 DEF WorkerInv, Calls, queueVars
<1>10. Progress(w)'
  <2>1. ASSUME NEW g \in flights[w], NEW k \in g.jobs \ g.left PROVE Durable(k)'
    BY <1>3, <2>1, DurableStays DEF WorkerInv, Progress
  <2> QED BY <1>2, <1>4, <2>1 DEF WorkerInv, Progress
<1>11. Waiters(w)'
  <2>1. rest.jobs = f.jobs
    OBVIOUS
  <2> HIDE DEF rest
  <2>2. \A k \in Jobs : Batched(w, k)' <=> Batched(w, k)
    BY <1>1, <1>2, <2>1 DEF Batched
  <2>3. \A k \in Jobs : call'[w][k] = "awaiting" <=> Batched(w, k)'
    BY <1>1, <2>2 DEF WorkerInv, Waiters
  <2>4. \A g \in flights'[w] : g.jobs \cap open'[w] = {}
    BY <1>1, <1>2, <2>1 DEF WorkerInv, Waiters
  <2>5. \A g, h \in flights'[w] : g = h \/ g.jobs \cap h.jobs = {}
    BY <1>2, <2>1 DEF WorkerInv, Waiters
  <2> QED BY <2>3, <2>4, <2>5 DEF Waiters
<1> QED BY <1>3, <1>7, <1>8, <1>9, <1>10, <1>11 DEF StepKeeps, WorkerInv

\* A flush ends, and wakes the calls of its batch.
LEMMA WakeStep ==
  ASSUME IInv, NEW w \in Workers, NEW f \in flights[w],
         FlushResolves(w, f) \/ FlushRejects(w, f)
  PROVE  StepKeeps
<1> USE DEF IInv
<1>1. /\ UNCHANGED <<queueVars, open, stored, dlq>>
      /\ flights' = [flights EXCEPT ![w] = @ \ {f}]
      /\ \/ Wake(w, f.jobs, "returned") /\ f.left = {}
         \/ Wake(w, f.jobs, "threw")
  BY DEF FlushResolves, FlushRejects, RejectWaiters
<1>2. /\ flights'[w] = flights[w] \ {f}
      /\ \A v \in Workers \ {w} : flights'[v] = flights[v]
  BY <1>1 DEF TypeOK
<1>3. \E s \in {"returned", "threw"} :
          /\ \A j \in Jobs : call'[w][j] = IF j \in f.jobs THEN s ELSE call[w][j]
          /\ s = "returned" => f.left = {}
      /\ \A v \in Workers \ {w} : call'[v] = call[v]
  BY <1>1, WakeType DEF Held
<1>4. Local(w)
  BY <1>1, <1>2, <1>3 DEF Local, SameWorker
<1>5. \A j : Durable(j)' <=> Durable(j)
  BY <1>1 DEF Durable, DeadLettered
<1>6. \A j \in Jobs : j \in f.jobs => queue[j] # "none" /\ (f.left = {} => Durable(j))
  BY DEF WorkerInv, Waiters, Batched, Calls, Progress
<1>7. Calls(w)'
  BY <1>1, <1>3, <1>5, <1>6 DEF WorkerInv, Calls, queueVars
<1>8. Progress(w)'
  BY <1>2, <1>5 DEF WorkerInv, Progress
<1>9. Waiters(w)'
  BY <1>1, <1>2, <1>3 DEF WorkerInv, Waiters, Batched
<1> QED BY <1>4, <1>7, <1>8, <1>9, LocalStep DEF WorkerInv

\* A process is told to stop, stops waiting, is gone or starts.
LEMMA ProcessStops ==
  ASSUME IInv, NEW w \in Workers,
         \/ Sigterm(w) \/ Sigkill(w) \/ DrainDone(w) \/ DrainTimesOut(w)
         \/ ProcessExit(w) \/ Boot(w)
  PROVE  StepKeeps
<1> USE DEF IInv
<1>1. CASE Sigterm(w) \/ DrainDone(w) \/ DrainTimesOut(w) \/ Boot(w)
  <2>1. UNCHANGED <<queueVars, call, open, flights, stored, dlq>>
    BY <1>1 DEF Sigterm, DrainDone, DrainTimesOut, DrainEnds, Boot
  <2>2. Local(w) /\ Grows /\ SameWorker(w)
    BY <2>1 DEF Local, SameWorker, Grows, queueVars
  <2> QED BY <2>2, LocalStep, OtherWorkersKeep
<1>2. CASE Gone(w)
  <2>1. /\ call'[w] = [j \in Jobs |-> "none"] /\ open'[w] = {} /\ flights'[w] = {}
        /\ \A v \in Workers \ {w} : SameWorker(v)
        /\ UNCHANGED <<queueVars, stored, dlq>>
    BY <1>2 DEF Gone, TypeOK, SameWorker
  <2>2. Local(w)
    BY <2>1 DEF Local
  <2>3. WorkerInv(w)'
    BY <2>1 DEF WorkerInv, Calls, Progress, Waiters, Batched
  <2> QED BY <2>2, <2>3, LocalStep
<1> QED BY <1>1, <1>2 DEF Sigkill, ProcessExit

-----------------------------------------------------------------------------
(***************************************************************************)
(* The invariant and the theorems.                                         *)
(***************************************************************************)

\* No job has been captured in an initial state.
LEMMA InitInv == Init => IInv
<1> SUFFICES ASSUME Init PROVE IInv
  OBVIOUS
<1>1. TypeOK
  BY SizesAssumption, LimitsAssumption DEF Init, TypeOK
<1>2. QueueInv
  BY SizesAssumption DEF Init, QueueInv, Locks, AckedIsDurable, ExhaustedIsOver
<1>3. ASSUME NEW w \in Workers PROVE WorkerInv(w)
  BY <1>3 DEF Init, WorkerInv, Calls, Progress, Waiters, Batched
<1> QED BY <1>1, <1>2, <1>3 DEF IInv

\* Nobody does anything.
LEMMA IdleStep ==
  ASSUME IInv, UNCHANGED vars
  PROVE  StepKeeps
<1>1. /\ UNCHANGED <<queueVars, stored, dlq>>
      /\ \A w \in Workers : SameWorker(w)
  BY DEF vars, queueVars, SameWorker
<1>2. Grows /\ Locks'
  BY <1>1 DEF Grows, queueVars, IInv, QueueInv, Locks
<1>3. QueueInv'
  BY <1>1, <1>2, QueueKeeps DEF IInv, queueVars
<1> QED BY <1>1, <1>2, <1>3, OtherWorkersKeep DEF IInv, StepKeeps

\* Every step keeps what has been accepted, and keeps the invariant.
LEMMA StepInv ==
  ASSUME IInv, [Next]_vars
  PROVE  IInv'
<1> SUFFICES TypeOK' /\ StepKeeps
  BY DEF IInv, StepKeeps
<1>1. ASSUME NEW w \in Workers, NEW j \in Jobs, JobStep(w, j) PROVE TypeOK' /\ StepKeeps
  <2>1. CASE Process(w, j)
    BY <2>1, BatchType, ProcessStep DEF IInv
  <2> QED
    BY <1>1, <2>1, JobType, FetchStep, DeadLetterStep, EndStep DEF JobStep, IInv, QueueInv
<1>2. ASSUME NEW w \in Workers, FlushStep(w) PROVE TypeOK' /\ StepKeeps
  BY <1>2, BatchType, SettleStep, WakeStep DEF FlushStep, IInv
<1>3. ASSUME NEW w \in Workers, WorkerStep(w) PROVE TypeOK' /\ StepKeeps
  <2>1. CASE TimerFires(w) \/ DrainFlush(w)
    BY <2>1, BatchType, DetachStep DEF IInv
  <2>2. CASE DrainDone(w) \/ ProcessExit(w) \/ Boot(w)
    BY <2>2, ProcessType, ProcessStops DEF IInv, QueueInv
  <2> QED BY <1>1, <1>2, <1>3, <2>1, <2>2 DEF WorkerStep
<1>4. ASSUME NEW w \in Workers, Failure(w) PROVE TypeOK' /\ StepKeeps
  <2>1. CASE \E j \in Jobs : RouteToDlqFault(w, j) \/ OnFailedFault(w, j)
    BY <2>1, JobType, DeadLetterStep DEF IInv, QueueInv
  <2>2. CASE \E f \in flights[w] : \/ FlushRejects(w, f)
                                   \/ \E j \in f.left : FlushDeadLetters(w, f, j)
    BY <2>2, BatchType, SettleStep, WakeStep DEF IInv
  <2>3. CASE Sigterm(w) \/ Sigkill(w) \/ DrainTimesOut(w)
    BY <2>3, ProcessType, ProcessStops DEF IInv, QueueInv
  <2> QED BY <1>4, <2>1, <2>2, <2>3 DEF Failure
<1>5. ASSUME NEW j \in Jobs, Enqueue(j) \/ StallAbandoned(j) \/ StallRunning(j)
      PROVE  TypeOK' /\ StepKeeps
  BY <1>5, ProcessType, QueueStep DEF IInv, QueueInv
<1>6. ASSUME UNCHANGED vars PROVE TypeOK' /\ StepKeeps
  <2>1. TypeOK'
    BY <1>6, ProcessType DEF IInv, QueueInv
  <2>2. StepKeeps
    BY <1>6, IdleStep
  <2> QED BY <2>1, <2>2
<1>7. CASE UNCHANGED vars
  BY <1>6, <1>7
<1>8. CASE Next
  <2>1. \/ \E w \in Workers : WorkerStep(w) \/ Failure(w)
        \/ \E j \in Jobs : Enqueue(j) \/ StallAbandoned(j) \/ StallRunning(j)
        \/ UNCHANGED vars
    BY <1>8 DEF Next, AllDone
  <2> QED BY <1>3, <1>4, <1>5, <1>6, <2>1
<1> QED BY <1>7, <1>8

\* The strengthened invariant holds in every reachable state.
THEOREM Invariance == Spec => []IInv
<1>1. IInv /\ [Next]_vars => IInv'
  BY StepInv
<1> QED BY <1>1, InitInv, PTL DEF Spec

\* Every variable keeps its type.
THEOREM TypeCorrect == Spec => []TypeOK
<1>1. IInv => TypeOK
  BY DEF IInv
<1> QED BY <1>1, Invariance, PTL

\* A job is acknowledged only once its event is durable (events.consumer.ts: process()
\* awaits the flush that add() promised).
THEOREM AckIsDurable == Spec => []AckedIsDurable
<1>1. IInv => AckedIsDurable
  BY DEF IInv, QueueInv
<1> QED BY <1>1, Invariance, PTL

\* A job dead-lettered as exhausted has no attempt left (events.consumer.ts: onFailed).
THEOREM ExhaustedOver == Spec => []ExhaustedIsOver
<1>1. IInv => ExhaustedIsOver
  BY DEF IInv, QueueInv
<1> QED BY <1>1, Invariance, PTL

\* A worker's calls wait for the events in its batches, each for one batch
\* (accumulator.ts: triggerFlush detaches the batch before its flush).
THEOREM WaitersHeld == Spec => []WaitersAreHeld
<1>1. ASSUME IInv PROVE WaitersAreHeld
  <2>1. ASSUME NEW w \in Workers PROVE Pending(w) \ Malformed = UNION Batches(w)
    <3>1. \A j \in Jobs : j \in Pending(w) \ Malformed <=> call[w][j] = "awaiting"
      BY <1>1 DEF Pending, IInv, WorkerInv, Calls
    <3>2. \A j : j \in UNION Batches(w) <=> Batched(w, j)
      BY DEF Batches, Batched
    <3>3. UNION Batches(w) \subseteq Jobs
      BY <1>1 DEF Batches, IInv, TypeOK, Flight
    <3> QED BY <1>1, <3>1, <3>2, <3>3 DEF IInv, WorkerInv, Waiters, Pending
  <2> QED BY <1>1, <2>1 DEF WaitersAreHeld, IInv, WorkerInv, Waiters
<1> QED BY <1>1, Invariance, PTL

\* A drain that ends by itself leaves no batch behind, open or in flight (shutdown.ts:
\* drain() polls pendingJobCount and size()).
THEOREM DrainLeavesNone == Spec => DrainLeavesNoBatch
<1>1. WaitersAreHeld => \A w \in Workers : DrainDone(w) => UNION Batches(w) = {}
  BY DEF WaitersAreHeld, DrainDone, NothingPending
<1>2. WaitersAreHeld => [\A w \in Workers : DrainDone(w) => UNION Batches(w) = {}]_vars
  BY <1>1
<1> QED BY <1>2, WaitersHeld, PTL DEF DrainLeavesNoBatch

-----------------------------------------------------------------------------
(***************************************************************************)
(* Refinement: what each step is to whoever sees only which jobs are       *)
(* accepted, durable, acknowledged and parked.                             *)
(***************************************************************************)

\* The jobs in a state of the queue, which the promise speaks of.
SameSets ==
    /\ \A k \in Jobs : queue'[k] = "none" <=> queue[k] = "none"
    /\ \A k \in Jobs : queue'[k] = "completed" <=> queue[k] = "completed"
    /\ \A k \in Jobs : queue'[k] = "failed" <=> queue[k] = "failed"

\* A step that moves no job and writes nothing is a stutter.
LEMMA Stutter ==
  ASSUME SameSets, UNCHANGED <<stored, dlq>>
  PROVE  UNCHANGED Promise!vars
<1>1. \A k : Durable(k)' <=> Durable(k)
  BY DEF Durable, DeadLettered
<1> QED BY <1>1 DEF SameSets, Promise!vars

\* A job that becomes durable, or was, while the queue stays as it is.
LEMMA Secures ==
  ASSUME IInv, NEW j \in Jobs, queue[j] # "none", UNCHANGED queue,
         stored' \in {stored, stored \cup {j}},
         \/ dlq' = dlq
         \/ \E reason \in {"schema-validation-failed", "attempts-exhausted", "flush"} :
               dlq' = dlq \cup {Entry(reason, j)}
  PROVE  [Promise!Next]_(Promise!vars)
<1>1. \A k \in Jobs : Durable(k)' <=> Durable(k) \/ (k = j /\ Durable(j)')
  BY DEF Durable, DeadLettered, Entry
<1>2. CASE Durable(j)'
  BY <1>1, <1>2 DEF Promise!Next, Promise!Secure
<1>3. CASE ~Durable(j)'
  BY <1>1, <1>3 DEF Promise!vars
<1> QED BY <1>2, <1>3

\* A step of a call.
LEMMA CallPromise ==
  ASSUME IInv, NEW w \in Workers, NEW j \in Jobs,
         \/ Fetch(w, j) \/ Process(w, j) \/ RouteToDlq(w, j) \/ RouteToDlqFault(w, j)
         \/ MoveToCompleted(w, j) \/ MoveToFailed(w, j) \/ OnFailed(w, j)
         \/ OnFailedFault(w, j)
  PROVE  [Promise!Next]_(Promise!vars)
<1> USE DEF IInv
<1>1. CASE Fetch(w, j)
  <2>1. SameSets /\ UNCHANGED <<stored, dlq>>
    BY <1>1 DEF Fetch, SameSets, TypeOK
  <2> QED BY <2>1, Stutter
<1>2. CASE Process(w, j)
  <2>1. SameSets /\ UNCHANGED <<stored, dlq>>
    BY <1>2 DEF Process, SameSets, queueVars
  <2> QED BY <2>1, Stutter
<1>3. CASE RouteToDlq(w, j) \/ RouteToDlqFault(w, j) \/ OnFailed(w, j) \/ OnFailedFault(w, j)
  <2>1. /\ UNCHANGED <<queue, stored>>
        /\ call[w][j] # "none"
        /\ \/ dlq' = dlq
           \/ \E reason \in {"schema-validation-failed", "attempts-exhausted", "flush"} :
                 dlq' = dlq \cup {Entry(reason, j)}
    BY <1>3 DEF RouteToDlq, RouteToDlqFault, OnFailed, OnFailedFault, LastReason, queueVars
  <2>2. queue[j] # "none"
    BY <2>1 DEF WorkerInv, Calls
  <2> QED BY <2>1, <2>2, Secures
<1>4. CASE (MoveToCompleted(w, j) \/ MoveToFailed(w, j)) /\ lock[j] = w
  <2>1. queue[j] = "active"
    BY <1>4, JobsAssumption DEF QueueInv, Locks
  <2>2. UNCHANGED <<stored, dlq>>
    BY <1>4 DEF MoveToCompleted, MoveToFailed
  <2>3. \A k : Durable(k)' <=> Durable(k)
    BY <2>2 DEF Durable, DeadLettered
  <2>4. CASE queue' = [queue EXCEPT ![j] = "completed"] /\ MoveToCompleted(w, j)
    <3>1. Durable(j)
      BY <2>4 DEF MoveToCompleted, WorkerInv, Calls
    <3>2. \A k \in Jobs : /\ queue'[k] = "none" <=> queue[k] = "none"
                          /\ queue'[k] = "completed" <=> queue[k] = "completed" \/ k = j
                          /\ queue'[k] = "failed" <=> queue[k] = "failed"
      BY <2>1, <2>4 DEF TypeOK
    <3> QED BY <2>1, <2>3, <3>1, <3>2 DEF Promise!Next, Promise!Acknowledge
  <2>5. CASE queue' = [queue EXCEPT ![j] = "failed"]
    <3>1. \A k \in Jobs : /\ queue'[k] = "none" <=> queue[k] = "none"
                          /\ queue'[k] = "completed" <=> queue[k] = "completed"
                          /\ queue'[k] = "failed" <=> queue[k] = "failed" \/ k = j
      BY <2>1, <2>5 DEF TypeOK
    <3> QED BY <2>1, <2>3, <3>1 DEF Promise!Next, Promise!Park
  <2>6. CASE queue' = [queue EXCEPT ![j] = "waiting"]
    <3>1. SameSets
      BY <2>1, <2>6 DEF SameSets, TypeOK
    <3> QED BY <2>2, <3>1, Stutter
  <2> QED BY <1>4, <2>4, <2>5, <2>6 DEF MoveToCompleted, MoveToFailed
<1>5. CASE (MoveToCompleted(w, j) \/ MoveToFailed(w, j)) /\ lock[j] # w
  <2>1. SameSets /\ UNCHANGED <<stored, dlq>>
    BY <1>5 DEF MoveToCompleted, MoveToFailed, SameSets
  <2> QED BY <2>1, Stutter
<1> QED BY <1>1, <1>2, <1>3, <1>4, <1>5

\* A step of a flush.
LEMMA FlushPromise ==
  ASSUME IInv, NEW w \in Workers, NEW f \in flights[w],
         \/ FlushResolves(w, f) \/ FlushRejects(w, f)
         \/ \E j \in f.left : FlushStores(w, f, j) \/ FlushDeadLetters(w, f, j)
  PROVE  [Promise!Next]_(Promise!vars)
<1> USE DEF IInv
<1>1. CASE FlushResolves(w, f) \/ FlushRejects(w, f)
  <2>1. SameSets /\ UNCHANGED <<stored, dlq>>
    BY <1>1 DEF FlushResolves, FlushRejects, SameSets, queueVars
  <2> QED BY <2>1, Stutter
<1>2. ASSUME NEW j \in f.left, FlushStores(w, f, j) \/ FlushDeadLetters(w, f, j)
      PROVE  [Promise!Next]_(Promise!vars)
  <2>1. j \in Jobs /\ j \in f.jobs
    BY SettlesType DEF Flight, WorkerInv, Progress
  <2>2. queue[j] # "none"
    BY <2>1 DEF WorkerInv, Waiters, Batched, Calls
  <2>3. /\ UNCHANGED queue
        /\ stored' \in {stored, stored \cup {j}}
        /\ \/ dlq' = dlq
           \/ \E reason \in {"schema-validation-failed", "attempts-exhausted", "flush"} :
                 dlq' = dlq \cup {Entry(reason, j)}
    BY <1>2 DEF FlushStores, FlushDeadLetters, queueVars
  <2> QED BY <2>1, <2>2, <2>3, Secures
<1> QED BY <1>1, <1>2

\* A step of the queue by itself.
LEMMA QueuePromise ==
  ASSUME IInv, NEW j \in Jobs, Enqueue(j) \/ StallAbandoned(j) \/ StallRunning(j)
  PROVE  [Promise!Next]_(Promise!vars)
<1> USE DEF IInv
<1>1. CASE Enqueue(j)
  <2>1. \A k : Durable(k)' <=> Durable(k)
    BY <1>1 DEF Enqueue, Durable, DeadLettered
  <2>2. \A k \in Jobs : /\ queue'[k] # "none" <=> queue[k] # "none" \/ k = j
                        /\ queue'[k] = "completed" <=> queue[k] = "completed"
                        /\ queue'[k] = "failed" <=> queue[k] = "failed"
    BY <1>1 DEF Enqueue, TypeOK
  <2> QED BY <1>1, <2>1, <2>2 DEF Enqueue, Promise!Next, Promise!Accept
<1>2. CASE StallAbandoned(j) \/ StallRunning(j)
  <2>1. SameSets /\ UNCHANGED <<stored, dlq>>
    BY <1>2 DEF StallAbandoned, StallRunning, Stalls, SameSets, TypeOK
  <2> QED BY <2>1, Stutter
<1> QED BY <1>1, <1>2

\* Every step is one of the promise's, or none.
LEMMA StepPromise ==
  ASSUME IInv, [Next]_vars
  PROVE  [Promise!Next]_(Promise!vars)
<1>1. ASSUME UNCHANGED <<queue, stored, dlq>> PROVE [Promise!Next]_(Promise!vars)
  BY <1>1, Stutter DEF SameSets
<1>2. ASSUME NEW w \in Workers, WorkerStep(w) \/ Failure(w)
      PROVE  [Promise!Next]_(Promise!vars)
  <2>1. CASE \E j \in Jobs : JobStep(w, j) \/ RouteToDlqFault(w, j) \/ OnFailedFault(w, j)
    BY <2>1, CallPromise DEF JobStep
  <2>2. CASE \E f \in flights[w] : \/ FlushResolves(w, f) \/ FlushRejects(w, f)
                                   \/ \E j \in f.left : \/ FlushStores(w, f, j)
                                                         \/ FlushDeadLetters(w, f, j)
    BY <2>2, FlushPromise
  <2>3. CASE \/ TimerFires(w) \/ DrainFlush(w) \/ DrainDone(w) \/ ProcessExit(w) \/ Boot(w)
             \/ Sigterm(w) \/ Sigkill(w) \/ DrainTimesOut(w)
    <3>1. UNCHANGED <<queue, stored, dlq>>
      BY <2>3 DEF TimerFires, DrainFlush, DrainDone, ProcessExit, Boot, Sigterm, Sigkill,
                  DrainTimesOut, DrainEnds, Gone, queueVars
    <3> QED BY <1>1, <3>1
  <2> QED BY <1>2, <2>1, <2>2, <2>3 DEF WorkerStep, FlushStep, Failure
<1>3. CASE UNCHANGED vars
  BY <1>1, <1>3 DEF vars
<1> QED BY <1>1, <1>2, <1>3, QueuePromise DEF Next, AllDone, vars

\* The worker implements at-least-once delivery: its deliveries, however they overlap,
\* fail or die, acknowledge a job once, after its event is durable, and never one that the
\* queue has given up (events.consumer.ts: process() and onFailed()).
THEOREM Implements == Spec => KeepsPromise
<1>1. Init => Promise!Init
  BY DEF Init, Promise!Init, Durable, DeadLettered
<1>2. IInv /\ [Next]_vars => [Promise!Next]_(Promise!vars)
  BY StepPromise
<1> QED BY <1>1, <1>2, Invariance, PTL DEF Spec, KeepsPromise, Promise!Spec

=============================================================================
