--------------------------- MODULE BatchFlushProofs ---------------------------
(***************************************************************************)
(* Safety of BatchFlush for any set of events, any poison among them, any  *)
(* number of overlapping calls and any bounds.                             *)
(*                                                                         *)
(* RowsAreLogged and PoisonCostsOneRow are not inductive: what keeps a PUT *)
(* from destroying records that rows rely on is that no two sub-batches    *)
(* of a call ever share an id, and what keeps a split from dropping an     *)
(* event is that the pending slices always cover what is not settled.      *)
(* IInv adds both, sub-batch by sub-batch.                                 *)
(***************************************************************************)
EXTENDS BatchFlush, TLAPS, SequenceTheorems, FiniteSetTheorems, WellFoundedInduction

-----------------------------------------------------------------------------
(***************************************************************************)
(* The inductive invariant.                                                *)
(***************************************************************************)

\* Id p is q or one of the ids q was split from.
Above(p, q) == Len(p) <= Len(q) /\ \A k \in 1 .. Len(p) : p[k] = q[k]

\* The pending sub-batches are disjoint slices of the batch.
Slices(c) ==
    /\ \A f \in pending[c] : 1 <= f.lo /\ f.lo <= f.hi /\ f.hi <= Len(batch[c])
    /\ \A f, g \in pending[c] : f = g \/ f.hi < g.lo \/ g.hi < f.lo

\* No pending sub-batch has another's id or one derived from it, and the only object
\* a pending sub-batch may overwrite is its own.
Ids(c) ==
    /\ \A f, g \in pending[c] : Above(f.path, g.path) => f = g
    /\ \A f \in pending[c], o \in r2 :
          o.key[1] = c /\ Above(f.path, o.key[2]) =>
              o.key[2] = f.path /\ o.events = Slice(c, f)

\* Nothing is in R2 under the id of a call that has not begun.
Fresh(c) == pc[c] = "idle" => \A o \in r2 : o.key[1] # c

\* The INSERT runs when the object of the same sub-batch is in the log; so does a
\* row fault blame it.
Written(c) ==
    \/ pc[c] = "insert"
    \/ pc[c] = "threw" /\ verdict[c] = "row-fault"
    => \A f \in pending[c] : InFlight(c, f) =>
          \E o \in r2 : o.key = <<c, f.path>> /\ o.events = Slice(c, f)

\* A row fault means that the sub-batch holds a poison event.
Blamed(c) ==
    pc[c] = "threw" /\ verdict[c] = "row-fault" =>
        \A f \in pending[c] : InFlight(c, f) => Slice(c, f) \cap Poison # {}

Isolated(c) ==
    \A i \in poisoned[c] : /\ i \in DOMAIN batch[c]
                           /\ batch[c][i] \in Poison
                           /\ Logged(batch[c][i])

Awaited(c, i) == \/ \E f \in pending[c] : i \in f.lo .. f.hi
                 \/ i \in poisoned[c]

\* Every event of a call is awaited or accounted for.
Covered(c) ==
    pc[c] \in Running \cup {"resolved"} =>
        \A i \in DOMAIN batch[c] : Awaited(c, i) \/ Accounted(c, batch[c][i])

Drained(c) ==
    /\ pc[c] \in {"dlqPoison", "resolved"} => pending[c] = {}
    /\ pc[c] \in {"idle", "resolved"} => poisoned[c] = {}

CallInv(c) ==
    /\ Slices(c)
    /\ Ids(c)
    /\ Fresh(c)
    /\ Written(c)
    /\ Blamed(c)
    /\ Isolated(c)
    /\ Covered(c)
    /\ Drained(c)

IInv ==
    /\ TypeOK
    /\ RowsAreLogged
    /\ PoisonIsProven
    /\ \A c \in Calls : CallInv(c)

-----------------------------------------------------------------------------
(***************************************************************************)
(* Ids.  What a suffix adds to an id, and what it cannot make equal.       *)
(***************************************************************************)
Path == Seq({0, 1})

\* An id is above itself.
LEMMA AboveItself == ASSUME NEW p \in Path PROVE Above(p, p)
  BY DEF Above, Path

\* What lies under a half lies strictly under its parent.
LEMMA UnderHalf ==
  ASSUME NEW p \in Path, NEW q \in Path, NEW h \in {0, 1}, Above(Append(p, h), q)
  PROVE  Above(p, q) /\ Len(p) < Len(q)
  BY AppendProperties DEF Above, Path

\* What a half lies under is the half itself or above its parent.
LEMMA OverHalf ==
  ASSUME NEW p \in Path, NEW q \in Path, NEW h \in {0, 1}, Above(q, Append(p, h))
  PROVE  q = Append(p, h) \/ Above(q, p)
<1> DEFINE a == Append(p, h)
<1>1. a \in Path /\ Len(a) = Len(p) + 1 /\ \A i \in 1 .. Len(p) : a[i] = p[i]
  BY AppendProperties DEF Path
<1>2. CASE Len(q) = Len(a)
  <2>1. \A i \in 1 .. Len(q) : q[i] = a[i]
    BY DEF Above
  <2> QED BY <1>1, <1>2, <2>1, SeqEqual DEF Path
<1>3. CASE Len(q) # Len(a)
  <2> HIDE DEF a
  <2>1. Len(q) <= Len(a) /\ \A i \in 1 .. Len(q) : q[i] = a[i]
    BY DEF Above, a
  <2>2. Len(q) \in Nat /\ Len(p) \in Nat
    BY DEF Path
  <2> QED BY <1>1, <1>3, <2>1, <2>2 DEF Above
<1> QED BY <1>2, <1>3

\* The two halves of a split lie under different ids.
LEMMA HalvesApart ==
  ASSUME NEW p \in Path, NEW q \in Path, NEW g \in {0, 1}, NEW h \in {0, 1}, g # h,
         Above(Append(p, g), q)
  PROVE  ~Above(Append(p, h), q)
<1>1. Append(p, g)[Len(p) + 1] = g /\ Len(Append(p, g)) = Len(p) + 1
  BY AppendProperties DEF Path
<1>2. Append(p, h)[Len(p) + 1] = h /\ Len(Append(p, h)) = Len(p) + 1
  BY AppendProperties DEF Path
<1>3. Len(p) \in Nat
  BY DEF Path
<1> QED BY <1>1, <1>2, <1>3 DEF Above

\* Ids above one another are equal.
LEMMA AboveEachOther ==
  ASSUME NEW p \in Path, NEW q \in Path, Above(p, q), Len(p) = Len(q)
  PROVE  p = q
  BY SeqEqual DEF Above, Path

-----------------------------------------------------------------------------
(***************************************************************************)
(* Type correctness.                                                       *)
(***************************************************************************)

\* A half is a sub-batch.
LEMMA HalvesType ==
  ASSUME NEW f \in SubBatch, Size(f) > 1
  PROVE  LeftHalf(f) \in SubBatch /\ RightHalf(f) \in SubBatch
<1>1. Append(f.path, 0) \in Path /\ Append(f.path, 1) \in Path
  BY AppendProperties DEF SubBatch, Path
<1>2. LastOfLeft(f) \in Nat
  BY DEF SubBatch, Size, LastOfLeft
<1> QED BY <1>1, <1>2 DEF LeftHalf, RightHalf, HalfId, SubBatch, Path

\* The events of a pending sub-batch are events.
LEMMA SliceType ==
  ASSUME TypeOK, NEW c \in Calls, Slices(c), NEW f \in pending[c]
  PROVE  f \in SubBatch /\ Slice(c, f) \subseteq Events
<1>1. f \in SubBatch /\ batch[c] \in Seq(Events)
  BY DEF TypeOK
<1>2. \A i \in f.lo .. f.hi : i \in 1 .. Len(batch[c])
  BY <1>1 DEF Slices, SubBatch
<1> QED BY <1>1, <1>2, ElementOfSeq DEF Slice

Objects == [key : Calls \X Seq({0, 1}), events : SUBSET Events, host : 0 .. MaxEdits]
Rows == [event : Events, host : 0 .. MaxEdits]
Entries == [reason : {"r2-put-failed", "flush-poison"}, batch : Calls, events : SUBSET Events]

\* What a sub-batch writes is well typed.
LEMMA WritesType ==
  ASSUME TypeOK, NEW c \in Calls, Slices(c), NEW f \in pending[c]
  PROVE  /\ Put(c, f) \subseteq Objects
         /\ Insert(c, f) \subseteq Rows
         /\ BatchDeadLetter(c, f) \subseteq Entries
<1>1. f.path \in Seq({0, 1}) /\ Slice(c, f) \subseteq Events
  BY SliceType DEF SubBatch
<1>2. LogObject(c, f) \in Objects
  BY <1>1 DEF LogObject, Objects, TypeOK
<1>3. DeadLetter("r2-put-failed", c, Slice(c, f)) \in Entries
  BY <1>1 DEF DeadLetter, Entries
<1>4. [event : {e \in Slice(c, f) : ~HasRow(e)}, host : {host[c]}] \subseteq Rows
  BY <1>1 DEF Rows, TypeOK
<1> QED BY <1>2, <1>3, <1>4 DEF Put, Insert, BatchDeadLetter, TypeOK, Objects, Rows, Entries

\* Every step keeps the types, given that pending slices lie within their batch.
LEMMA TypeStep ==
  ASSUME TypeOK, \A c \in Calls : Slices(c) /\ Isolated(c), [Next]_vars
  PROVE  TypeOK'
<1> USE BoundsAssumption, AttemptsAssumption
<1>1. ASSUME NEW c \in Calls, NEW b \in Batches, Start(c, b) PROVE TypeOK'
  <2>1. b \in Seq(Events) /\ Whole(b) \in SubBatch
    BY BatchesAssumption DEF Whole, SubBatch
  <2> QED BY <1>1, <2>1 DEF Start, TypeOK, Running
<1>2. ASSUME NEW c \in Calls, FlushStep(c) PROVE TypeOK'
  <2>1. CASE ReadDestinations(c)
    BY <2>1 DEF ReadDestinations, TypeOK, Running
  <2>2. CASE ReadFault(c)
    BY <2>2 DEF ReadFault, Outage, Throw, TypeOK, Running
  <2>3. ASSUME NEW f \in pending[c], PutOk(c, f) PROVE TypeOK'
    BY <2>3, WritesType DEF PutOk, TypeOK, Running, Objects
  <2>4. ASSUME NEW f \in pending[c], NEW retryable \in BOOLEAN, PutFault(c, f, retryable)
        PROVE TypeOK'
    <3>1. r2' \subseteq Objects
      BY <2>4, WritesType DEF PutFault, TypeOK, Objects
    <3>2. putAttempt' \in [Calls -> 1 .. MaxPutAttempts]
      BY <2>4 DEF PutFault, AfterPutError, TypeOK
    <3>3. pc' \in [Calls -> {"idle"} \cup Running \cup Settled]
      BY <2>4 DEF PutFault, AfterPutError, TypeOK, Running
    <3> QED BY <2>4, <3>1, <3>2, <3>3 DEF PutFault, Outage, TypeOK, Objects
  <2>5. ASSUME NEW f \in pending[c], DlqBatch(c, f) PROVE TypeOK'
    BY <2>5, WritesType DEF DlqBatch, Finish, TypeOK, Running, Entries
  <2>6. ASSUME NEW f \in pending[c], DlqBatchFault(c, f) PROVE TypeOK'
    BY <2>6, WritesType DEF DlqBatchFault, Outage, Throw, TypeOK, Running, Entries
  <2>7. ASSUME NEW f \in pending[c], InsertOk(c, f) PROVE TypeOK'
    BY <2>7, WritesType DEF InsertOk, Finish, TypeOK, Running, Rows
  <2>8. ASSUME NEW f \in pending[c], InsertRefused(c, f) PROVE TypeOK'
    BY <2>8 DEF InsertRefused, Throw, TypeOK, Running
  <2>9. ASSUME NEW f \in pending[c], InsertFault(c, f) PROVE TypeOK'
    BY <2>9, WritesType DEF InsertFault, Outage, Throw, TypeOK, Running, Rows
  <2> QED BY <1>2, <2>1, <2>2, <2>3, <2>4, <2>5, <2>6, <2>7, <2>8, <2>9 DEF FlushStep
<1>3. ASSUME NEW c \in Calls, SplitStep(c) PROVE TypeOK'
  <2>1. CASE Retry(c)
    BY <2>1 DEF Retry, AttemptsLeft, TypeOK, Running
  <2>2. CASE Reject(c)
    BY <2>2 DEF Reject, TypeOK, Settled
  <2>3. ASSUME NEW f \in pending[c], Isolate(c, f) PROVE TypeOK'
    <3>1. f.lo \in Nat
      BY SliceType DEF SubBatch
    <3> QED BY <2>3, <3>1 DEF Isolate, Finish, TypeOK, Running
  <2>4. ASSUME NEW f \in pending[c], Split(c, f) PROVE TypeOK'
    <3>1. LeftHalf(f) \in SubBatch /\ RightHalf(f) \in SubBatch
      BY <2>4, SliceType, HalvesType DEF Split
    <3> QED BY <2>4, <3>1 DEF Split, TypeOK, Running
  <2> QED BY <1>3, <2>1, <2>2, <2>3, <2>4 DEF SplitStep
<1>4. ASSUME NEW c \in Calls, PoisonStep(c) PROVE TypeOK'
  <2>1. ASSUME NEW i \in poisoned[c] PROVE PoisonDeadLetter(c, i) \subseteq Entries
    <3>1. batch[c][i] \in Events
      BY ElementOfSeq DEF Isolated, TypeOK
    <3> QED BY <3>1 DEF PoisonDeadLetter, DeadLetter, Entries, TypeOK
  <2>2. ASSUME NEW i \in poisoned[c], SendPoison(c, i) PROVE TypeOK'
    BY <2>1, <2>2 DEF SendPoison, TypeOK, Entries
  <2>3. ASSUME NEW i \in poisoned[c], SendPoisonFault(c, i) PROVE TypeOK'
    BY <2>1, <2>3 DEF SendPoisonFault, Outage, TypeOK, Entries, Settled
  <2>4. CASE Resolve(c)
    BY <2>4 DEF Resolve, TypeOK, Settled
  <2> QED BY <1>4, <2>2, <2>3, <2>4 DEF PoisonStep
<1>5. ASSUME NEW c \in Calls, Kill(c) PROVE TypeOK'
  BY <1>5 DEF Kill, TypeOK, Settled
<1>6. CASE EditLink
  BY <1>6 DEF EditLink, callVars, TypeOK
<1>7. CASE UNCHANGED vars
  BY <1>7 DEF vars, TypeOK
<1> QED BY <1>1, <1>2, <1>3, <1>4, <1>5, <1>6, <1>7 DEF Next, CallStep, AllSettled

-----------------------------------------------------------------------------
(***************************************************************************)
(* What every step does to the stores and to the calls it is not about.    *)
(***************************************************************************)

\* No object loses an event.
LogKept == \A o \in r2 : \E p \in r2' : p.key = o.key /\ p.events = o.events

\* No object is written for a call other than c.
LogOnlyOf(c) == \A p \in r2' : p.key[1] # c => p \in r2

StoresGrow ==
    /\ LogKept
    /\ \A e : HasRow(e) => HasRow(e)'
    /\ dlq \subseteq dlq'

SameCall(d) ==
    /\ pc'[d] = pc[d]
    /\ batch'[d] = batch[d]
    /\ pending'[d] = pending[d]
    /\ verdict'[d] = verdict[d]
    /\ poisoned'[d] = poisoned[d]

\* What was logged or accounted for stays so.
LEMMA GrowKeeps ==
  ASSUME StoresGrow, NEW d \in Calls, NEW e
  PROVE  /\ Logged(e) => Logged(e)'
         /\ Accounted(d, e) => Accounted(d, e)'
  BY DEF StoresGrow, LogKept, Logged, Accounted, InDlq

\* A step of another call, or of none, leaves a call's invariant alone.
LEMMA OtherCallsKeep ==
  ASSUME TypeOK, NEW d \in Calls, CallInv(d), StoresGrow, SameCall(d),
         \A p \in r2' : p.key[1] = d => p \in r2
  PROVE  CallInv(d)'
<1>1. \A f : Slice(d, f)' = Slice(d, f) /\ (InFlight(d, f)' <=> InFlight(d, f))
  BY DEF SameCall, Slice, InFlight
<1>2. Slices(d)'
  BY DEF CallInv, SameCall, Slices
<1>3. Ids(d)'
  BY <1>1 DEF CallInv, SameCall, Ids
<1>4. Fresh(d)'
  BY DEF CallInv, SameCall, Fresh
<1>5. Written(d)'
  <2>1. ASSUME NEW f, NEW o \in r2, o.key = <<d, f.path>>, o.events = Slice(d, f)
        PROVE  \E p \in r2' : p.key = <<d, f.path>> /\ p.events = Slice(d, f)
    BY <2>1 DEF StoresGrow, LogKept
  <2> QED BY <1>1, <2>1 DEF CallInv, SameCall, Written
<1>6. Blamed(d)'
  BY <1>1 DEF CallInv, SameCall, Blamed
<1>7. Isolated(d)'
  BY GrowKeeps DEF CallInv, SameCall, Isolated
<1>8. Covered(d)'
  BY GrowKeeps DEF CallInv, SameCall, Covered, Awaited
<1>9. Drained(d)'
  BY DEF CallInv, SameCall, Drained
<1> QED BY <1>2, <1>3, <1>4, <1>5, <1>6, <1>7, <1>8, <1>9 DEF CallInv

\* At most one sub-batch of a call is being tried.
LEMMA OneInFlight ==
  ASSUME TypeOK, NEW c \in Calls, Slices(c), NEW f, NEW g, InFlight(c, f), InFlight(c, g)
  PROVE  f = g
<1>1. f \in SubBatch /\ g \in SubBatch
  BY DEF InFlight, TypeOK
<1> QED BY <1>1 DEF InFlight, Slices, SubBatch

\* A PUT replaces nothing but an earlier copy of the same object.
LEMMA PutKeeps ==
  ASSUME TypeOK, NEW c \in Calls, CallInv(c), NEW f \in pending[c], r2' = Put(c, f)
  PROVE  /\ LogKept
         /\ LogOnlyOf(c)
         /\ \E o \in r2' : o.key = <<c, f.path>> /\ o.events = Slice(c, f)
<1>1. f.path \in Path
  BY DEF TypeOK, SubBatch, Path
<1>2. LogObject(c, f) \in r2' /\ LogObject(c, f).key = <<c, f.path>>
      /\ LogObject(c, f).events = Slice(c, f)
  BY DEF Put, LogObject
<1>3. ASSUME NEW o \in r2, o.key = <<c, f.path>> PROVE o.events = Slice(c, f)
  BY <1>1, <1>3, AboveItself DEF CallInv, Ids
<1>4. LogKept
  BY <1>2, <1>3 DEF LogKept, Put
<1>5. LogOnlyOf(c)
  BY <1>2 DEF LogOnlyOf, Put
<1> QED BY <1>2, <1>4, <1>5

\* The ids of a call survive a PUT of one of its sub-batches.
LEMMA PutIds ==
  ASSUME TypeOK, NEW c \in Calls, CallInv(c), NEW f \in pending[c], r2' = Put(c, f),
         pending'[c] = pending[c], batch'[c] = batch[c]
  PROVE  Ids(c)'
<1>1. \A g : Slice(c, g)' = Slice(c, g)
  BY DEF Slice
<1>2. ASSUME NEW g \in pending[c], NEW o \in r2', o.key[1] = c, Above(g.path, o.key[2])
      PROVE  o.key[2] = g.path /\ o.events = Slice(c, g)
  <2>1. CASE o \in r2
    BY <1>2, <2>1 DEF CallInv, Ids
  <2>2. CASE o = LogObject(c, f)
    <3>1. g = f
      BY <1>2, <2>2 DEF LogObject, CallInv, Ids
    <3> QED BY <2>2, <3>1 DEF LogObject
  <2> QED BY <2>1, <2>2 DEF Put
<1> QED BY <1>1, <1>2 DEF CallInv, Ids

\* Fewer pending sub-batches are still disjoint.
LEMMA FewerPending ==
  ASSUME NEW c \in Calls, CallInv(c), pending'[c] \subseteq pending[c],
         batch'[c] = batch[c], r2' = r2
  PROVE  Slices(c)' /\ Ids(c)'
<1>1. \A g : Slice(c, g)' = Slice(c, g)
  BY DEF Slice
<1> QED BY <1>1 DEF CallInv, Slices, Ids

\* A call that keeps its sub-batches and its isolated events keeps track of them.
LEMMA SameWork ==
  ASSUME NEW c \in Calls, CallInv(c), StoresGrow, pc[c] \in Running, pc'[c] # "idle",
         batch'[c] = batch[c], pending'[c] = pending[c], poisoned'[c] = poisoned[c]
  PROVE  Slices(c)' /\ Fresh(c)' /\ Isolated(c)' /\ Covered(c)'
<1>1. Slices(c)' /\ Fresh(c)'
  BY DEF CallInv, Slices, Fresh
<1>2. Isolated(c)'
  BY GrowKeeps DEF CallInv, Isolated
<1>3. Covered(c)'
  BY GrowKeeps DEF CallInv, Covered, Awaited
<1> QED BY <1>1, <1>2, <1>3

\* What was in flight still is.
LEMMA SameFlight ==
  ASSUME NEW c \in Calls, batch'[c] = batch[c], pending'[c] = pending[c]
  PROVE  \A f : /\ Slice(c, f)' = Slice(c, f)
                /\ InFlight(c, f)' <=> InFlight(c, f)
  BY DEF Slice, InFlight

-----------------------------------------------------------------------------
(***************************************************************************)
(* What a step of call c establishes, action by action.                    *)
(***************************************************************************)
StepKeeps(c) ==
    /\ StoresGrow
    /\ LogOnlyOf(c)
    /\ \A d \in Calls \ {c} : SameCall(d)
    /\ CallInv(c)'
    /\ RowsAreLogged'
    /\ PoisonIsProven'

\* A step that adds no row and no poison entry leaves the stores in order.
LEMMA StoresInOrder ==
  ASSUME IInv, StoresGrow, pg' = pg,
         \A d \in dlq' : d.reason = "flush-poison" => d \in dlq
  PROVE  RowsAreLogged' /\ PoisonIsProven'
<1>1. \A e : Logged(e) => Logged(e)'
  BY DEF StoresGrow, LogKept, Logged
<1> QED BY <1>1 DEF IInv, RowsAreLogged, PoisonIsProven

\* The steps that write nothing and settle nothing.
LEMMA QuietStep ==
  ASSUME IInv, NEW c \in Calls,
         \/ ReadDestinations(c) \/ ReadFault(c) \/ Retry(c) \/ Reject(c) \/ Kill(c)
         \/ \E f \in pending[c] : InsertRefused(c, f)
  PROVE  StepKeeps(c)
<1> USE DEF IInv
<1>1. /\ UNCHANGED <<r2, pg, dlq, batch, pending, poisoned>>
      /\ \A d \in Calls \ {c} : SameCall(d)
      /\ pc[c] \in Running
      /\ pc'[c] \in {"put", "threw", "read", "rejected", "killed"}
      /\ pc'[c] = "threw" => \/ verdict'[c] = "infrastructure"
                             \/ \E f \in pending[c] : InsertRefused(c, f)
  BY DEF ReadDestinations, ReadFault, Retry, Reject, Kill, InsertRefused, Throw, SameCall,
         Running, TypeOK
<1>2. StoresGrow /\ LogOnlyOf(c)
  BY <1>1 DEF StoresGrow, LogKept, LogOnlyOf, HasRow
<1>3. Slices(c)' /\ Fresh(c)' /\ Isolated(c)' /\ Covered(c)'
  BY <1>1, <1>2, SameWork
<1>4. Ids(c)'
  BY <1>1, FewerPending
<1>5. Written(c)' /\ Blamed(c)'
  <2>1. CASE pc'[c] = "threw" /\ verdict'[c] = "row-fault"
    <3>1. PICK f \in pending[c] : InsertRefused(c, f)
      BY <1>1, <2>1
    <3>2. InFlight(c, f) /\ pc[c] = "insert" /\ Slice(c, f) \cap Poison # {}
      BY <3>1 DEF InsertRefused
    <3>3. \A g \in pending[c] : InFlight(c, g) => g = f
      BY <3>2, OneInFlight DEF CallInv
    <3>4. \E o \in r2 : o.key = <<c, f.path>> /\ o.events = Slice(c, f)
      BY <3>2 DEF CallInv, Written
    <3> QED BY <1>1, <3>2, <3>3, <3>4, SameFlight DEF Written, Blamed
  <2>2. CASE ~(pc'[c] = "threw" /\ verdict'[c] = "row-fault")
    BY <1>1, <2>2 DEF Written, Blamed
  <2> QED BY <2>1, <2>2
<1>6. Drained(c)'
  BY <1>1 DEF Drained
<1>7. RowsAreLogged' /\ PoisonIsProven'
  BY <1>1, <1>2, StoresInOrder
<1> QED BY <1>1, <1>2, <1>3, <1>4, <1>5, <1>6, <1>7 DEF StepKeeps, CallInv

\* The PUT.
LEMMA PutStep ==
  ASSUME IInv, NEW c \in Calls, NEW f \in pending[c],
         \/ PutOk(c, f)
         \/ \E retryable \in BOOLEAN : PutFault(c, f, retryable)
  PROVE  StepKeeps(c)
<1> USE DEF IInv
<1>1. /\ UNCHANGED <<pg, dlq, batch, pending, verdict, poisoned>>
      /\ r2' = r2 \/ r2' = Put(c, f)
      /\ \A d \in Calls \ {c} : SameCall(d)
      /\ pc[c] = "put" /\ InFlight(c, f)
      /\ pc'[c] \in {"put", "dlqBatch", "insert"}
      /\ pc'[c] = "insert" => r2' = Put(c, f)
  BY DEF PutOk, PutFault, AfterPutError, SameCall, TypeOK
<1>2. LogKept /\ LogOnlyOf(c)
  <2>1. CASE r2' = r2
    BY <2>1 DEF LogKept, LogOnlyOf
  <2>2. CASE r2' = Put(c, f)
    BY <2>2, PutKeeps
  <2> QED BY <1>1, <2>1, <2>2
<1>3. StoresGrow
  BY <1>1, <1>2 DEF StoresGrow, HasRow
<1>4. Slices(c)' /\ Fresh(c)' /\ Isolated(c)' /\ Covered(c)'
  BY <1>1, <1>3, SameWork DEF Running
<1>5. Ids(c)'
  BY <1>1, FewerPending, PutIds
<1>6. Written(c)'
  <2>1. CASE pc'[c] = "insert"
    <3>1. \E o \in r2' : o.key = <<c, f.path>> /\ o.events = Slice(c, f)
      BY <1>1, <2>1, PutKeeps
    <3>2. \A g \in pending[c] : InFlight(c, g) => g = f
      BY <1>1, OneInFlight DEF CallInv
    <3> QED BY <1>1, <3>1, <3>2, SameFlight DEF Written
  <2>2. CASE pc'[c] # "insert"
    BY <1>1, <2>2 DEF Written
  <2> QED BY <2>1, <2>2
<1>7. Blamed(c)' /\ Drained(c)'
  BY <1>1 DEF Blamed, Drained
<1>8. RowsAreLogged' /\ PoisonIsProven'
  BY <1>1, <1>3, StoresInOrder
<1> QED BY <1>1, <1>2, <1>3, <1>4, <1>5, <1>6, <1>7, <1>8 DEF StepKeeps, CallInv

\* An INSERT adds rows of its own slice only, and those are in the log.
LEMMA InsertKeeps ==
  ASSUME IInv, NEW c \in Calls, NEW f \in pending[c], pc[c] = "insert", InFlight(c, f),
         r2' = r2, dlq' = dlq, pg' = pg \/ pg' = Insert(c, f)
  PROVE  StoresGrow /\ LogOnlyOf(c) /\ RowsAreLogged' /\ PoisonIsProven'
<1> USE DEF IInv
<1>1. StoresGrow /\ LogOnlyOf(c)
  BY DEF StoresGrow, LogKept, LogOnlyOf, HasRow, Insert
<1>2. \A e \in Slice(c, f) : Logged(e)
  BY DEF CallInv, Written, Logged
<1>3. \A e : Logged(e)' <=> Logged(e)
  BY DEF Logged
<1>4. RowsAreLogged'
  BY <1>2, <1>3 DEF RowsAreLogged, Insert
<1>5. PoisonIsProven'
  BY <1>3 DEF PoisonIsProven
<1> QED BY <1>1, <1>4, <1>5

\* The INSERT or the dead letter of a batch fails, having taken effect or not.
LEMMA FaultStep ==
  ASSUME IInv, NEW c \in Calls, NEW f \in pending[c],
         InsertFault(c, f) \/ DlqBatchFault(c, f)
  PROVE  StepKeeps(c)
<1> USE DEF IInv
<1>1. /\ UNCHANGED <<r2, batch, pending, poisoned>>
      /\ \A d \in Calls \ {c} : SameCall(d)
      /\ pc[c] \in {"insert", "dlqBatch"} /\ InFlight(c, f)
      /\ pc'[c] = "threw" /\ verdict'[c] = "infrastructure"
  BY DEF InsertFault, DlqBatchFault, Throw, SameCall, TypeOK
<1>2. StoresGrow /\ LogOnlyOf(c) /\ RowsAreLogged' /\ PoisonIsProven'
  <2>1. CASE InsertFault(c, f)
    BY <2>1, InsertKeeps DEF InsertFault
  <2>2. CASE DlqBatchFault(c, f)
    <3>1. StoresGrow /\ LogOnlyOf(c)
      BY <2>2 DEF DlqBatchFault, BatchDeadLetter, StoresGrow, LogKept, LogOnlyOf, HasRow
    <3> QED BY <2>2, <3>1, StoresInOrder DEF DlqBatchFault, BatchDeadLetter, DeadLetter
  <2> QED BY <2>1, <2>2
<1>3. Slices(c)' /\ Fresh(c)' /\ Isolated(c)' /\ Covered(c)'
  BY <1>1, <1>2, SameWork DEF Running
<1>4. Ids(c)'
  BY <1>1, FewerPending
<1>5. Written(c)' /\ Blamed(c)' /\ Drained(c)'
  BY <1>1 DEF Written, Blamed, Drained
<1> QED BY <1>1, <1>2, <1>3, <1>4, <1>5 DEF StepKeeps, CallInv

\* A sub-batch is settled once each of its events is accounted for or isolated.
LEMMA FinishKeeps ==
  ASSUME IInv, NEW c \in Calls, NEW f \in pending[c], Finish(c, f), pc[c] \in Running,
         r2' = r2, StoresGrow, RowsAreLogged', PoisonIsProven', Isolated(c)',
         \A d \in Calls \ {c} : poisoned'[d] = poisoned[d],
         poisoned[c] \subseteq poisoned'[c],
         \A i \in f.lo .. f.hi : i \in poisoned'[c] \/ Accounted(c, batch[c][i])'
  PROVE  StepKeeps(c)
<1> USE DEF IInv
<1>1. /\ batch' = batch
      /\ pending'[c] = pending[c] \ {f}
      /\ \A d \in Calls \ {c} : SameCall(d)
      /\ pc'[c] \in {"read", "dlqPoison"}
      /\ pc'[c] = "dlqPoison" => pending'[c] = {}
  BY DEF Finish, SameCall, TypeOK
<1>2. LogOnlyOf(c)
  BY DEF LogOnlyOf
<1>3. Slices(c)' /\ Ids(c)'
  BY <1>1, FewerPending
<1>4. Fresh(c)' /\ Written(c)' /\ Blamed(c)' /\ Drained(c)'
  BY <1>1 DEF Fresh, Written, Blamed, Drained
<1>5. Covered(c)'
  <2>1. ASSUME NEW i \in DOMAIN batch[c]
        PROVE  Awaited(c, i)' \/ Accounted(c, batch[c][i])'
    <3>1. CASE i \in f.lo .. f.hi
      BY <3>1 DEF Awaited
    <3>2. CASE Awaited(c, i) /\ i \notin f.lo .. f.hi
      BY <1>1, <3>2 DEF Awaited
    <3>3. CASE Accounted(c, batch[c][i])
      BY <1>1, <3>3, GrowKeeps
    <3> QED BY <3>1, <3>2, <3>3 DEF CallInv, Covered
  <2> QED BY <1>1, <2>1 DEF Covered
<1> QED BY <1>1, <1>2, <1>3, <1>4, <1>5 DEF StepKeeps, CallInv

\* The steps that settle a sub-batch.
LEMMA FinishStep ==
  ASSUME IInv, NEW c \in Calls, NEW f \in pending[c],
         DlqBatch(c, f) \/ InsertOk(c, f) \/ Isolate(c, f)
  PROVE  StepKeeps(c)
<1> USE DEF IInv
<1>1. \A i \in f.lo .. f.hi : batch[c][i] \in Slice(c, f)
  BY DEF Slice
<1>2. CASE DlqBatch(c, f)
  <2>1. UNCHANGED <<r2, pg, poisoned>> /\ Finish(c, f) /\ pc[c] \in Running
        /\ dlq' = dlq \cup {DeadLetter("r2-put-failed", c, Slice(c, f))}
    BY <1>2 DEF DlqBatch, BatchDeadLetter, Running
  <2>2. StoresGrow
    BY <2>1 DEF StoresGrow, LogKept, HasRow
  <2>3. RowsAreLogged' /\ PoisonIsProven'
    BY <2>1, <2>2, StoresInOrder DEF DeadLetter
  <2>4. \A e \in Slice(c, f) : Accounted(c, e)'
    <3>1. DeadLetter("r2-put-failed", c, Slice(c, f)) \in dlq'
      BY <2>1
    <3> QED BY <3>1 DEF Accounted, InDlq, DeadLetter
  <2>5. Isolated(c)'
    BY <2>1, <2>2, GrowKeeps DEF CallInv, Isolated, Finish
  <2> QED BY <1>1, <2>1, <2>2, <2>3, <2>4, <2>5, FinishKeeps DEF Finish
<1>3. CASE InsertOk(c, f)
  <2>1. UNCHANGED <<r2, dlq, poisoned>> /\ Finish(c, f) /\ pc[c] = "insert"
        /\ InFlight(c, f) /\ Slice(c, f) \cap Poison = {} /\ pg' = Insert(c, f)
    BY <1>3 DEF InsertOk
  <2>2. StoresGrow /\ RowsAreLogged' /\ PoisonIsProven'
    BY <2>1, InsertKeeps
  <2>3. \A e \in Slice(c, f) : Accounted(c, e)'
    <3>1. ASSUME NEW e \in Slice(c, f) PROVE HasRow(e)'
      <4>1. CASE HasRow(e)
        BY <2>2, <4>1 DEF StoresGrow
      <4>2. CASE ~HasRow(e)
        <5>1. [event |-> e, host |-> host[c]] \in pg'
          BY <2>1, <4>2 DEF Insert
        <5> QED BY <5>1 DEF HasRow
      <4> QED BY <4>1, <4>2
    <3> QED BY <2>1, <3>1 DEF Accounted
  <2>4. Isolated(c)'
    BY <2>1, <2>2, GrowKeeps DEF CallInv, Isolated, Finish
  <2> QED BY <1>1, <2>1, <2>2, <2>3, <2>4, FinishKeeps DEF Finish, Running
<1>4. CASE Isolate(c, f)
  <2>1. /\ UNCHANGED <<r2, pg, dlq, batch>> /\ Finish(c, f)
        /\ pc[c] = "threw" /\ verdict[c] = "row-fault" /\ InFlight(c, f) /\ Size(f) = 1
        /\ poisoned'[c] = poisoned[c] \cup {f.lo}
        /\ \A d \in Calls \ {c} : poisoned'[d] = poisoned[d]
    BY <1>4 DEF Isolate, Finish, BlamesRow, TypeOK
  <2>2. StoresGrow
    BY <2>1 DEF StoresGrow, LogKept, HasRow
  <2>3. RowsAreLogged' /\ PoisonIsProven'
    BY <2>1, <2>2, StoresInOrder
  <2>4. f \in SubBatch /\ 1 <= f.lo /\ f.lo = f.hi /\ f.hi <= Len(batch[c])
    <3>1. f \in SubBatch
      BY SliceType DEF CallInv
    <3> QED BY <2>1, <3>1 DEF CallInv, Slices, Size, SubBatch
  <2>5. Slice(c, f) = {batch[c][f.lo]}
    BY <2>4 DEF Slice, SubBatch
  <2>6. batch[c][f.lo] \in Poison /\ Logged(batch[c][f.lo])
    BY <2>1, <2>5 DEF CallInv, Blamed, Written, Logged
  <2>7. f.lo \in DOMAIN batch[c]
    BY <2>4, LenProperties DEF SubBatch, TypeOK
  <2>8. Isolated(c)'
    BY <2>1, <2>2, <2>6, <2>7, GrowKeeps DEF CallInv, Isolated
  <2>9. \A i \in f.lo .. f.hi : i \in poisoned'[c]
    BY <2>1, <2>4 DEF SubBatch
  <2> QED BY <2>1, <2>2, <2>3, <2>8, <2>9, FinishKeeps DEF Running
<1> QED BY <1>2, <1>3, <1>4

\* Where a split cuts.
LEMMA Halves ==
  ASSUME NEW f \in SubBatch, Size(f) > 1
  PROVE  /\ LeftHalf(f).lo = f.lo /\ RightHalf(f).hi = f.hi
         /\ RightHalf(f).lo = LeftHalf(f).hi + 1
         /\ LeftHalf(f).hi \in Nat
         /\ f.lo <= LeftHalf(f).hi /\ LeftHalf(f).hi < f.hi
         /\ LeftHalf(f).path = Append(f.path, 0)
         /\ RightHalf(f).path = Append(f.path, 1)
<1>1. /\ LastOfLeft(f) \in Nat
      /\ f.lo <= LastOfLeft(f) /\ LastOfLeft(f) < f.hi
  BY DEF LastOfLeft, Size, SubBatch
<1> QED BY <1>1 DEF LeftHalf, RightHalf, HalfId

\* The split of a sub-batch.
LEMMA SplitKeeps ==
  ASSUME IInv, NEW c \in Calls, NEW f \in pending[c], Split(c, f)
  PROVE  StepKeeps(c)
<1> USE DEF IInv
<1> DEFINE L == LeftHalf(f)
           R == RightHalf(f)
<1>1. /\ UNCHANGED <<r2, pg, dlq, batch, poisoned>>
      /\ \A d \in Calls \ {c} : SameCall(d)
      /\ pc[c] = "threw" /\ pc'[c] = "read" /\ Size(f) > 1
      /\ pending'[c] = (pending[c] \ {f}) \cup {L, R}
  BY DEF Split, SameCall, TypeOK
<1>2. /\ pending[c] \subseteq SubBatch /\ f.path \in Path
      /\ L \in SubBatch /\ R \in SubBatch
      /\ batch[c] \in Seq(Events)
  BY <1>1, HalvesType DEF TypeOK, SubBatch, Path
<1>3. /\ L.lo = f.lo /\ R.hi = f.hi /\ R.lo = L.hi + 1
      /\ f.lo <= L.hi /\ L.hi < f.hi
      /\ L.path = Append(f.path, 0) /\ R.path = Append(f.path, 1)
  BY <1>1, <1>2, Halves
<1> HIDE DEF L, R
<1>4. StoresGrow /\ LogOnlyOf(c)
  BY <1>1 DEF StoresGrow, LogKept, LogOnlyOf, HasRow
<1>5. RowsAreLogged' /\ PoisonIsProven'
  BY <1>1, <1>4, StoresInOrder
<1>6. \A g \in pending[c] : /\ g.lo \in Nat /\ g.hi \in Nat
                            /\ g.path \in Path
  BY <1>2 DEF SubBatch, Path
<1>7. Slices(c)'
  <2>1. \A g \in pending'[c] : 1 <= g.lo /\ g.lo <= g.hi /\ g.hi <= Len(batch'[c])
    BY <1>1, <1>2, <1>3, <1>6 DEF CallInv, Slices, SubBatch
  <2>2. ASSUME NEW g \in pending[c] \ {f}, NEW h \in {L, R}
        PROVE  g.hi < h.lo \/ h.hi < g.lo
    BY <1>2, <1>3, <1>6 DEF CallInv, Slices, SubBatch
  <2>3. L.hi < R.lo
    BY <1>2, <1>3 DEF SubBatch
  <2>4. \A g, h \in pending[c] : g = h \/ g.hi < h.lo \/ h.hi < g.lo
    BY DEF CallInv, Slices
  <2> QED BY <1>1, <2>1, <2>2, <2>3, <2>4 DEF Slices
<1>8. Ids(c)'
  <2>1. ASSUME NEW g \in {L, R}, NEW q \in Path, Above(g.path, q)
        PROVE  Above(f.path, q) /\ Len(f.path) < Len(q)
    BY <1>2, <1>3, <2>1, UnderHalf
  <2>2. L.path \in Path /\ R.path \in Path
    BY <1>2 DEF SubBatch, Path
  <2>3. ASSUME NEW g \in {L, R}, NEW h \in pending[c] \ {f}
        PROVE  ~Above(g.path, h.path) /\ ~Above(h.path, g.path)
    <3>1. h.path \in Path /\ g.path \in Path
      BY <1>6, <2>2
    <3>2. ~Above(f.path, h.path) /\ ~Above(h.path, f.path)
      BY DEF CallInv, Ids
    <3>3. ~Above(g.path, h.path)
      BY <2>1, <3>1, <3>2
    <3>4. h.path # g.path
      BY <3>1, <3>3, AboveItself
    <3> QED BY <1>2, <1>3, <3>1, <3>2, <3>3, <3>4, OverHalf
  <2>4. ~Above(L.path, R.path) /\ ~Above(R.path, L.path)
    BY <1>2, <1>3, <2>2, HalvesApart, AboveItself
  <2>5. \A g, h \in pending'[c] : Above(g.path, h.path) => g = h
    <3>1. \A g, h \in pending[c] : Above(g.path, h.path) => g = h
      BY DEF CallInv, Ids
    <3> QED BY <1>1, <2>3, <2>4, <3>1
  <2>6. ASSUME NEW g \in pending'[c], NEW o \in r2, o.key[1] = c, Above(g.path, o.key[2])
        PROVE  o.key[2] = g.path /\ o.events = Slice(c, g)
    <3>1. CASE g \in pending[c]
      BY <2>6, <3>1 DEF CallInv, Ids
    <3>2. CASE g \in {L, R}
      <4>1. o.key[2] \in Path
        BY DEF TypeOK, Path
      <4>2. Above(f.path, o.key[2]) /\ Len(f.path) < Len(o.key[2])
        BY <2>1, <2>6, <3>2, <4>1
      <4>3. o.key[2] = f.path
        BY <2>6, <4>2 DEF CallInv, Ids
      <4> QED BY <1>2, <4>2, <4>3 DEF Path
    <3> QED BY <1>1, <3>1, <3>2
  <2>7. \A g : Slice(c, g)' = Slice(c, g)
    BY <1>1 DEF Slice
  <2> QED BY <1>1, <2>5, <2>6, <2>7 DEF Ids
<1>9. Fresh(c)' /\ Written(c)' /\ Blamed(c)' /\ Drained(c)'
  BY <1>1 DEF Fresh, Written, Blamed, Drained
<1>10. Isolated(c)'
  BY <1>1, <1>4, GrowKeeps DEF CallInv, Isolated
<1>11. Covered(c)'
  <2>1. ASSUME NEW i \in DOMAIN batch[c], Awaited(c, i) PROVE Awaited(c, i)'
    <3>1. i \in Nat
      BY <1>2, LenProperties
    <3>2. CASE i \in f.lo .. f.hi
      <4>1. i \in L.lo .. L.hi \/ i \in R.lo .. R.hi
        BY <1>2, <1>3, <3>1, <3>2 DEF SubBatch
      <4> QED BY <1>1, <4>1 DEF Awaited
    <3>3. CASE i \notin f.lo .. f.hi
      BY <1>1, <2>1, <3>3 DEF Awaited
    <3> QED BY <3>2, <3>3
  <2>2. \A i : Accounted(c, batch[c][i]) => Accounted(c, batch[c][i])'
    BY <1>1, <1>4, GrowKeeps
  <2> QED BY <1>1, <2>1, <2>2 DEF CallInv, Covered, Running
<1> QED BY <1>1, <1>4, <1>5, <1>7, <1>8, <1>9, <1>10, <1>11 DEF StepKeeps, CallInv

\* The dead letters of the isolated events, and the resolution.
LEMMA PoisonKeeps ==
  ASSUME IInv, NEW c \in Calls, PoisonStep(c)
  PROVE  StepKeeps(c)
<1> USE DEF IInv
<1>1. /\ UNCHANGED <<r2, pg, batch, pending>>
      /\ \A d \in Calls \ {c} : SameCall(d)
      /\ pc[c] = "dlqPoison" /\ pc'[c] \in {"dlqPoison", "rejected", "resolved"}
      /\ pending[c] = {}
      /\ poisoned'[c] \subseteq poisoned[c]
  BY DEF PoisonStep, SendPoison, SendPoisonFault, Resolve, SameCall, TypeOK, CallInv, Drained
<1>2. \/ dlq' = dlq
      \/ \E i \in poisoned[c] : dlq' = PoisonDeadLetter(c, i)
  BY DEF PoisonStep, SendPoison, SendPoisonFault, Resolve
<1>3. StoresGrow /\ LogOnlyOf(c)
  BY <1>1, <1>2 DEF StoresGrow, LogKept, LogOnlyOf, HasRow, PoisonDeadLetter
<1>4. RowsAreLogged'
  BY <1>1 DEF RowsAreLogged, Logged
<1>5. PoisonIsProven'
  <2>1. \A i \in poisoned[c] : batch[c][i] \in Poison /\ Logged(batch[c][i])
    BY DEF CallInv, Isolated
  <2>2. \A e : Logged(e)' <=> Logged(e)
    BY <1>1 DEF Logged
  <2> QED BY <1>2, <2>1, <2>2 DEF PoisonIsProven, PoisonDeadLetter, DeadLetter
<1>6. Slices(c)' /\ Ids(c)'
  BY <1>1, FewerPending
<1>7. Fresh(c)' /\ Written(c)' /\ Blamed(c)'
  BY <1>1 DEF Fresh, Written, Blamed
<1>8. Isolated(c)'
  BY <1>1, <1>3, GrowKeeps DEF CallInv, Isolated
<1>9. Covered(c)'
  <2>1. ASSUME NEW i \in poisoned[c], i \notin poisoned'[c]
        PROVE  Accounted(c, batch[c][i])'
    <3>1. SendPoison(c, i)
      BY <2>1 DEF PoisonStep, SendPoison, SendPoisonFault, Resolve, TypeOK
    <3>2. DeadLetter("flush-poison", c, {batch[c][i]}) \in dlq'
      BY <3>1 DEF SendPoison, PoisonDeadLetter
    <3>3. batch[c][i] \in Poison
      BY DEF CallInv, Isolated
    <3> QED BY <1>1, <3>2, <3>3 DEF Accounted, InDlq, DeadLetter
  <2>2. \A i : Accounted(c, batch[c][i]) => Accounted(c, batch[c][i])'
    BY <1>1, <1>3, GrowKeeps
  <2> QED BY <1>1, <2>1, <2>2 DEF CallInv, Covered, Awaited, Running
<1>10. Drained(c)'
  BY <1>1 DEF PoisonStep, SendPoison, SendPoisonFault, Resolve, PoisonSent, Drained, TypeOK
<1> QED BY <1>1, <1>3, <1>4, <1>5, <1>6, <1>7, <1>8, <1>9, <1>10 DEF StepKeeps, CallInv

\* A call begins.
LEMMA StartKeeps ==
  ASSUME IInv, NEW c \in Calls, NEW b \in Batches, Start(c, b)
  PROVE  StepKeeps(c)
<1> USE DEF IInv
<1>1. /\ UNCHANGED <<r2, pg, dlq, poisoned>>
      /\ \A d \in Calls \ {c} : SameCall(d)
      /\ pc[c] = "idle" /\ pc'[c] = "read"
      /\ batch'[c] = b /\ pending'[c] = {Whole(b)}
      /\ poisoned[c] = {}
  BY DEF Start, SameCall, TypeOK, CallInv, Drained
<1>2. /\ b \in Seq(Events) /\ b # <<>>
      /\ Len(b) \in Nat /\ Len(b) >= 1 /\ DOMAIN b = 1 .. Len(b)
  BY BatchesAssumption, EmptySeq, LenProperties
<1>3. StoresGrow /\ LogOnlyOf(c)
  BY <1>1 DEF StoresGrow, LogKept, LogOnlyOf, HasRow
<1>4. RowsAreLogged' /\ PoisonIsProven'
  BY <1>1, <1>3, StoresInOrder
<1>5. Slices(c)'
  BY <1>1, <1>2 DEF Slices, Whole
<1>6. Ids(c)'
  BY <1>1 DEF Ids, CallInv, Fresh
<1>7. Fresh(c)' /\ Written(c)' /\ Blamed(c)' /\ Drained(c)' /\ Isolated(c)'
  BY <1>1 DEF Fresh, Written, Blamed, Drained, Isolated
<1>8. Covered(c)'
  BY <1>1, <1>2 DEF Covered, Awaited, Whole
<1> QED BY <1>1, <1>3, <1>4, <1>5, <1>6, <1>7, <1>8 DEF StepKeeps, CallInv

-----------------------------------------------------------------------------
(***************************************************************************)
(* The invariant and the theorems.                                         *)
(***************************************************************************)

\* A step is about one call, or about none and leaves calls and stores alone.
LEMMA CallSteps ==
  ASSUME IInv, NEW c \in Calls,
         CallStep(c) \/ Kill(c) \/ \E b \in Batches : Start(c, b)
  PROVE  StepKeeps(c)
<1>1. CASE FlushStep(c)
  BY <1>1, QuietStep, PutStep, FaultStep, FinishStep DEF FlushStep
<1>2. CASE SplitStep(c)
  BY <1>2, QuietStep, FinishStep, SplitKeeps DEF SplitStep
<1>3. CASE PoisonStep(c)
  BY <1>3, PoisonKeeps
<1> QED BY <1>1, <1>2, <1>3, QuietStep, StartKeeps DEF CallStep

\* Nothing written and no call moved: the invariant stands.
LEMMA IdleStep ==
  ASSUME IInv, UNCHANGED <<callVars, r2, pg, dlq>>
  PROVE  StoresGrow /\ RowsAreLogged' /\ PoisonIsProven' /\ \A d \in Calls : CallInv(d)'
<1> USE DEF IInv
<1>1. StoresGrow
  BY DEF StoresGrow, LogKept, HasRow
<1>2. \A d \in Calls : SameCall(d)
  BY DEF SameCall, callVars
<1>3. \A d \in Calls : CallInv(d)'
  BY <1>1, <1>2, OtherCallsKeep
<1> QED BY <1>1, <1>3, StoresInOrder

\* What every step does, seen from the stores: they only grow.
LEMMA StepInv ==
  ASSUME IInv, [Next]_vars
  PROVE  IInv' /\ StoresGrow
<1>1. TypeOK'
  BY TypeStep DEF IInv, CallInv
<1>2. ASSUME NEW c \in Calls, CallStep(c) \/ Kill(c) \/ \E b \in Batches : Start(c, b)
      PROVE  IInv' /\ StoresGrow
  <2>1. StepKeeps(c)
    BY <1>2, CallSteps
  <2>2. \A d \in Calls \ {c} : CallInv(d)'
    BY <2>1, OtherCallsKeep DEF StepKeeps, LogOnlyOf, IInv
  <2> QED BY <1>1, <2>1, <2>2 DEF IInv, StepKeeps
<1>3. CASE UNCHANGED <<callVars, r2, pg, dlq>>
  BY <1>1, <1>3, IdleStep DEF IInv
<1>4. CASE EditLink \/ AllSettled \/ UNCHANGED vars
  BY <1>3, <1>4 DEF EditLink, AllSettled, vars, callVars
<1> QED BY <1>2, <1>4 DEF Next

\* No event has been handed over in an initial state.
LEMMA InitInv == Init => IInv
<1> SUFFICES ASSUME Init PROVE IInv
  OBVIOUS
<1>1. TypeOK
  BY AttemptsAssumption, BoundsAssumption DEF Init, TypeOK
<1>2. RowsAreLogged /\ PoisonIsProven
  BY DEF Init, RowsAreLogged, PoisonIsProven
<1>3. ASSUME NEW c \in Calls PROVE CallInv(c)
  BY <1>3 DEF Init, CallInv, Slices, Ids, Fresh, Written, Blamed, Isolated, Covered, Drained,
              Running
<1> QED BY <1>1, <1>2, <1>3 DEF IInv

\* The strengthened invariant holds in every reachable state.
THEOREM Invariance == Spec => []IInv
<1>1. IInv /\ [Next]_vars => IInv'
  BY StepInv
<1> QED BY <1>1, InitInv, PTL DEF Spec

\* Every variable keeps its type.
THEOREM TypeCorrect == Spec => []TypeOK
<1>1. IInv => TypeOK
  BY DEF IInv
<1> QED BY <1>1, Invariance, PTL

\* Postgres never runs ahead of the log (flush.ts: PUT before INSERT).
THEOREM LogLeads == Spec => []RowsAreLogged
<1>1. IInv => RowsAreLogged
  BY DEF IInv
<1> QED BY <1>1, Invariance, PTL

\* A poison dead letter names an event whose row Postgres refused and whose record is in
\* the log (split-retry.ts, dlq.service.ts).
THEOREM PoisonProven == Spec => []PoisonIsProven
<1>1. IInv => PoisonIsProven
  BY DEF IInv
<1> QED BY <1>1, Invariance, PTL

\* A resolved flush lost nothing (split-retry.ts: one poison row costs one row).
THEOREM ResolvedLosesNothing == Spec => []PoisonCostsOneRow
<1>1. IInv => PoisonCostsOneRow
  BY DEF IInv, CallInv, Covered, Drained, Awaited, PoisonCostsOneRow
<1> QED BY <1>1, Invariance, PTL

\* The log keeps every event an object ever held (split-retry.ts: the ids of the halves).
THEOREM LogIsKept == Spec => LogKeepsEveryEvent
<1>1. IInv /\ [Next]_vars => LogKept
  BY StepInv DEF StoresGrow
<1>2. IInv /\ [Next]_vars => [LogKept]_vars
  BY <1>1
<1> QED BY <1>2, Invariance, PTL DEF Spec, LogKeepsEveryEvent, LogKept

-----------------------------------------------------------------------------
(***************************************************************************)
(* What a row says when it is inserted: the object that the try wrote is   *)
(* in the log, untouched, when its INSERT runs.                            *)
(***************************************************************************)

Agrees ==
    \A c \in Calls : pc[c] = "insert" =>
        \A f \in pending[c] : InFlight(c, f) => LogObject(c, f) \in r2

\* A step that leaves a call before its INSERT is the PUT of its object, or is another's,
\* which writes no object of this call.
LEMMA AtInsert ==
  ASSUME IInv, [Next]_vars, NEW c \in Calls, pc'[c] = "insert"
  PROVE  \/ \E f \in pending[c] : PutOk(c, f)
         \/ /\ pc[c] = "insert"
            /\ batch'[c] = batch[c] /\ pending'[c] = pending[c] /\ host'[c] = host[c]
            /\ \A o \in r2 : o.key[1] = c => o \in r2'
<1> DEFINE Waits == /\ pc[c] = "insert"
                    /\ batch'[c] = batch[c] /\ pending'[c] = pending[c] /\ host'[c] = host[c]
                    /\ \A o \in r2 : o.key[1] = c => o \in r2'
           Goal == (\E f \in pending[c] : PutOk(c, f)) \/ Waits
<1> USE DEF IInv, TypeOK
<1> SUFFICES Goal
  OBVIOUS
<1>1. ASSUME NEW d \in Calls, d # c, NEW f, r2' \in {r2, Put(d, f)}
      PROVE  \A o \in r2 : o.key[1] = c => o \in r2'
  BY <1>1 DEF Put
<1>2. ASSUME NEW d \in Calls, NEW b \in Batches, Start(d, b) PROVE Goal
  BY <1>2 DEF Start
<1>3. ASSUME NEW d \in Calls, ReadDestinations(d) \/ ReadFault(d) PROVE Goal
  BY <1>3 DEF ReadDestinations, ReadFault, Throw
<1>4. ASSUME NEW d \in Calls, NEW f \in pending[d], PutOk(d, f) PROVE Goal
  <2>1. CASE d = c
    BY <1>4, <2>1
  <2>2. CASE d # c
    BY <1>1, <1>4, <2>2 DEF PutOk
  <2> QED BY <2>1, <2>2
<1>5. ASSUME NEW d \in Calls, NEW f \in pending[d], NEW retryable \in BOOLEAN,
             PutFault(d, f, retryable)
      PROVE  Goal
  <2>1. d # c
    BY <1>5 DEF PutFault, AfterPutError
  <2> QED BY <1>1, <1>5, <2>1 DEF PutFault
<1>6. ASSUME NEW d \in Calls, NEW f \in pending[d],
             DlqBatch(d, f) \/ InsertOk(d, f) \/ Isolate(d, f)
      PROVE  Goal
  <2>1. Finish(d, f) /\ r2' = r2
    BY <1>6 DEF DlqBatch, InsertOk, Isolate
  <2>2. d # c
    BY <2>1 DEF Finish
  <2> QED BY <2>1, <2>2 DEF Finish
<1>7. ASSUME NEW d \in Calls, NEW f \in pending[d],
             DlqBatchFault(d, f) \/ InsertRefused(d, f) \/ InsertFault(d, f)
      PROVE  Goal
  <2>1. r2' = r2 /\ \E blame : Throw(d, blame)
    BY <1>7 DEF DlqBatchFault, InsertRefused, InsertFault
  <2> QED BY <2>1 DEF Throw
<1>8. ASSUME NEW d \in Calls, Retry(d) \/ Reject(d) PROVE Goal
  BY <1>8 DEF Retry, Reject
<1>9. ASSUME NEW d \in Calls, NEW f \in pending[d], Split(d, f) PROVE Goal
  BY <1>9 DEF Split
<1>10. ASSUME NEW d \in Calls, PoisonStep(d) \/ Kill(d) PROVE Goal
  BY <1>10 DEF PoisonStep, SendPoison, SendPoisonFault, Resolve, Kill
<1>11. CASE EditLink \/ UNCHANGED vars
  BY <1>11 DEF EditLink, callVars, vars
<1> QED BY <1>2, <1>3, <1>4, <1>5, <1>6, <1>7, <1>8, <1>9, <1>10, <1>11
        DEF Next, CallStep, FlushStep, SplitStep, AllSettled

\* The object of a try stays as the try wrote it until its INSERT is done.
LEMMA AgreesStep ==
  ASSUME IInv, Agrees, [Next]_vars
  PROVE  Agrees'
<1> SUFFICES ASSUME NEW c \in Calls, pc'[c] = "insert", NEW g \in pending'[c], InFlight(c, g)'
             PROVE  LogObject(c, g)' \in r2'
  BY DEF Agrees
<1>1. CASE \E f \in pending[c] : PutOk(c, f)
  <2>1. PICK f \in pending[c] : PutOk(c, f)
    BY <1>1
  <2>2. InFlight(c, f) /\ InFlight(c, g) /\ LogObject(c, g)' = LogObject(c, g)
    BY <2>1 DEF PutOk, InFlight, LogObject, Slice
  <2>3. f = g
    BY <2>2, OneInFlight DEF IInv, CallInv
  <2> QED BY <2>1, <2>2, <2>3 DEF PutOk, Put
<1>2. CASE ~ \E f \in pending[c] : PutOk(c, f)
  <2>1. /\ pc[c] = "insert"
        /\ batch'[c] = batch[c] /\ pending'[c] = pending[c] /\ host'[c] = host[c]
        /\ \A o \in r2 : o.key[1] = c => o \in r2'
    BY <1>2, AtInsert
  <2>2. InFlight(c, g) /\ LogObject(c, g)' = LogObject(c, g) /\ LogObject(c, g).key[1] = c
    BY <2>1 DEF InFlight, LogObject, Slice
  <2> QED BY <2>1, <2>2 DEF Agrees
<1> QED BY <1>1, <1>2

\* Only the INSERT of a call that is there to run writes rows.
LEMMA WhoInserts ==
  ASSUME [Next]_vars
  PROVE  \/ pg' = pg
         \/ \E c \in Calls : \E f \in pending[c] :
               pc[c] = "insert" /\ InFlight(c, f) /\ pg' = Insert(c, f)
  BY DEF Next, Start, CallStep, FlushStep, SplitStep, PoisonStep, ReadDestinations,
         ReadFault, PutOk, PutFault, DlqBatch, DlqBatchFault, InsertOk, InsertRefused,
         InsertFault, Retry, Reject, Isolate, Split, SendPoison, SendPoisonFault,
         Resolve, Kill, EditLink, AllSettled, vars

\* A row is inserted with the destination that its try put into the log, whatever overlaps
\* with it (flush.ts: the destinations are resolved once per try, before the PUT).
THEOREM InsertsWhatItLogged == Spec => InsertedAsLogged
<1>1. Init => Agrees
  BY DEF Init, Agrees
<1>2. IInv /\ Agrees /\ [Next]_vars => Agrees'
  BY AgreesStep
<1>3. ASSUME IInv, Agrees, [Next]_vars
      PROVE  [\A row \in pg' \ pg :
                 \E o \in r2 : row.event \in o.events /\ o.host = row.host]_vars
  <2> SUFFICES ASSUME NEW row \in pg' \ pg
               PROVE  \E o \in r2 : row.event \in o.events /\ o.host = row.host
    OBVIOUS
  <2>0. PICK c \in Calls : \E f \in pending[c] :
          pc[c] = "insert" /\ InFlight(c, f) /\ pg' = Insert(c, f)
    BY <1>3, WhoInserts
  <2>1. PICK f \in pending[c] : pc[c] = "insert" /\ InFlight(c, f) /\ pg' = Insert(c, f)
    BY <2>0
  <2>2. LogObject(c, f) \in r2
    BY <1>3, <2>1 DEF Agrees
  <2>3. row.event \in Slice(c, f) /\ row.host = host[c]
    BY <2>1 DEF Insert
  <2> QED BY <2>2, <2>3 DEF LogObject
<1> QED BY <1>1, <1>2, <1>3, Invariance, PTL DEF Spec, InsertedAsLogged

-----------------------------------------------------------------------------
(***************************************************************************)
(* The flush keeps its contract.  Seen through it, a step of a call adds   *)
(* rows and dead letters of its own events and may end the call; nothing   *)
(* else shows.                                                             *)
(***************************************************************************)

Taken(c) == {batch[c][i] : i \in DOMAIN batch[c]}

\* What call c adds to the stores comes from its own batch.
AddsOwn(c) ==
    /\ \A r \in pg' : r \in pg \/ r.event \in Taken(c)
    /\ \A d \in dlq' : d \in dlq \/ (d.batch = c /\ d.events \subseteq Taken(c))

Stored == {e \in {r.event : r \in pg} : Logged(e)}

Parked == UNION {{d.batch} \X d.events : d \in dlq}

\* A row's event is stored in both stores: the log came first.
LEMMA StoredIsRow ==
  ASSUME IInv
  PROVE  \A e : e \in Stored <=> HasRow(e)
  BY DEF Stored, IInv, RowsAreLogged, HasRow

\* A slice of a batch holds events of that batch.
LEMMA SliceTaken ==
  ASSUME IInv, NEW c \in Calls, NEW f \in pending[c]
  PROVE  Slice(c, f) \subseteq Taken(c)
<1>1. f \in SubBatch /\ batch[c] \in Seq(Events) /\ 1 <= f.lo /\ f.hi <= Len(batch[c])
  BY SliceType DEF IInv, TypeOK, CallInv, Slices
<1>2. \A i \in f.lo .. f.hi : i \in DOMAIN batch[c]
  BY <1>1 DEF SubBatch
<1> QED BY <1>2 DEF Slice, Taken

\* Only a call that runs takes a step, with its batch unchanged; it adds rows and dead
\* letters of its own, and goes on, rejects or resolves.
LEMMA CallWrites ==
  ASSUME IInv, NEW c \in Calls, CallStep(c)
  PROVE  /\ pc[c] \in Running /\ batch' = batch
         /\ AddsOwn(c)
         /\ \/ \E q \in Running \cup {"rejected"} : pc' = [pc EXCEPT ![c] = q]
            \/ Resolve(c)
<1> DEFINE Moves == \E q \in Running \cup {"rejected"} : pc' = [pc EXCEPT ![c] = q]
           Goal == pc[c] \in Running /\ batch' = batch /\ AddsOwn(c) /\ (Moves \/ Resolve(c))
<1> SUFFICES Goal
  OBVIOUS
<1>1. ASSUME pg' = pg, dlq' = dlq PROVE AddsOwn(c)
  BY <1>1 DEF AddsOwn
<1>2. ASSUME NEW f \in pending[c], pg' = Insert(c, f), dlq' = dlq PROVE AddsOwn(c)
  BY <1>2, SliceTaken DEF AddsOwn, Insert
<1>3. ASSUME NEW reason, NEW S, S \subseteq Taken(c), pg' = pg,
             dlq' = dlq \cup {DeadLetter(reason, c, S)}
      PROVE  AddsOwn(c)
  BY <1>3 DEF AddsOwn, DeadLetter
<1>4. CASE ReadDestinations(c) \/ ReadFault(c) \/ Retry(c) \/ Reject(c)
  BY <1>1, <1>4 DEF ReadDestinations, ReadFault, Throw, Retry, Reject, Running
<1>5. ASSUME NEW f \in pending[c],
             \/ PutOk(c, f) \/ \E retryable \in BOOLEAN : PutFault(c, f, retryable)
             \/ InsertRefused(c, f)
      PROVE  Goal
  BY <1>1, <1>5 DEF PutOk, PutFault, AfterPutError, InsertRefused, Throw, Running
<1>6. ASSUME NEW f \in pending[c], DlqBatch(c, f) \/ DlqBatchFault(c, f) PROVE Goal
  <2>1. AddsOwn(c)
    BY <1>1, <1>3, <1>6, SliceTaken DEF DlqBatch, DlqBatchFault, BatchDeadLetter
  <2> QED BY <1>6, <2>1 DEF DlqBatch, DlqBatchFault, Finish, Throw, Running
<1>7. ASSUME NEW f \in pending[c], InsertOk(c, f) \/ InsertFault(c, f) PROVE Goal
  <2>1. AddsOwn(c)
    BY <1>1, <1>2, <1>7 DEF InsertOk, InsertFault
  <2> QED BY <1>7, <2>1 DEF InsertOk, InsertFault, Finish, Throw, Running
<1>8. ASSUME NEW f \in pending[c], Isolate(c, f) \/ Split(c, f) PROVE Goal
  BY <1>1, <1>8 DEF Isolate, Split, Finish, Running
<1>9. ASSUME NEW i \in poisoned[c], SendPoison(c, i) \/ SendPoisonFault(c, i) PROVE Goal
  <2>1. {batch[c][i]} \subseteq Taken(c)
    BY DEF IInv, CallInv, Isolated, Taken
  <2>2. AddsOwn(c)
    BY <1>1, <1>3, <1>9, <2>1 DEF SendPoison, SendPoisonFault, PoisonDeadLetter
  <2>3. pc[c] \in Running /\ batch' = batch
    BY <1>9 DEF SendPoison, SendPoisonFault, Running
  <2>4. CASE SendPoison(c, i)
    <3>1. pc' = [pc EXCEPT ![c] = "dlqPoison"]
      BY <2>4 DEF SendPoison, IInv, TypeOK
    <3> QED BY <2>2, <2>3, <3>1 DEF Running
  <2>5. CASE SendPoisonFault(c, i)
    BY <2>2, <2>3, <2>5 DEF SendPoisonFault
  <2> QED BY <1>9, <2>4, <2>5
<1>10. CASE Resolve(c)
  BY <1>1, <1>10 DEF Resolve, Running
<1> QED BY <1>4, <1>5, <1>6, <1>7, <1>8, <1>9, <1>10
        DEF CallStep, FlushStep, SplitStep, PoisonStep

\* Such a step secures events of the call, and none is lost again.
LEMMA Secured ==
  ASSUME IInv, IInv', StoresGrow, NEW c \in Calls,
         pc[c] \in Running, batch' = batch, AddsOwn(c)
  PROVE  Contract!Secures(c)
<1>1. \A e : e \in Stored <=> HasRow(e)
  BY StoredIsRow
<1>2. \A e : e \in Stored' <=> HasRow(e)'
  BY DEF Stored, IInv, RowsAreLogged, HasRow
<1>3. \A e : HasRow(e) => HasRow(e)'
  BY DEF StoresGrow
<1>4. \A e : HasRow(e)' => HasRow(e) \/ e \in Taken(c)
  BY DEF AddsOwn, HasRow
<1>5. Stored \subseteq Stored' /\ Stored' \subseteq Stored \cup Taken(c)
  BY <1>1, <1>2, <1>3, <1>4
<1>6. Parked \subseteq Parked'
  BY DEF Parked, StoresGrow
<1>7. Parked' \subseteq Parked \cup ({c} \X Taken(c))
  BY DEF Parked, AddsOwn
<1>8. pc[c] \in Running => [d \in Calls |-> IF pc[d] \in Running THEN "running" ELSE pc[d]][c] = "running"
  OBVIOUS
<1>9. [d \in Calls |-> {batch[d][i] : i \in DOMAIN batch[d]}][c] = Taken(c)
  BY DEF Taken
<1> QED BY <1>5, <1>6, <1>7, <1>8, <1>9 DEF Contract!Secures, Stored, Parked

\* A step about one call, as the contract sees it.
LEMMA CallContract ==
  ASSUME IInv, IInv', StoresGrow, NEW c \in Calls,
         CallStep(c) \/ Kill(c) \/ \E b \in Batches : Start(c, b)
  PROVE  [Contract!Next]_(Contract!vars)
<1> DEFINE Outcome == [d \in Calls |-> IF pc[d] \in Running THEN "running" ELSE pc[d]]
<1>1. \A q : pc' = [pc EXCEPT ![c] = q] =>
                Outcome' = [Outcome EXCEPT ![c] = IF q \in Running THEN "running" ELSE q]
  BY DEF IInv, TypeOK
<1>2. ASSUME pc[c] \in Running, batch' = batch, AddsOwn(c),
             NEW q \in Running \cup {"rejected", "killed"}, pc' = [pc EXCEPT ![c] = q]
      PROVE  [Contract!Next]_(Contract!vars)
  <2>1. Contract!Secures(c)
    BY <1>2, Secured
  <2>2. CASE q \in Running
    <3>1. Outcome' = Outcome
      BY <1>1, <1>2, <2>2
    <3> QED BY <2>1, <3>1 DEF Contract!Next, Contract!GoesOn
  <2>3. CASE q \in {"rejected", "killed"}
    <3>1. Outcome' = [Outcome EXCEPT ![c] = q]
      BY <1>1, <1>2, <2>3 DEF Running
    <3> QED BY <2>1, <2>3, <3>1 DEF Contract!Next, Contract!GivesUp
  <2> QED BY <1>2, <2>2, <2>3
<1>3. CASE CallStep(c) /\ ~Resolve(c)
  BY <1>2, <1>3, CallWrites
<1>4. CASE Kill(c)
  <2>1. pc[c] \in Running /\ batch' = batch /\ AddsOwn(c)
    BY <1>4 DEF Kill, AddsOwn
  <2> QED BY <1>2, <1>4, <2>1 DEF Kill
<1>5. CASE Resolve(c)
  <2>1. \A e \in Taken(c) : e \in Stored \/ <<c, e>> \in Parked
    <3>1. \A i \in DOMAIN batch[c] : Accounted(c, batch[c][i])
      BY <1>5 DEF Resolve, PoisonSent, IInv, CallInv, Covered, Drained, Awaited, Running
    <3>2. \A reason, e : InDlq(reason, c, e) => <<c, e>> \in Parked
      BY DEF InDlq, Parked
    <3> QED BY <3>1, <3>2, StoredIsRow DEF Taken, Accounted
  <2>2. Outcome[c] = "running" /\ Outcome' = [Outcome EXCEPT ![c] = "resolved"]
    BY <1>1, <1>5 DEF Resolve, Running
  <2>3. UNCHANGED <<[d \in Calls |-> Taken(d)], Stored, Parked>>
    BY <1>5 DEF Resolve, Taken, Stored, Parked, Logged
  <2> QED BY <2>1, <2>2, <2>3 DEF Contract!Next, Contract!Resolve, Taken, Stored, Parked
<1>6. ASSUME NEW b \in Batches, Start(c, b) PROVE [Contract!Next]_(Contract!vars)
  <2> DEFINE TakenAll == [d \in Calls |-> {batch[d][i] : i \in DOMAIN batch[d]}]
             S == {b[i] : i \in DOMAIN b}
  <2>1. Outcome[c] = "idle" /\ Outcome' = [Outcome EXCEPT ![c] = "running"]
    BY <1>1, <1>6 DEF Start, Running
  <2>2. b \in Seq(Events) /\ b # <<>>
    BY BatchesAssumption
  <2>3. S \in (SUBSET Events) \ {{}}
    <3>1. S \subseteq Events
      BY <2>2, ElementOfSeq
    <3>2. b[1] \in S
      BY <2>2, EmptySeq
    <3> HIDE DEF S
    <3> QED BY <3>1, <3>2
  <2>4. TakenAll' = [TakenAll EXCEPT ![c] = S]
    <3>1. batch'[c] = b /\ \A d \in Calls : d # c => batch'[d] = batch[d]
      BY <1>6 DEF Start, IInv, TypeOK
    <3>2. TakenAll'[c] = S /\ \A d \in Calls : d # c => TakenAll'[d] = TakenAll[d]
      BY <3>1
    <3> QED BY <3>2
  <2>5. UNCHANGED <<Stored, Parked>>
    BY <1>6 DEF Start, Stored, Parked, Logged
  <2> QED BY <2>1, <2>3, <2>4, <2>5 DEF Contract!Next, Contract!Take, Stored, Parked
<1> QED BY <1>3, <1>4, <1>5, <1>6

\* Every step is one of the contract's, or none.
LEMMA StepContract ==
  ASSUME IInv, [Next]_vars
  PROVE  [Contract!Next]_(Contract!vars)
<1>1. IInv' /\ StoresGrow
  BY StepInv
<1>2. CASE UNCHANGED <<callVars, r2, pg, dlq>>
  BY <1>2 DEF callVars, Contract!vars, Logged
<1>3. CASE EditLink \/ AllSettled \/ UNCHANGED vars
  BY <1>2, <1>3 DEF EditLink, AllSettled, vars, callVars
<1> QED BY <1>1, <1>3, CallContract DEF Next

\* The production flush is what the intake takes it for (app.module.ts:
\* buildProductionFlush): it secures its own events only, undoes nothing, and resolves
\* when every one of them is in both stores or in the dead-letter queue.
THEOREM Implements == Spec => KeepsContract
<1>1. Init => Contract!Init
  BY DEF Init, Contract!Init, Running
<1>2. IInv /\ [Next]_vars => [Contract!Next]_(Contract!vars)
  BY StepContract
<1> QED BY <1>1, <1>2, Invariance, PTL DEF Spec, KeepsContract, Contract!Spec

-----------------------------------------------------------------------------
(***************************************************************************)
(* The recursion ends: every step of a call advances it.  A sub-batch that *)
(* is done with gives way to one that begins later, a split one to a       *)
(* shorter one that begins where it did, and within a sub-batch the        *)
(* attempts, the stages and the attempts to PUT only go up.                *)
(***************************************************************************)
Trying == {"read", "put", "dlqBatch", "insert", "threw"}

\* A call that is trying something has something to try.
Busy == \A c \in Calls : pc[c] \in Trying => pending[c] # {}

\* Among sub-batches one begins first.
LEMMA FirstOf ==
  ASSUME NEW P \in SUBSET SubBatch, P # {}
  PROVE  \E f \in P : \A g \in P : f.lo <= g.lo
<1> DEFINE T == {1 .. f.lo : f \in P}
<1>1. \A f \in P : f.lo \in Nat
  BY DEF SubBatch
<1>2. T \subseteq FiniteSubsetsOf(Nat)
  <2>1. ASSUME NEW i \in Nat PROVE 1 .. i \in FiniteSubsetsOf(Nat)
    BY FS_Interval DEF FiniteSubsetsOf
  <2> QED BY <1>1, <2>1
<1>3. T # {}
  OBVIOUS
<1> HIDE DEF T
<1>4. PICK x \in T : \A y \in T : ~ (<<y, x>> \in StrictSubsetOrdering(Nat))
  BY <1>2, <1>3, WFMin, FS_StrictSubsetOrderingWellFounded
<1>5. PICK f \in P : x = 1 .. f.lo
  BY <1>4 DEF T
<1>6. ASSUME NEW g \in P, ~(f.lo <= g.lo) PROVE FALSE
  <2>1. 1 .. g.lo \in T /\ 1 .. g.lo \in FiniteSubsetsOf(Nat) /\ x \in FiniteSubsetsOf(Nat)
    BY <1>2 DEF T
  <2>2. 1 .. g.lo \subseteq x /\ f.lo \in x /\ f.lo \notin 1 .. g.lo
    BY <1>1, <1>5, <1>6
  <2> QED BY <1>4, <2>1, <2>2 DEF StrictSubsetOrdering, FiniteSubsetsOf
<1> QED BY <1>6

\* Busy is kept: a call goes back to its next sub-batch only if there is one.
LEMMA BusyStep ==
  ASSUME TypeOK, Busy, [Next]_vars
  PROVE  Busy'
<1>1. ASSUME NEW c \in Calls, CallStep(c) \/ Kill(c) \/ \E b \in Batches : Start(c, b)
      PROVE  Busy'
  <2>1. \A d \in Calls : d # c => pc'[d] = pc[d] /\ pending'[d] = pending[d]
    BY <1>1 DEF TypeOK, CallStep, FlushStep, SplitStep, PoisonStep, Start, Kill, ReadDestinations,
                ReadFault, PutOk, PutFault, DlqBatch, DlqBatchFault, InsertOk, InsertRefused,
                InsertFault, Retry, Reject, Isolate, Split, SendPoison, SendPoisonFault, Resolve,
                Throw, Finish
  <2>2. ASSUME NEW f \in pending[c], Finish(c, f)
        PROVE  pc'[c] \in Trying => pending'[c] # {}
    BY <2>2 DEF Finish, TypeOK, Trying
  <2>3. ASSUME pc[c] \in Trying, pending' = pending
        PROVE  pc'[c] \in Trying => pending'[c] # {}
    BY <2>3 DEF Busy
  <2>4. CASE ReadDestinations(c) \/ ReadFault(c) \/ Retry(c) \/ Reject(c)
    <3>1. pc[c] \in Trying /\ pending' = pending
      BY <2>4 DEF ReadDestinations, ReadFault, Throw, Retry, Reject, Trying
    <3> QED BY <2>1, <2>3, <3>1 DEF Busy
  <2>5. ASSUME NEW f \in pending[c],
               \/ PutOk(c, f) \/ \E retryable \in BOOLEAN : PutFault(c, f, retryable)
               \/ DlqBatchFault(c, f) \/ InsertRefused(c, f) \/ InsertFault(c, f)
        PROVE  Busy'
    <3>1. pc[c] \in Trying /\ pending' = pending
      BY <2>5 DEF PutOk, PutFault, DlqBatchFault, InsertRefused, InsertFault, Throw, Trying
    <3> QED BY <2>1, <2>3, <3>1 DEF Busy
  <2>6. ASSUME NEW f \in pending[c], DlqBatch(c, f) \/ InsertOk(c, f) \/ Isolate(c, f)
        PROVE  Busy'
    BY <2>1, <2>2, <2>6 DEF DlqBatch, InsertOk, Isolate, Busy
  <2>7. ASSUME NEW f \in pending[c], Split(c, f) PROVE Busy'
    <3>1. LeftHalf(f) \in pending'[c]
      BY <2>7 DEF Split, TypeOK
    <3> QED BY <2>1, <3>1 DEF Busy
  <2>8. CASE PoisonStep(c) \/ Kill(c)
    <3>1. pc'[c] \notin Trying
      BY <2>8 DEF PoisonStep, SendPoison, SendPoisonFault, Resolve, Kill, TypeOK, Trying
    <3> QED BY <2>1, <3>1 DEF Busy
  <2>9. ASSUME NEW b \in Batches, Start(c, b) PROVE Busy'
    <3>1. Whole(b) \in pending'[c]
      BY <2>9 DEF Start, TypeOK
    <3> QED BY <2>1, <3>1 DEF Busy
  <2> QED BY <1>1, <2>4, <2>5, <2>6, <2>7, <2>8, <2>9
          DEF CallStep, FlushStep, SplitStep
<1>2. CASE UNCHANGED <<callVars, r2, pg, dlq>>
  BY <1>2 DEF Busy, callVars
<1> QED BY <1>1, <1>2 DEF Next, EditLink, AllSettled, vars, callVars

\* What call c, trying sub-batch f, gets to by a step.
Advances(c) ==
    \/ pc'[c] \in Settled
    \/ pc[c] # "dlqPoison" /\ pc'[c] = "dlqPoison"
    \/ poisoned'[c] \in (SUBSET poisoned[c]) \ {poisoned[c]}
    \/ \E f \in pending[c], g \in pending'[c] :
          /\ InFlight(c, f) /\ InFlight(c, g)'
          /\ Before(Stand(c, f), Stand(c, g)')

\* With the same sub-batch, the next attempt, stage or PUT.
LEMMA SameSubBatch ==
  ASSUME NEW c \in Calls, NEW f \in pending[c], InFlight(c, f), pending' = pending,
         \/ attempt[c] < attempt'[c]
         \/ attempt'[c] = attempt[c] /\ Stage(pc[c]) < Stage(pc[c])'
         \/ attempt'[c] = attempt[c] /\ Stage(pc[c])' = Stage(pc[c])
                                     /\ putAttempt[c] < putAttempt'[c]
  PROVE  Advances(c)
<1> DEFINE s == Stand(c, f)
           t == Stand(c, f)'
<1>1. InFlight(c, f)'
  BY DEF InFlight
<1>2. /\ s[1] = f.lo /\ s[2] = -Size(f) /\ s[3] = attempt[c]
      /\ s[4] = Stage(pc[c]) /\ s[5] = putAttempt[c]
  BY DEF Stand
<1>3. /\ t[1] = f.lo /\ t[2] = -Size(f) /\ t[3] = attempt'[c]
      /\ t[4] = Stage(pc[c])' /\ t[5] = putAttempt'[c]
  BY DEF Stand, Size
<1> HIDE DEF s, t
<1>4. \E k \in 3 .. 5 : s[k] < t[k] /\ \A j \in 1 .. k - 1 : s[j] = t[j]
  <2>1. CASE attempt[c] < attempt'[c]
    <3>1. s[3] < t[3] /\ \A j \in 1 .. 2 : s[j] = t[j]
      BY <1>2, <1>3, <2>1
    <3> QED BY <3>1
  <2>2. CASE attempt'[c] = attempt[c] /\ Stage(pc[c]) < Stage(pc[c])'
    <3>1. s[4] < t[4] /\ \A j \in 1 .. 3 : s[j] = t[j]
      BY <1>2, <1>3, <2>2
    <3> QED BY <3>1
  <2>3. CASE attempt'[c] = attempt[c] /\ Stage(pc[c])' = Stage(pc[c])
                                      /\ putAttempt[c] < putAttempt'[c]
    <3>1. s[5] < t[5] /\ \A j \in 1 .. 4 : s[j] = t[j]
      BY <1>2, <1>3, <2>3
    <3> QED BY <3>1
  <2> QED BY <2>1, <2>2, <2>3
<1>5. Before(s, t)
  <2>1. DOMAIN s = 1 .. 5
    BY DEF s, Stand
  <2> QED BY <1>4, <2>1 DEF Before
<1> QED BY <1>1, <1>5 DEF Advances, s, t, InFlight

\* With a sub-batch that begins later, or a shorter one that begins there.
LEMMA NextSubBatch ==
  ASSUME NEW c \in Calls, NEW f \in pending[c], NEW g \in pending'[c],
         InFlight(c, f), InFlight(c, g)',
         \/ f.lo < g.lo
         \/ f.lo = g.lo /\ -Size(f) < -Size(g)
  PROVE  Advances(c)
<1> DEFINE s == Stand(c, f)
           t == Stand(c, g)'
<1>1. s[1] = f.lo /\ s[2] = -Size(f) /\ t[1] = g.lo /\ t[2] = -Size(g)
  BY DEF Stand, Size
<1> HIDE DEF s, t
<1>2. \E k \in 1 .. 2 : s[k] < t[k] /\ \A j \in 1 .. k - 1 : s[j] = t[j]
  BY <1>1
<1>3. Before(s, t)
  <2>1. DOMAIN s = 1 .. 5
    BY DEF s, Stand
  <2> QED BY <1>2, <2>1 DEF Before
<1> QED BY <1>3 DEF Advances, s, t

\* A sub-batch that is done with gives way to a later one, or to the poison events.
LEMMA FinishAdvances ==
  ASSUME TypeOK, TypeOK', NEW c \in Calls, Slices(c), NEW f \in pending[c], InFlight(c, f),
         pc[c] # "dlqPoison", Finish(c, f)
  PROVE  Advances(c)
<1>1. pending'[c] = pending[c] \ {f}
  BY DEF Finish, TypeOK
<1>2. CASE pending[c] = {f}
  BY <1>2 DEF Finish, TypeOK, Advances
<1>3. CASE pending[c] # {f}
  <2>1. PICK g \in pending'[c] : InFlight(c, g)'
    <3>1. pending'[c] # {} /\ pending'[c] \in SUBSET SubBatch
      BY <1>1, <1>3 DEF TypeOK
    <3> QED BY <3>1, FirstOf DEF InFlight
  <2>2. f \in SubBatch /\ g \in SubBatch /\ f # g /\ g \in pending[c]
    BY <1>1 DEF TypeOK
  <2>3. f.lo < g.lo
    BY <2>2 DEF Slices, InFlight, SubBatch
  <2> QED BY <2>1, <2>3, NextSubBatch
<1> QED BY <1>2, <1>3

\* Every step of a call advances it.
LEMMA CallAdvances ==
  ASSUME IInv, TypeOK', Busy, NEW c \in Calls, CallStep(c)
  PROVE  Advances(c)
<1>1. TypeOK /\ Slices(c)
  BY DEF IInv, CallInv
<1>2. CASE ReadDestinations(c) \/ ReadFault(c) \/ Retry(c)
  <2>1. PICK f \in pending[c] : InFlight(c, f)
    <3>1. pending[c] # {} /\ pending[c] \in SUBSET SubBatch
      BY <1>1, <1>2 DEF Busy, Trying, TypeOK, ReadDestinations, ReadFault, Retry
    <3> QED BY <3>1, FirstOf DEF InFlight
  <2>2. CASE ReadDestinations(c)
    <3>1. pending' = pending /\ attempt' = attempt /\ pc[c] = "read" /\ pc'[c] = "put"
      BY <1>1, <2>2 DEF ReadDestinations, TypeOK
    <3> QED BY <2>1, <3>1, SameSubBatch DEF Stage
  <2>3. CASE ReadFault(c)
    <3>1. pending' = pending /\ attempt' = attempt /\ pc[c] = "read" /\ pc'[c] = "threw"
      BY <1>1, <2>3 DEF ReadFault, Throw, TypeOK
    <3> QED BY <2>1, <3>1, SameSubBatch DEF Stage
  <2>4. CASE Retry(c)
    <3>1. pending' = pending /\ attempt[c] < attempt'[c]
      BY <1>1, <2>4, AttemptsAssumption DEF Retry, TypeOK
    <3> QED BY <2>1, <3>1, SameSubBatch
  <2> QED BY <1>2, <2>2, <2>3, <2>4
<1>3. ASSUME NEW f \in pending[c], PutOk(c, f) PROVE Advances(c)
  <2>1. pending' = pending /\ attempt' = attempt /\ pc[c] = "put" /\ pc'[c] = "insert"
    BY <1>1, <1>3 DEF PutOk, TypeOK
  <2> QED BY <1>3, <2>1, SameSubBatch DEF PutOk, Stage
<1>4. ASSUME NEW f \in pending[c], NEW retryable \in BOOLEAN, PutFault(c, f, retryable)
      PROVE  Advances(c)
  <2>1. /\ InFlight(c, f) /\ pending' = pending /\ attempt' = attempt /\ pc[c] = "put"
        /\ pc'[c] = AfterPutError(c, retryable)
    BY <1>1, <1>4 DEF PutFault, TypeOK
  <2>2. CASE AfterPutError(c, retryable) = "put"
    <3>1. putAttempt[c] < putAttempt'[c]
      BY <1>1, <1>4, <2>2, AttemptsAssumption DEF PutFault, TypeOK
    <3> QED BY <2>1, <2>2, <3>1, SameSubBatch
  <2>3. CASE AfterPutError(c, retryable) = "dlqBatch"
    BY <2>1, <2>3, SameSubBatch DEF Stage
  <2> QED BY <2>2, <2>3 DEF AfterPutError
<1>5. ASSUME NEW f \in pending[c],
             DlqBatchFault(c, f) \/ InsertRefused(c, f) \/ InsertFault(c, f)
      PROVE  Advances(c)
  <2>1. /\ InFlight(c, f) /\ pending' = pending /\ attempt' = attempt
        /\ pc[c] \in {"dlqBatch", "insert"} /\ pc'[c] = "threw"
    BY <1>1, <1>5 DEF DlqBatchFault, InsertRefused, InsertFault, Throw, TypeOK
  <2> QED BY <2>1, SameSubBatch DEF Stage
<1>6. ASSUME NEW f \in pending[c], DlqBatch(c, f) \/ InsertOk(c, f) \/ Isolate(c, f)
      PROVE  Advances(c)
  <2>1. InFlight(c, f) /\ pc[c] # "dlqPoison" /\ Finish(c, f)
    BY <1>6 DEF DlqBatch, InsertOk, Isolate
  <2> QED BY <1>1, <2>1, FinishAdvances
<1>7. ASSUME NEW f \in pending[c], Split(c, f) PROVE Advances(c)
  <2>1. f \in SubBatch /\ Size(f) > 1 /\ InFlight(c, f)
    BY <1>1, <1>7 DEF Split, TypeOK
  <2> DEFINE g == LeftHalf(f)
             h == RightHalf(f)
  <2>2. pending'[c] = (pending[c] \ {f}) \cup {g, h}
    BY <1>1, <1>7 DEF Split, TypeOK
  <2>3. g.lo = f.lo /\ f.lo <= h.lo /\ -Size(f) < -Size(g)
    BY <2>1 DEF LeftHalf, RightHalf, LastOfLeft, Size, SubBatch
  <2> HIDE DEF g, h
  <2>4. InFlight(c, g)'
    <3>1. \A k \in pending'[c] : g.lo <= k.lo
      BY <2>1, <2>2, <2>3 DEF InFlight, SubBatch
    <3> QED BY <2>2, <3>1 DEF InFlight
  <2> QED BY <2>1, <2>2, <2>3, <2>4, NextSubBatch
<1>8. CASE Reject(c) \/ Resolve(c)
  BY <1>1, <1>8 DEF Reject, Resolve, TypeOK, Advances, Settled
<1>9. ASSUME NEW i \in poisoned[c], SendPoison(c, i) \/ SendPoisonFault(c, i)
       PROVE  Advances(c)
  <2>1. CASE SendPoison(c, i)
    BY <1>1, <2>1 DEF SendPoison, TypeOK, Advances
  <2>2. CASE SendPoisonFault(c, i)
    BY <1>1, <2>2 DEF SendPoisonFault, TypeOK, Advances, Settled
  <2> QED BY <1>9, <2>1, <2>2
<1> QED BY <1>2, <1>3, <1>4, <1>5, <1>6, <1>7, <1>8, <1>9
        DEF CallStep, FlushStep, SplitStep, PoisonStep

\* The recursion of a flush ends: no step takes it back to where it was, so that with
\* finitely many attempts for finitely many slices it settles if it is kept running
\* (split-retry.ts, r2-retry.ts: the bounds of both loops).
THEOREM RecursionEnds == Spec => EveryStepAdvances
<1>1. Init => Busy
  BY DEF Init, Busy, Trying
<1>2. IInv /\ Busy /\ [Next]_vars => Busy'
  BY BusyStep DEF IInv
<1>3. ASSUME IInv, Busy, [Next]_vars
      PROVE  [\A c \in Calls : CallStep(c) => Advances(c)]_vars
  <2>1. TypeOK'
    BY <1>3, StepInv DEF IInv
  <2> QED BY <1>3, <2>1, CallAdvances
<1> QED BY <1>1, <1>2, <1>3, Invariance, PTL DEF Spec, EveryStepAdvances, Advances

=============================================================================
