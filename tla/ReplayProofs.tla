----------------------------- MODULE ReplayProofs -----------------------------
(***************************************************************************)
(* Proofs about Replay, for any runs, any requests and any log.            *)
(***************************************************************************)
EXTENDS Replay, FiniteSetTheorems, TLAPS

USE DEF logVars

RunStates ==
    [stage : {"idle", "running", "exited"}, args : Requests \cup {<<>>}, day : Nat,
     token : Nat, truncated : BOOLEAN, page : SUBSET DOMAIN Log, lines : Seq(Record),
     buffer : Seq(Record), counts : [parsed : Int, inserted : Int, skipped : Int],
     exit : -1 .. 2, seen : SUBSET DOMAIN Log, age : Nat]

RowStates == [host : STRING \cup {"none"}, by : Runs \cup {"nobody", "flush"}]

\* However often an object was overwritten, it has the events and kinds of its first PUT.
LogStates ==
    /\ says \in [DOMAIN Log -> Seq(Record)] /\ said \in [DOMAIN Log -> SUBSET Record]
    /\ \A b \in DOMAIN Log :
          /\ DOMAIN says[b] = DOMAIN Log[b].records
          /\ ToSet(says[b]) \subseteq said[b]
          /\ \A rec \in ToSet(Log[b].records) : \E x \in ToSet(says[b]) :
                x.event = rec.event /\ x.kind = rec.kind
          /\ \A x \in said[b] : x.event \in EventsOf(b)

Types ==
    /\ objects \subseteq DOMAIN Log
    /\ LogStates
    /\ rows \in [Events -> RowStates]
    /\ \A e \in Events : rows[e].by = "nobody" => rows[e] = NoRow
    /\ losses \in 0 .. MaxLosses
    /\ run \in [Runs -> RunStates]

Mine(r) == {e \in Events : rows[e].by = r}

\* What a run keeps of its days, its page and its buffer.
Shape(r) ==
    /\ run[r].seen \subseteq objects /\ run[r].age <= losses
    /\ run[r].stage = "idle" => run[r] = Idle /\ Mine(r) = {}
    /\ run[r].exit >= 0 => run[r].stage = "exited"
    /\ run[r].stage # "idle" => run[r].args \in Requests
    /\ Running(r) =>
          /\ run[r].day \in EventPrefixes(run[r].args)
          /\ run[r].args.batch >= 1 /\ Len(run[r].buffer) <= run[r].args.batch
          /\ run[r].page \subseteq Under({run[r].day})
          /\ run[r].seen \subseteq Under(EventPrefixes(run[r].args))

IsUnder(args, rec) ==
    \E b \in Under(EventPrefixes(args)) : rec \in said[b]

\* What it has read is of its days, what it has buffered was asked for.
Sourced(r) ==
    Running(r) =>
        /\ \A rec \in ToSet(run[r].lines) : IsUnder(run[r].args, rec)
        /\ \A rec \in ToSet(run[r].buffer) :
              IsUnder(run[r].args, rec) /\ Matches(run[r].args, rec)
        /\ run[r].args.mode = "dry" => run[r].buffer = <<>>

\* Objects that a later LIST of the run will return.
Ahead(r, b) ==
    \/ Log[b].day > run[r].day
    \/ /\ Log[b].day = run[r].day /\ run[r].truncated
       /\ b > run[r].token /\ \A c \in run[r].page : c < b

\* It holds a record of the event, with the destination that the log gave when it was read.
Holds(r, rec) ==
    \E x \in ToSet(run[r].buffer) \cup ToSet(run[r].lines) :
        x.event = rec.event /\ x.kind = rec.kind

\* A record that a run was asked for has a row, or the run holds it, or will read it.
Covered(r) ==
    Running(r) /\ run[r].args.mode # "dry" /\ run[r].age = losses =>
        \A b \in run[r].seen : \A rec \in ToSet(Log[b].records) :
            rec.kind = "ok" /\ Matches(run[r].args, rec) =>
                \/ HasRow(rec.event)
                \/ Holds(r, rec)
                \/ b \in run[r].page \/ Ahead(r, b)

\* The counts before the report is made.
Counted(r) ==
    /\ Running(r) /\ run[r].args.mode = "report" =>
          run[r].counts.parsed
            = run[r].counts.inserted + run[r].counts.skipped + Len(run[r].buffer)
    /\ run[r].stage # "idle" /\ run[r].age = losses =>
          run[r].counts.inserted = Cardinality(Mine(r))

\* ReplayRebuilds, of one run.
Rebuilt(r) ==
    run[r].exit = 0 /\ run[r].args.mode # "dry" /\ run[r].age = losses =>
        \A b \in run[r].seen : \A rec \in ToSet(Log[b].records) :
            rec.kind = "ok" /\ Matches(run[r].args, rec) => HasRow(rec.event)

Good(r) == Shape(r) /\ Sourced(r) /\ Covered(r) /\ Counted(r) /\ Rebuilt(r)

IInv == /\ Types
        /\ RowsComeFromTheLog /\ WritesWhatWasAsked
        /\ \A r \in Runs : Good(r)

-----------------------------------------------------------------------------
\* Facts about sequences, pages and batches.
LEMMA ToSetType ==
    ASSUME NEW S, NEW s \in Seq(S)
    PROVE  ToSet(s) \subseteq S /\ ToSet(<<>>) = {}
  BY DEF ToSet

\* Append adds one element.
LEMMA ToSetAppend ==
    ASSUME NEW S, NEW s \in Seq(S), NEW x \in S
    PROVE  ToSet(Append(s, x)) = ToSet(s) \cup {x}
  <1>1. ToSet(Append(s, x)) \subseteq ToSet(s) \cup {x}
    BY DEF ToSet
  <1>2. x \in ToSet(Append(s, x))
    <2>1. /\ Len(s) + 1 \in DOMAIN Append(s, x)
          /\ Append(s, x)[Len(s) + 1] = x
      OBVIOUS
    <2> QED
      BY <2>1 DEF ToSet
  <1>3. ASSUME NEW i \in DOMAIN s PROVE s[i] \in ToSet(Append(s, x))
    <2>1. i \in DOMAIN Append(s, x) /\ Append(s, x)[i] = s[i]
      OBVIOUS
    <2> QED
      BY <2>1 DEF ToSet
  <1>4. ToSet(s) \subseteq ToSet(Append(s, x))
    BY <1>3 DEF ToSet
  <1> QED
    BY <1>1, <1>2, <1>4

\* Head and Tail split the elements of a sequence.
LEMMA ToSetTail ==
    ASSUME NEW S, NEW s \in Seq(S), s # <<>>
    PROVE  ToSet(s) = ToSet(Tail(s)) \cup {Head(s)} /\ Head(s) \in S /\ Tail(s) \in Seq(S)
  <1>1. /\ Head(s) \in S /\ Tail(s) \in Seq(S) /\ Head(s) = s[1] /\ 1 \in DOMAIN s
    OBVIOUS
  <1>2. ToSet(Tail(s)) \cup {Head(s)} \subseteq ToSet(s)
    <2>1. \A i \in DOMAIN Tail(s) : i + 1 \in DOMAIN s /\ Tail(s)[i] = s[i + 1]
      OBVIOUS
    <2> QED
      BY <1>1, <2>1 DEF ToSet
  <1>3. ASSUME NEW i \in DOMAIN s, i # 1 PROVE s[i] \in ToSet(Tail(s))
    <2>1. i - 1 \in DOMAIN Tail(s) /\ Tail(s)[i - 1] = s[i]
      BY <1>3
    <2> QED
      BY <2>1 DEF ToSet
  <1>4. ToSet(s) \subseteq ToSet(Tail(s)) \cup {Head(s)}
    BY <1>1, <1>3 DEF ToSet
  <1> QED
    BY <1>1, <1>2, <1>4

\* A set of positions has a least one.
LEMMA LeastOf ==
    ASSUME NEW I \in SUBSET Nat, I # {}
    PROVE  \E i \in I : \A j \in I : i <= j
  <1> DEFINE T == {1 .. i : i \in I}
  <1>1. T \subseteq FiniteSubsetsOf(Nat)
    BY FS_Interval DEF FiniteSubsetsOf
  <1>2. T # {}
    OBVIOUS
  <1> HIDE DEF T
  <1>3. PICK x \in T : \A y \in T : ~ (<<y, x>> \in StrictSubsetOrdering(Nat))
    BY <1>1, <1>2, WFMin, FS_StrictSubsetOrderingWellFounded
  <1>4. PICK i \in I : x = 1 .. i
    BY DEF T
  <1>5. ASSUME NEW j \in I, j < i PROVE FALSE
    <2>1. 1 .. j \in T /\ 1 .. j \in FiniteSubsetsOf(Nat) /\ x \in FiniteSubsetsOf(Nat)
      BY <1>1 DEF T
    <2>2. 1 .. j \subseteq x /\ i \in x /\ i \notin 1 .. j
      BY <1>4, <1>5
    <2> QED
      BY <1>3, <2>1, <2>2 DEF StrictSubsetOrdering, FiniteSubsetsOf
  <1> QED
    BY <1>5

\* A page holds keys that are listed; what it leaves is after all it holds, and the list
\* was cut.
LEMMA PageType ==
    ASSUME NEW keys \in SUBSET Nat, IsFiniteSet(keys), NEW b \in keys
    PROVE  b \in FirstPage(keys) \/ (IsTruncated(keys) /\ \A c \in FirstPage(keys) : c < b)
  <1> SUFFICES ASSUME b \notin FirstPage(keys)
               PROVE  IsTruncated(keys) /\ \A c \in FirstPage(keys) : c < b
    OBVIOUS
  <1> DEFINE Below(c) == {d \in keys : d < c}
  <1>1. \A c \in keys : IsFiniteSet(Below(c)) /\ Cardinality(Below(c)) \in Nat
    BY FS_Subset, FS_CardinalityType
  <1>2. Cardinality(Below(b)) >= PageSize
    BY <1>1, ReplayAssumption DEF FirstPage
  <1>3. IsTruncated(keys)
    <2>0. b \notin Below(b)
      OBVIOUS
    <2>1. Cardinality(Below(b) \cup {b}) = Cardinality(Below(b)) + 1
      <3> HIDE DEF Below
      <3> QED
        BY <1>1, <2>0, FS_AddElement
    <2>2. /\ Cardinality(Below(b) \cup {b}) <= Cardinality(keys)
          /\ Cardinality(keys) \in Nat
      BY FS_Subset, FS_CardinalityType
    <2> HIDE DEF Below
    <2> QED
      BY <1>1, <1>2, <2>1, <2>2, ReplayAssumption DEF IsTruncated
  <1>4. ASSUME NEW c \in FirstPage(keys), c >= b PROVE FALSE
    <2>1. c \in keys /\ Cardinality(Below(c)) < PageSize
      BY DEF FirstPage
    <2>2. Below(b) \subseteq Below(c)
      <3> SUFFICES ASSUME NEW d \in keys, d < b PROVE d < c
        OBVIOUS
      <3>1. b \in Nat /\ c \in Nat /\ d \in Nat
        BY <2>1
      <3> QED
        BY <1>4, <3>1
    <2>3. Cardinality(Below(b)) <= Cardinality(Below(c))
      BY <1>1, <2>1, <2>2, FS_Subset
    <2> HIDE DEF Below
    <2> QED
      BY <1>1, <1>2, <2>1, <2>3, ReplayAssumption
  <1>5. \A c \in FirstPage(keys) : c < b
    BY <1>4 DEF FirstPage
  <1> QED
    BY <1>3, <1>5

\* The rows a batch adds, and the rows it leaves.
LEMMA InsertAdds ==
    ASSUME Types, NEW batch \in Seq(Record), NEW by \in Runs \cup {"flush"}
    PROVE  LET after == InsertEventsBatch(rows, batch, by)
               new == {rec.event : rec \in ToSet(batch)} \ {e \in Events : HasRow(e)}
           IN  /\ after \in [Events -> RowStates]
               /\ new \subseteq Events
               /\ \A e \in Events \ new : after[e] = rows[e]
               /\ \A e \in new : /\ rows[e] = NoRow /\ after[e].by = by
                                 /\ \E rec \in ToSet(batch) :
                                       rec.event = e /\ rec.host = after[e].host
  <1> DEFINE after == InsertEventsBatch(rows, batch, by)
             new == {rec.event : rec \in ToSet(batch)} \ {e \in Events : HasRow(e)}
  <1>1. ToSet(batch) \subseteq Record
    BY ToSetType
  <1>2. new \subseteq Events
    BY <1>1 DEF Record
  <1>3. ASSUME NEW e \in Events \ new PROVE after[e] = rows[e]
    BY DEF InsertEventsBatch, HasRow
  <1>4. ASSUME NEW e \in new
        PROVE  /\ rows[e] = NoRow
               /\ \E rec \in ToSet(batch) : rec.event = e /\ after[e] = [host |-> rec.host, by |-> by]
    <2>1. e \in Events /\ rows[e] = NoRow /\ \E rec \in ToSet(batch) : rec.event = e
      BY <1>2 DEF HasRow
    <2>2. after[e] = [host |-> FirstOf(batch, e).host, by |-> by]
      BY <2>1 DEF InsertEventsBatch
    <2> DEFINE I == {i \in DOMAIN batch : batch[i].event = e}
    <2>3. I \in SUBSET Nat /\ I # {}
      BY <2>1 DEF ToSet
    <2>4. \E i \in I : \A j \in I : i <= j
      BY <2>3, LeastOf
    <2>5. \E i \in DOMAIN batch : /\ batch[i].event = e
                                  /\ \A j \in DOMAIN batch : batch[j].event = e => i <= j
      BY <2>4
    <2>6. \E i \in DOMAIN batch : FirstOf(batch, e) = batch[i] /\ batch[i].event = e
      BY <2>5 DEF FirstOf
    <2>7. FirstOf(batch, e) \in ToSet(batch) /\ FirstOf(batch, e).event = e
      BY <2>6 DEF ToSet
    <2> HIDE DEF I, after
    <2> QED
      BY <2>1, <2>2, <2>7
  <1>5. after \in [Events -> RowStates]
    <2> SUFFICES ASSUME NEW e \in Events PROVE after[e] \in RowStates
      BY DEF InsertEventsBatch
    <2>1. CASE e \in new
      <3>1. PICK rec \in ToSet(batch) : after[e] = [host |-> rec.host, by |-> by]
        BY <1>4, <2>1
      <3>2. rec.host \in STRING
        BY <1>1 DEF Record
      <3> HIDE DEF after
      <3> QED
        BY <3>1, <3>2 DEF RowStates
    <2>2. CASE e \notin new
      BY <1>3, <2>2 DEF Types
    <2> QED
      BY <2>1, <2>2
  <1> HIDE DEF after, new
  <1>6. \A e \in new : /\ rows[e] = NoRow /\ after[e].by = by
                       /\ \E rec \in ToSet(batch) :
                             rec.event = e /\ rec.host = after[e].host
    <2> SUFFICES ASSUME NEW e \in new
                 PROVE  /\ rows[e] = NoRow /\ after[e].by = by
                        /\ \E rec \in ToSet(batch) :
                              rec.event = e /\ rec.host = after[e].host
      OBVIOUS
    <2>1. PICK rec \in ToSet(batch) : rec.event = e /\ after[e] = [host |-> rec.host, by |-> by]
      BY <1>4
    <2> QED
      BY <1>4, <2>1
  <1> QED
    BY <1>2, <1>3, <1>5, <1>6 DEF after, new

-----------------------------------------------------------------------------
\* A run that has not begun is in one of the states of runs.
LEMMA IdleType == Idle \in RunStates
  <1>1. /\ <<>> \in Seq(Record) /\ <<>> \in Requests \cup {<<>>}
        /\ {} \in SUBSET DOMAIN Log
        /\ NoCounts \in [parsed : Int, inserted : Int, skipped : Int]
    BY DEF NoCounts
  <1> QED
    BY <1>1 DEF Idle, RunStates

\* The initial states satisfy the invariant.
LEMMA InitIInv == Init => IInv
  <1> SUFFICES ASSUME Init PROVE IInv
    OBVIOUS
  <1> USE ReplayAssumption, LogAssumption DEF Init
  <1>1. NoRow \in RowStates /\ Idle \in RunStates
    BY IdleType DEF NoRow, RowStates
  <1>2. LogStates
    <2> SUFFICES ASSUME NEW b \in DOMAIN Log
                 PROVE  /\ says[b] = Log[b].records /\ said[b] = ToSet(Log[b].records)
                        /\ Log[b].records \in Seq(Record) /\ ToSet(Log[b].records) \subseteq Record
      BY DEF LogStates, EventsOf
    <2> QED
      BY ToSetType
  <1>3. Types
    BY <1>1, <1>2 DEF Types, NoRow
  <1>4. RowsComeFromTheLog /\ WritesWhatWasAsked
    BY DEF RowsComeFromTheLog, WritesWhatWasAsked, HasRow, NoRow
  <1>5. ASSUME NEW r \in Runs PROVE Good(r)
    <2>1. run[r] = Idle /\ Mine(r) = {}
      BY DEF Mine, NoRow
    <2>2. /\ run[r].stage = "idle" /\ run[r].exit = -1 /\ run[r].seen = {} /\ run[r].age = 0
      BY <2>1 DEF Idle
    <2> QED
      BY <2>1, <2>2 DEF Good, Shape, Sourced, Covered, Counted, Rebuilt, Running
  <1> QED
    BY <1>3, <1>4, <1>5 DEF IInv

\* A run is not disturbed by what others add.
LEMMA OtherRunKeeps ==
    ASSUME IInv, Types', objects \subseteq objects', losses' = losses,
           \A b \in DOMAIN Log : said[b] \subseteq said'[b],
           \A e \in Events : HasRow(e) => HasRow(e)',
           NEW q \in Runs, run'[q] = run[q], Mine(q)' = Mine(q)
    PROVE  Good(q)'
  <1> USE LogAssumption DEF IInv, Good
  <1>1. Shape(q)'
    BY DEF Shape, Running, Under
  <1>2. Sourced(q)'
    BY DEF Sourced, Running, IsUnder, Under, Types
  <1>3. ASSUME NEW b \in run[q].seen, NEW rec \in ToSet(Log[b].records)
        PROVE  rec.event \in Events
    <2>1. b \in DOMAIN Log
      BY DEF Types, RunStates
    <2>2. rec \in Record
      BY <2>1, ToSetType
    <2> QED
      BY <2>2 DEF Record
  <1>4. Covered(q)'
    BY <1>3 DEF Covered, Running, Ahead, Holds
  <1>5. Counted(q)'
    BY DEF Counted, Running
  <1>6. Rebuilt(q)'
    BY <1>3 DEF Rebuilt
  <1> QED
    BY <1>1, <1>2, <1>4, <1>5, <1>6

\* A step of one run that leaves the rows alone.
LEMMA LocalStep ==
    ASSUME IInv, NEW r \in Runs, UNCHANGED <<objects, says, said, rows, losses>>,
           NEW next \in RunStates, run' = [run EXCEPT ![r] = next],
           run[r].stage # "idle" => next.args = run[r].args,
           Good(r)'
    PROVE  IInv'
  <1> USE DEF IInv
  <1>1. Types'
    BY DEF Types, LogStates
  <1>2. RowsComeFromTheLog'
    BY DEF RowsComeFromTheLog, HasRow
  <1>3. ASSUME NEW q \in Runs, run[q].stage # "idle" PROVE run'[q].args = run[q].args
    BY <1>3 DEF Types
  <1>4. ASSUME NEW e \in Events, rows[e].by \in Runs PROVE run[rows[e].by].stage # "idle"
    BY <1>4 DEF Good, Shape, Mine
  <1>5. WritesWhatWasAsked'
    BY <1>3, <1>4 DEF WritesWhatWasAsked, Under
  <1>6. ASSUME NEW q \in Runs, q # r PROVE Good(q)'
    <2>1. run'[q] = run[q] /\ Mine(q)' = Mine(q)
      BY <1>6 DEF Types, Mine
    <2>2. \A e \in Events : HasRow(e) => HasRow(e)'
      BY DEF HasRow
    <2> QED
      BY <1>1, <2>1, <2>2, OtherRunKeeps
  <1> QED
    BY <1>1, <1>2, <1>5, <1>6

\* A run that ends leaves what it inserted; it may say 0 only when all is there.
LEMMA ExitStep ==
    ASSUME IInv, NEW r \in Runs, Running(r), UNCHANGED <<objects, says, said, rows, losses>>,
           NEW code \in 0 .. 2, Exits(r, code),
           code = 0 /\ run[r].args.mode # "dry" /\ run[r].age = losses =>
               \A b \in run[r].seen : \A rec \in ToSet(Log[b].records) :
                   rec.kind = "ok" /\ Matches(run[r].args, rec) => HasRow(rec.event)
    PROVE  IInv'
  <1> DEFINE next == [Idle EXCEPT !.stage = "exited", !.args = run[r].args,
                                  !.exit = code,
                                  !.counts = [NoCounts EXCEPT !.inserted = run[r].counts.inserted],
                                  !.seen = run[r].seen, !.age = run[r].age]
  <1>1. run' = [run EXCEPT ![r] = next] /\ run[r] \in RunStates /\ Good(r)
    BY DEF Exits, IInv, Types
  <1>2. /\ next.stage = "exited" /\ next.args = run[r].args /\ next.exit = code
        /\ next.counts.inserted = run[r].counts.inserted
        /\ next.seen = run[r].seen /\ next.age = run[r].age
    BY DEF Idle, NoCounts
  <1>3. next \in RunStates
    <2>1. [NoCounts EXCEPT !.inserted = run[r].counts.inserted]
             \in [parsed : Int, inserted : Int, skipped : Int]
      BY <1>1 DEF NoCounts, RunStates
    <2> DEFINE ended == [Idle EXCEPT !.stage = "exited", !.args = run[r].args, !.exit = code]
               counted == [ended EXCEPT !.counts = [NoCounts EXCEPT !.inserted = run[r].counts.inserted]]
    <2>2. ended \in RunStates
      <3>1. run[r].args \in Requests \cup {<<>>} /\ code \in -1 .. 2
        BY <1>1 DEF RunStates
      <3>2. [Idle EXCEPT !.stage = "exited"] \in RunStates
        BY IdleType DEF RunStates
      <3>3. [[Idle EXCEPT !.stage = "exited"] EXCEPT !.args = run[r].args] \in RunStates
        BY <3>1, <3>2 DEF RunStates
      <3> QED
        BY <3>1, <3>3 DEF RunStates
    <2>3. counted \in RunStates
      <3> HIDE DEF ended
      <3> QED
        BY <2>1, <2>2 DEF RunStates
    <2>4. next = [counted EXCEPT !.seen = run[r].seen, !.age = run[r].age]
      OBVIOUS
    <2> HIDE DEF next, counted
    <2> QED
      BY <1>1, <2>3, <2>4 DEF RunStates
  <1> HIDE DEF next
  <1>4. run'[r] = next
    BY <1>1 DEF IInv, Types
  <1>5. Good(r)'
    <2>1. Mine(r)' = Mine(r)
      BY DEF Mine
    <2>2. Shape(r)'
      BY <1>1, <1>2, <1>4 DEF Good, Shape, Running
    <2>3. Sourced(r)' /\ Covered(r)'
      BY <1>2, <1>4 DEF Sourced, Covered, Running
    <2>4. Counted(r)'
      BY <1>1, <1>2, <1>4, <2>1 DEF Good, Counted, Running
    <2>5. Rebuilt(r)'
      BY <1>2, <1>4 DEF Rebuilt, HasRow
    <2> QED
      BY <2>2, <2>3, <2>4, <2>5 DEF Good
  <1> QED
    BY <1>1, <1>2, <1>3, <1>5, LocalStep

-----------------------------------------------------------------------------
\* The live flush.
LEMMA PutStep ==
    ASSUME IInv, NEW b \in DOMAIN Log, Put(b)
    PROVE  IInv'
  <1> USE DEF IInv, Put
  <1>1. Types'
    BY DEF Types, LogStates
  <1>2. RowsComeFromTheLog' /\ WritesWhatWasAsked'
    BY DEF RowsComeFromTheLog, WritesWhatWasAsked, HasRow, Under
  <1>3. ASSUME NEW q \in Runs PROVE Good(q)'
    BY <1>1, OtherRunKeeps DEF Mine, HasRow
  <1> QED
    BY <1>1, <1>2, <1>3

\* A later try of the flush writes other destinations over the object: no event comes or
\* goes, and what the object said before has been said.
LEMMA PutAgainStep ==
    ASSUME IInv, NEW b \in DOMAIN Log, PutAgain(b)
    PROVE  IInv'
  <1> USE DEF IInv
  <1>1. PICK hostOf \in [EventsOf(b) -> Hosts] :
          says' = [says EXCEPT ![b] = Resolved(Log[b].records, hostOf)]
    BY DEF PutAgain
  <1>2. /\ said' = [said EXCEPT ![b] = @ \cup ToSet(says'[b])]
        /\ UNCHANGED <<objects, rows, losses, run>>
    BY DEF PutAgain
  <1> DEFINE records == Log[b].records
             again == Resolved(records, hostOf)
  <1>3. records \in Seq(Record) /\ Hosts \subseteq STRING
    BY LogAssumption
  <1>4. ASSUME NEW i \in DOMAIN records
        PROVE  /\ again[i] \in Record
               /\ again[i].event = records[i].event /\ again[i].kind = records[i].kind
               /\ records[i].event \in EventsOf(b)
    <2>1. records[i] \in Record /\ records[i] \in ToSet(records)
      BY <1>3 DEF ToSet
    <2>2. records[i].event \in EventsOf(b)
      BY <2>1 DEF EventsOf
    <2>3. hostOf[records[i].event] \in STRING
      BY <1>3, <2>2
    <2>4. again[i] = [records[i] EXCEPT !.host = hostOf[records[i].event]]
      BY DEF Resolved
    <2> QED
      BY <2>1, <2>2, <2>3, <2>4 DEF Record
  <1>5. again \in Seq(Record) /\ DOMAIN again = DOMAIN records
    <2>1. Len(records) \in Nat /\ DOMAIN records = 1 .. Len(records)
      BY <1>3
    <2>2. again = [i \in 1 .. Len(records) |-> again[i]]
      BY <2>1 DEF Resolved
    <2> HIDE DEF again
    <2>3. again \in [1 .. Len(records) -> Record]
      BY <1>4, <2>1, <2>2
    <2> QED
      BY <2>1, <2>3
  <1>6. /\ ToSet(again) \subseteq Record
        /\ \A rec \in ToSet(records) : \E x \in ToSet(again) :
              x.event = rec.event /\ x.kind = rec.kind
        /\ \A x \in ToSet(again) : x.event \in EventsOf(b)
    <2> HIDE DEF again
    <2> QED
      BY <1>4, <1>5 DEF ToSet
  <1> HIDE DEF again
  <1>7. /\ says'[b] = again /\ said'[b] = said[b] \cup ToSet(again)
        /\ \A c \in DOMAIN Log \ {b} : says'[c] = says[c] /\ said'[c] = said[c]
    BY <1>1, <1>2 DEF Types, LogStates, again
  <1>8. LogStates'
    <2>0. /\ says' \in [DOMAIN Log -> Seq(Record)] /\ said' \in [DOMAIN Log -> SUBSET Record]
      BY <1>1, <1>2, <1>5, <1>6, <1>7 DEF Types, LogStates
    <2> SUFFICES ASSUME NEW c \in DOMAIN Log
                 PROVE  /\ DOMAIN says'[c] = DOMAIN Log[c].records
                        /\ ToSet(says'[c]) \subseteq said'[c]
                        /\ \A rec \in ToSet(Log[c].records) : \E x \in ToSet(says'[c]) :
                              x.event = rec.event /\ x.kind = rec.kind
                        /\ \A x \in said'[c] : x.event \in EventsOf(c)
      BY <2>0 DEF LogStates
    <2>1. CASE c # b
      BY <1>7, <2>1 DEF Types, LogStates
    <2>2. CASE c = b
      BY <1>5, <1>6, <1>7, <2>2 DEF Types, LogStates
    <2> QED
      BY <2>1, <2>2
  <1>9. Types'
    BY <1>1, <1>2, <1>8 DEF Types
  <1>10. \A c \in DOMAIN Log : said[c] \subseteq said'[c]
    BY <1>7
  <1>11. RowsComeFromTheLog' /\ WritesWhatWasAsked'
    BY <1>2, <1>10 DEF RowsComeFromTheLog, WritesWhatWasAsked, HasRow, Under, Types
  <1>12. ASSUME NEW q \in Runs PROVE Good(q)'
    BY <1>2, <1>9, <1>10, OtherRunKeeps DEF Mine, HasRow
  <1> QED
    BY <1>9, <1>11, <1>12

\* The live flush inserts a batch: its rows come from an object of the log.
LEMMA InsertStep ==
    ASSUME IInv, NEW b \in DOMAIN Log, Insert(b)
    PROVE  IInv'
  <1> USE DEF IInv, Insert
  <1> DEFINE batch == says[b]
             new == {rec.event : rec \in ToSet(batch)} \ {e \in Events : HasRow(e)}
  <1>0. batch \in Seq(Record) /\ ToSet(batch) \subseteq said[b]
    BY DEF Types, LogStates
  <1>1. /\ rows' \in [Events -> RowStates] /\ new \subseteq Events
        /\ \A e \in Events \ new : rows'[e] = rows[e]
        /\ \A e \in new : /\ rows[e] = NoRow /\ rows'[e].by = "flush"
                          /\ \E rec \in ToSet(batch) :
                                rec.event = e /\ rec.host = rows'[e].host
    BY <1>0, InsertAdds
  <1>2. "flush" \notin Runs /\ "nobody" \notin Runs
    BY ReplayAssumption
  <1> HIDE DEF new
  <1>3. Types'
    BY <1>1 DEF Types, LogStates
  <1>4. RowsComeFromTheLog'
    BY <1>0, <1>1 DEF RowsComeFromTheLog, HasRow
  <1>5. WritesWhatWasAsked'
    BY <1>1, <1>2 DEF WritesWhatWasAsked, Under
  <1>6. ASSUME NEW q \in Runs PROVE Good(q)'
    <2>1. Mine(q)' = Mine(q)
      BY <1>1, <1>2 DEF Mine, NoRow
    <2>2. ASSUME NEW e \in Events, HasRow(e) PROVE HasRow(e)'
      BY <1>1, <2>2 DEF HasRow
    <2> QED
      BY <1>3, <2>1, <2>2, OtherRunKeeps
  <1> QED
    BY <1>3, <1>4, <1>5, <1>6

\* Rows that Postgres loses leave the log, and what a run counted, as they were.
LEMMA LoseStep == ASSUME IInv, Lose PROVE IInv'
  <1> USE ReplayAssumption DEF IInv, Lose
  <1>1. Types'
    <2>1. NoRow \in RowStates
      BY DEF NoRow, RowStates
    <2>2. rows' \in [Events -> RowStates]
      BY <2>1
    <2>3. losses' \in 0 .. MaxLosses
      BY DEF Types
    <2> QED
      BY <2>2, <2>3 DEF Types, LogStates
  <1>2. RowsComeFromTheLog' /\ WritesWhatWasAsked'
    BY DEF RowsComeFromTheLog, WritesWhatWasAsked, HasRow, NoRow
  <1>3. ASSUME NEW q \in Runs PROVE Good(q)'
    <2>1. run'[q] = run[q] /\ Mine(q)' = {} /\ run[q].age < losses' /\ run[q].age <= losses
      <3>1. run[q].age \in Nat /\ run[q].age <= losses
        BY DEF Good, Shape, Types, RunStates
      <3>2. Mine(q)' = {}
        BY DEF Mine, NoRow
      <3> QED
        BY <3>1, <3>2 DEF Types
    <2>2. Shape(q)'
      BY <2>1 DEF Good, Shape, Running, Under, Types, RunStates
    <2>3. Sourced(q)'
      BY DEF Good, Sourced, Running, IsUnder, Under
    <2>4. run'[q].age # losses'
      <3>1. run[q].age \in Nat /\ losses' \in Nat
        BY DEF Types, RunStates
      <3> QED
        BY <2>1, <3>1
    <2>5. Covered(q)' /\ Rebuilt(q)'
      BY <2>4 DEF Covered, Rebuilt
    <2>6. Counted(q)'
      BY <2>1, <2>4 DEF Good, Counted, Running
    <2> QED
      BY <2>2, <2>3, <2>5, <2>6 DEF Good
  <1> QED
    BY <1>1, <1>2, <1>3

-----------------------------------------------------------------------------
\* A run begins, or is refused.
LEMMA StartStep == ASSUME IInv, NEW r \in Runs, Start(r) PROVE IInv'
  <1> USE DEF IInv
  <1>1. run[r] = Idle /\ Mine(r) = {} /\ run[r].stage = "idle" /\ Idle \in RunStates
    BY IdleType DEF Start, Good, Shape
  <1>2. PICK args \in Requests :
          run' = [run EXCEPT ![r] =
                    IF Refusal(args) # 0
                    THEN [@ EXCEPT !.stage = "exited", !.args = args, !.exit = Refusal(args)]
                    ELSE [@ EXCEPT !.stage = "running", !.args = args, !.day = args.from,
                                   !.truncated = TRUE,
                                   !.seen = Under(EventPrefixes(args)), !.age = losses]]
    BY DEF Start
  <1>3. UNCHANGED <<objects, says, said, rows, losses>> /\ losses \in Nat /\ Mine(r)' = {}
    BY <1>1, ReplayAssumption DEF Start, Types, Mine
  <1>4. args.from \in Nat /\ args.to \in Nat /\ args.batch \in Int
    BY RequestsAssumption
  <1>5. Refusal(args) \in {0, 1, 2}
    BY DEF Refusal
  <1>6. CASE Refusal(args) # 0
    <2> DEFINE given == [Idle EXCEPT !.stage = "exited", !.args = args]
               next == [given EXCEPT !.exit = Refusal(args)]
    <2>1. run' = [run EXCEPT ![r] = next]
      BY <1>1, <1>2, <1>6
    <2>2. next \in RunStates
      <3>1. given \in RunStates
        BY <1>1 DEF RunStates
      <3>2. Refusal(args) \in -1 .. 2
        BY <1>5
      <3> HIDE DEF given
      <3> QED
        BY <3>1, <3>2 DEF RunStates
    <2>3. /\ next.stage = "exited" /\ next.args = args /\ next.exit \in {1, 2}
          /\ next.seen = {} /\ next.age = 0 /\ next.counts = NoCounts
      BY <1>5, <1>6 DEF Idle
    <2> HIDE DEF next
    <2>4. run'[r] = next
      BY <2>1 DEF Types
    <2>5. Good(r)'
      <3>1. Shape(r)'
        BY <1>3, <2>3, <2>4 DEF Shape, Running
      <3>2. Sourced(r)' /\ Covered(r)' /\ Rebuilt(r)'
        BY <2>3, <2>4 DEF Sourced, Covered, Rebuilt, Running
      <3>3. Counted(r)'
        BY <1>3, <2>3, <2>4, FS_EmptySet DEF Counted, Running, NoCounts
      <3> QED
        BY <3>1, <3>2, <3>3 DEF Good
    <2> QED
      BY <1>1, <1>3, <2>1, <2>2, <2>5, LocalStep
  <1>7. CASE Refusal(args) = 0
    <2> DEFINE first == [Idle EXCEPT !.stage = "running", !.args = args, !.day = args.from]
               next == [first EXCEPT !.truncated = TRUE, !.seen = Under(EventPrefixes(args)),
                                     !.age = losses]
    <2>1. run' = [run EXCEPT ![r] = next]
      BY <1>1, <1>2, <1>7
    <2>2. next \in RunStates
      <3>1. first \in RunStates
        BY <1>1, <1>4 DEF RunStates
      <3>2. Under(EventPrefixes(args)) \in SUBSET DOMAIN Log
        BY DEF Under, Types
      <3> HIDE DEF first
      <3> QED
        BY <1>3, <3>1, <3>2 DEF RunStates
    <2>3. /\ next.stage = "running" /\ next.args = args /\ next.exit = -1
          /\ next.day = args.from /\ next.token = 0 /\ next.truncated
          /\ next.page = {} /\ next.lines = <<>> /\ next.buffer = <<>>
          /\ next.seen = Under(EventPrefixes(args)) /\ next.age = losses
          /\ next.counts = NoCounts
      BY DEF Idle
    <2> HIDE DEF next
    <2>4. run'[r] = next
      BY <2>1 DEF Types
    <2>5. args.from <= args.to /\ args.batch >= 1
      BY <1>4, <1>7, ReplayAssumption DEF Refusal, ArgumentsError
    <2>6. Good(r)'
      <3>1. Shape(r)'
        <4>1. args.from \in EventPrefixes(args)
          BY <1>4, <2>5 DEF EventPrefixes
        <4>2. Under(EventPrefixes(args))' = Under(EventPrefixes(args))
          BY <1>3 DEF Under
        <4>3. Under(EventPrefixes(args)) \subseteq objects
          BY DEF Under
        <4>4. run'[r].seen \subseteq objects' /\ run'[r].age <= losses'
          BY <1>3, <2>3, <2>4, <4>3
        <4>5. /\ run'[r].stage = "running" /\ run'[r].exit = -1 /\ run'[r].args = args
              /\ run'[r].day = args.from /\ Len(run'[r].buffer) = 0 /\ run'[r].page = {}
              /\ run'[r].seen = Under(EventPrefixes(run[r].args))'
          BY <2>3, <2>4, <4>2
        <4> QED
          BY <1>4, <2>5, <4>1, <4>4, <4>5 DEF Shape, Running
      <3>2. Sourced(r)'
        BY <2>3, <2>4 DEF Sourced, ToSet
      <3>3. ASSUME NEW b \in next.seen PROVE Ahead(r, b)'
        <4>1. b \in DOMAIN Log /\ Log[b].day \in EventPrefixes(args)
          BY <2>3 DEF Under, Types
        <4>2. b \in Nat \ {0} /\ Log[b].day \in Nat /\ Log[b].day >= args.from
          BY <1>4, <4>1, LogAssumption DEF EventPrefixes
        <4> QED
          BY <1>4, <2>3, <2>4, <4>2 DEF Ahead
      <3>4. Covered(r)'
        BY <2>4, <3>3 DEF Covered
      <3>5. Counted(r)'
        BY <1>3, <2>3, <2>4, FS_EmptySet DEF Counted, Running, NoCounts
      <3>6. Rebuilt(r)'
        BY <2>3, <2>4 DEF Rebuilt
      <3> QED
        BY <3>1, <3>2, <3>4, <3>5, <3>6 DEF Good
    <2> QED
      BY <1>1, <1>3, <2>1, <2>2, <2>6, LocalStep
  <1> QED
    BY <1>6, <1>7

\* What holds of a run that is running.
LEMMA RunningFacts ==
    ASSUME IInv, NEW r \in Runs, Running(r)
    PROVE  /\ run[r] \in RunStates /\ Good(r) /\ run[r].stage # "idle"
           /\ run[r].exit = -1
           /\ run[r].args \in Requests /\ run[r].args.to \in Nat
           /\ run[r].args.from \in Nat /\ run[r].args.batch \in Int
           /\ run[r].day >= run[r].args.from /\ run[r].day <= run[r].args.to
  <1>1. run[r] \in RunStates /\ Good(r) /\ run[r].stage = "running"
    BY DEF IInv, Types, Running
  <1>2. run[r].exit = -1
    BY <1>1 DEF Good, Shape, RunStates
  <1>3. run[r].args \in Requests /\ run[r].day \in EventPrefixes(run[r].args)
    BY <1>1 DEF Good, Shape, Running
  <1> QED
    BY <1>1, <1>2, <1>3, RequestsAssumption DEF EventPrefixes

\* A LIST holds or leaves for the next one what it finds after the token.
LEMMA ListStep == ASSUME IInv, NEW r \in Runs, ListObjectKeys(r) PROVE IInv'
  <1> USE DEF IInv
  <1> DEFINE day == IF run[r].truncated THEN run[r].day ELSE run[r].day + 1
             token == IF run[r].truncated THEN run[r].token ELSE 0
             keys == {b \in Under({day}) : b > token}
             next == [run[r] EXCEPT !.day = day, !.token = token, !.page = FirstPage(keys),
                                    !.truncated = IsTruncated(keys)]
  <1>1. /\ run' = [run EXCEPT ![r] = next] /\ UNCHANGED <<objects, says, said, rows, losses>>
        /\ NeedsKeys(r) /\ ~AtEnd(r) /\ Running(r)
    BY DEF ListObjectKeys, ContinuationToken, NeedsKeys, Running
  <1>2. /\ run[r] \in RunStates /\ Good(r) /\ run[r].stage # "idle" /\ run[r].exit = -1
        /\ run[r].args \in Requests /\ run[r].args.to \in Nat
        /\ run[r].args.from \in Nat
        /\ run[r].day >= run[r].args.from /\ run[r].day <= run[r].args.to
    BY <1>1, RunningFacts
  <1>3. /\ day \in Nat /\ token \in Nat
        /\ keys \in SUBSET Nat /\ IsFiniteSet(keys) /\ keys \subseteq DOMAIN Log
    <2>1. day \in Nat /\ token \in Nat
      BY <1>2 DEF RunStates
    <2>2. keys \subseteq DOMAIN Log
      BY DEF Under, Types
    <2> QED
      BY <2>1, <2>2, LogAssumption, FS_Subset
  <1>4. day \in EventPrefixes(run[r].args)
    <2>1. run[r].day \in Nat /\ run[r].truncated \in BOOLEAN
      BY <1>2 DEF RunStates
    <2>2. ~run[r].truncated => run[r].day # run[r].args.to
      BY <1>1 DEF AtEnd
    <2> QED
      BY <1>2, <2>1, <2>2 DEF EventPrefixes
  <1>5. FirstPage(keys) \subseteq keys /\ keys \subseteq Under({day})
    BY DEF FirstPage
  <1>6. next \in RunStates
    <2>1. FirstPage(keys) \in SUBSET DOMAIN Log /\ IsTruncated(keys) \in BOOLEAN
      BY <1>3, <1>5 DEF IsTruncated
    <2> HIDE DEF day, token, keys
    <2> QED
      BY <1>2, <1>3, <2>1 DEF RunStates
  <1>7. /\ next.day = day /\ next.token = token /\ next.page = FirstPage(keys)
        /\ next.truncated = IsTruncated(keys)
        /\ next.stage = run[r].stage /\ next.args = run[r].args /\ next.exit = run[r].exit
        /\ next.lines = run[r].lines /\ next.buffer = run[r].buffer
        /\ next.counts = run[r].counts /\ next.seen = run[r].seen /\ next.age = run[r].age
    BY <1>2 DEF RunStates
  <1> HIDE DEF next
  <1>8. run'[r] = next
    BY <1>1 DEF Types
  <1>9. Good(r)'
    <2>1. Shape(r)'
      <3>1. \A b \in next.page : b \in objects /\ Log[b].day = next.day
        BY <1>5, <1>7 DEF Under
      <3> HIDE DEF day, token, keys
      <3> QED
        BY <1>1, <1>2, <1>4, <1>7, <1>8, <3>1 DEF Good, Shape, Running, Under, Mine
    <2>2. Sourced(r)'
      BY <1>1, <1>2, <1>7, <1>8 DEF Good, Sourced, Running, IsUnder, Under
    <2>3. ASSUME NEW b \in run[r].seen, Running(r), Ahead(r, b)
          PROVE  b \in next.page \/ Ahead(r, b)'
      <3>1. b \in objects /\ b \in DOMAIN Log /\ b \in Nat \ {0} /\ Log[b].day \in Nat
        BY <1>2, LogAssumption DEF Good, Shape, Types
      <3>2. run[r].day \in Nat /\ run[r].token \in Nat /\ run[r].truncated \in BOOLEAN
        BY <1>2 DEF RunStates
      <3>3. Log[b].day > day \/ b \in keys
        BY <2>3, <3>1, <3>2 DEF Ahead, Under
      <3>4. CASE Log[b].day > day
        BY <1>7, <1>8, <3>4 DEF Ahead
      <3>5. CASE b \in keys
        <4>1. b \in FirstPage(keys) \/ (IsTruncated(keys) /\ \A c \in FirstPage(keys) : c < b)
          BY <1>3, <3>5, PageType
        <4>2. Log[b].day = day /\ b > token
          BY <3>5 DEF Under
        <4> HIDE DEF day, token, keys
        <4> QED
          BY <1>7, <1>8, <4>1, <4>2 DEF Ahead
      <3> QED
        BY <3>3, <3>4, <3>5
    <2>4. Covered(r)'
      <3>1. run[r].page = {}
        BY <1>1 DEF NeedsKeys
      <3> HIDE DEF day, token, keys
      <3> QED
        BY <1>1, <1>2, <1>7, <1>8, <2>3, <3>1 DEF Good, Covered, Running, HasRow, Holds
    <2>5. Counted(r)' /\ Rebuilt(r)'
      BY <1>1, <1>2, <1>7, <1>8 DEF Good, Counted, Rebuilt, Running, Mine
    <2> QED
      BY <2>1, <2>2, <2>4, <2>5 DEF Good
  <1> QED
    BY <1>1, <1>6, <1>7, <1>9, LocalStep

\* An object of the page is read whole.
LEMMA GetStep == ASSUME IInv, NEW r \in Runs, GetObject(r) PROVE IInv'
  <1> USE DEF IInv
  <1>1. PICK b \in run[r].page :
          /\ \A c \in run[r].page : b <= c
          /\ run' = [run EXCEPT ![r].page = @ \ {b}, ![r].token = b,
                                ![r].lines = says[b]]
    BY DEF GetObject
  <1> DEFINE next == [run[r] EXCEPT !.page = run[r].page \ {b}, !.token = b,
                                    !.lines = says[b]]
  <1>2. /\ run' = [run EXCEPT ![r] = next] /\ UNCHANGED <<objects, says, said, rows, losses>>
        /\ Running(r) /\ run[r].lines = <<>>
    <2>1. run' = [run EXCEPT ![r] = next]
      BY <1>1 DEF Types
    <2> HIDE DEF next
    <2> QED
      BY <2>1 DEF GetObject, Running
  <1>3. /\ run[r] \in RunStates /\ Good(r) /\ run[r].stage # "idle" /\ run[r].exit = -1
    BY <1>2, RunningFacts
  <1>4. /\ b \in DOMAIN Log /\ b \in Nat /\ b \in Under({run[r].day})
        /\ says[b] \in Seq(Record) /\ ToSet(says[b]) \subseteq said[b]
        /\ \A rec \in ToSet(Log[b].records) : \E x \in ToSet(says[b]) :
              x.event = rec.event /\ x.kind = rec.kind
    BY <1>2, <1>3, LogAssumption DEF RunStates, Good, Shape, Types, LogStates
  <1>5. next \in RunStates
    BY <1>3, <1>4 DEF RunStates
  <1>6. /\ next.token = b /\ next.page = run[r].page \ {b} /\ next.lines = says[b]
        /\ next.stage = run[r].stage /\ next.args = run[r].args /\ next.exit = run[r].exit
        /\ next.day = run[r].day /\ next.truncated = run[r].truncated
        /\ next.buffer = run[r].buffer
        /\ next.counts = run[r].counts /\ next.seen = run[r].seen /\ next.age = run[r].age
    BY <1>3 DEF RunStates
  <1> HIDE DEF next
  <1>7. run'[r] = next
    BY <1>2 DEF Types
  <1>8. Good(r)'
    <2>1. Shape(r)'
      BY <1>2, <1>3, <1>6, <1>7 DEF Good, Shape, Running, Under, Mine
    <2>2. b \in Under(EventPrefixes(run[r].args))
      BY <1>2, <1>3, <1>4 DEF Good, Shape, Under
    <2>3. Sourced(r)'
      BY <1>2, <1>3, <1>4, <1>6, <1>7, <2>2 DEF Good, Sourced, Running, IsUnder, Under
    <2>4. \A c \in run[r].seen : Ahead(r, c) => Ahead(r, c)'
      BY <1>1, <1>6, <1>7 DEF Ahead
    <2>5. ToSet(<<>>) = {}
      BY DEF ToSet
    <2>6. Covered(r)'
      BY <1>2, <1>3, <1>4, <1>6, <1>7, <2>4, <2>5 DEF Good, Covered, Running, HasRow, Holds
    <2>7. Counted(r)' /\ Rebuilt(r)'
      BY <1>2, <1>3, <1>6, <1>7 DEF Good, Counted, Rebuilt, Running, Mine
    <2> QED
      BY <2>1, <2>3, <2>6, <2>7 DEF Good
  <1> QED
    BY <1>2, <1>5, <1>6, <1>8, LocalStep

\* A line is buffered if it was asked for; a corrupt one ends the run.
LEMMA ReadStep == ASSUME IInv, NEW r \in Runs, ReadRecord(r) PROVE IInv'
  <1> USE DEF IInv
  <1> DEFINE args == run[r].args
             rec == Head(run[r].lines)
             rejected == args.mode = "report" /\ rec.kind = "invalid"
             skips == args.mode = "dry" \/ rejected \/ ~Matches(args, rec)
             buffered == IF skips THEN run[r].buffer ELSE Append(run[r].buffer, rec)
             parsed == IF rejected THEN run[r].counts.parsed ELSE run[r].counts.parsed + 1
             counts == [run[r].counts EXCEPT !.parsed = parsed]
             next == [run[r] EXCEPT !.lines = Tail(run[r].lines), !.buffer = buffered,
                                    !.counts = counts]
  <1>1. Running(r) /\ ~Full(r) /\ run[r].lines # <<>> /\ UNCHANGED <<objects, says, said, rows, losses>>
    BY DEF ReadRecord, Running
  <1>2. /\ run[r] \in RunStates /\ Good(r) /\ run[r].stage # "idle" /\ run[r].exit = -1
        /\ args \in Requests /\ args.batch \in Int
    BY <1>1, RunningFacts
  <1>3. CASE rec.kind = "corrupt"
    BY <1>1, <1>3, ExitStep DEF ReadRecord
  <1>4. CASE rec.kind # "corrupt"
    <2>1. run' = [run EXCEPT ![r] = next]
      BY <1>1, <1>2, <1>4 DEF ReadRecord, ToNewEventRow, Types, RunStates
    <2>2. /\ ToSet(run[r].lines) = ToSet(Tail(run[r].lines)) \cup {rec}
          /\ rec \in Record /\ Tail(run[r].lines) \in Seq(Record)
          /\ run[r].buffer \in Seq(Record)
      BY <1>1, <1>2, ToSetTail DEF RunStates
    <2>3. /\ ToSet(buffered) = ToSet(run[r].buffer) \cup (IF skips THEN {} ELSE {rec})
          /\ buffered \in Seq(Record)
          /\ Len(buffered) = IF skips THEN Len(run[r].buffer) ELSE Len(run[r].buffer) + 1
      <3>1. ToSet(Append(run[r].buffer, rec)) = ToSet(run[r].buffer) \cup {rec}
        BY <2>2, ToSetAppend
      <3> HIDE DEF skips, rec
      <3> QED
        BY <2>2, <3>1
    <2>4. /\ parsed \in Int /\ counts \in [parsed : Int, inserted : Int, skipped : Int]
          /\ counts.parsed = parsed /\ counts.inserted = run[r].counts.inserted
          /\ counts.skipped = run[r].counts.skipped
      BY <1>2 DEF RunStates
    <2>5. next \in RunStates
      <3> HIDE DEF buffered, counts
      <3> QED
        BY <1>2, <2>2, <2>3, <2>4 DEF RunStates
    <2>6. /\ next.lines = Tail(run[r].lines) /\ next.buffer = buffered /\ next.counts = counts
          /\ next.stage = run[r].stage /\ next.args = args /\ next.exit = run[r].exit
          /\ next.day = run[r].day /\ next.truncated = run[r].truncated
          /\ next.token = run[r].token /\ next.page = run[r].page
          /\ next.seen = run[r].seen /\ next.age = run[r].age
      BY <1>2 DEF RunStates
    <2> HIDE DEF next, buffered, counts
    <2>7. run'[r] = next
      BY <2>1 DEF Types
    <2>8. Good(r)'
      <3>1. Shape(r)'
        <4>1. Len(buffered) <= args.batch
          BY <1>1, <1>2, <2>2, <2>3 DEF Full, Good, Shape
        <4> QED
          BY <1>1, <1>2, <2>6, <2>7, <4>1 DEF Good, Shape, Running, Under, Mine
      <3>2. Sourced(r)'
        <4>1. IsUnder(args, rec)
          BY <1>1, <1>2, <2>2 DEF Good, Sourced
        <4>2. \A x : IsUnder(args, x) => IsUnder(run[r].args, x)'
          BY <1>1, <2>6, <2>7 DEF IsUnder, Under
        <4>3. \A x \in ToSet(next.lines) : IsUnder(args, x)
          BY <1>1, <1>2, <2>2, <2>6 DEF Good, Sourced
        <4>4. \A x \in ToSet(next.buffer) : IsUnder(args, x) /\ Matches(args, x)
          BY <1>1, <1>2, <2>3, <2>6, <4>1 DEF Good, Sourced
        <4>5. args.mode = "dry" => next.buffer = <<>>
          BY <1>1, <1>2, <2>6 DEF Good, Sourced, buffered
        <4> QED
          BY <2>6, <2>7, <4>2, <4>3, <4>4, <4>5 DEF Sourced
      <3>3. \A b : Ahead(r, b) => Ahead(r, b)'
        BY <2>6, <2>7 DEF Ahead
      <3>4. ASSUME NEW x, x.kind = "ok", Matches(args, x), args.mode # "dry", Holds(r, x)
            PROVE  Holds(r, x)'
        <4>1. PICK y \in ToSet(run[r].buffer) \cup ToSet(run[r].lines) :
                y.event = x.event /\ y.kind = x.kind
          BY <3>4 DEF Holds
        <4>2. Matches(args, y) /\ y.kind = "ok"
          BY <3>4, <4>1 DEF Matches
        <4>3. y \in ToSet(next.buffer) \cup ToSet(next.lines)
          BY <2>2, <2>3, <2>6, <3>4, <4>1, <4>2
        <4> QED
          BY <2>7, <4>1, <4>3 DEF Holds
      <3>5. Covered(r)'
        <4> SUFFICES ASSUME Running(r), args.mode # "dry", run[r].age = losses,
                            NEW b \in run[r].seen, NEW x \in ToSet(Log[b].records),
                            x.kind = "ok", Matches(args, x)
                     PROVE  \/ HasRow(x.event) \/ Holds(r, x)'
                            \/ b \in run[r].page \/ Ahead(r, b)'
          BY <1>1, <2>6, <2>7 DEF Covered, Running, HasRow
        <4>1. \/ HasRow(x.event) \/ Holds(r, x)
              \/ b \in run[r].page \/ Ahead(r, b)
          BY <1>2 DEF Good, Covered
        <4> QED
          BY <3>3, <3>4, <4>1
      <3>6. Counted(r)'
        <4>1. args.mode = "report" => args.tenant = AnyTenant
          BY <1>2, RequestsAssumption
        <4>2. args.mode = "report" => (skips <=> rejected)
          BY <4>1 DEF Matches
        <4>3. Mine(r)' = Mine(r)
          BY <1>1 DEF Mine
        <4>4. args.mode = "report" =>
                counts.parsed = counts.inserted + counts.skipped + Len(buffered)
          <5>1. args.mode = "report" =>
                  run[r].counts.parsed = run[r].counts.inserted + run[r].counts.skipped
                                           + Len(run[r].buffer)
            BY <1>1, <1>2 DEF Good, Counted
          <5>2. /\ run[r].counts.parsed \in Int /\ run[r].counts.inserted \in Int
                /\ run[r].counts.skipped \in Int /\ Len(run[r].buffer) \in Nat
            BY <1>2, <2>2 DEF RunStates
          <5>3. SUFFICES ASSUME args.mode = "report"
                         PROVE  counts.parsed = counts.inserted + counts.skipped + Len(buffered)
            OBVIOUS
          <5>4. CASE rejected
            <6>1. skips /\ parsed = run[r].counts.parsed
              BY <4>2, <5>3, <5>4
            <6>2. Len(buffered) = Len(run[r].buffer)
              BY <2>3, <6>1
            <6> HIDE DEF parsed
            <6> QED
              BY <2>4, <5>1, <5>2, <5>3, <6>1, <6>2
          <5>5. CASE ~rejected
            <6>1. ~skips /\ parsed = run[r].counts.parsed + 1
              BY <4>2, <5>3, <5>5
            <6>2. Len(buffered) = Len(run[r].buffer) + 1
              BY <2>3, <6>1
            <6>3. run[r].counts.parsed = run[r].counts.inserted + run[r].counts.skipped
                                           + Len(run[r].buffer)
              BY <5>1, <5>3
            <6>4. run[r].counts.parsed + 1 = run[r].counts.inserted + run[r].counts.skipped
                                               + (Len(run[r].buffer) + 1)
              <7> DEFINE p == run[r].counts.parsed  i == run[r].counts.inserted
                         s == run[r].counts.skipped  n == Len(run[r].buffer)
              <7>1. p \in Int /\ i \in Int /\ s \in Int /\ n \in Int /\ p = i + s + n
                BY <5>2, <6>3
              <7> HIDE DEF p, i, s, n
              <7>2. p + 1 = i + s + (n + 1)
                BY <7>1
              <7> QED
                BY <7>2 DEF p, i, s, n
            <6> HIDE DEF parsed, rejected, skips, rec, args
            <6> QED
              BY <2>4, <6>1, <6>2, <6>4
          <5> QED
            BY <5>4, <5>5
        <4> QED
          BY <1>1, <1>2, <2>4, <2>6, <2>7, <4>3, <4>4 DEF Good, Counted, Running
      <3>7. Rebuilt(r)'
        BY <1>2, <2>6, <2>7 DEF Rebuilt
      <3> QED
        BY <3>1, <3>2, <3>5, <3>6, <3>7 DEF Good
    <2> QED
      BY <1>1, <2>1, <2>5, <2>6, <2>8, LocalStep
  <1> QED
    BY <1>3, <1>4

\* What is buffered gets its rows, and the run counts those that are its own.
LEMMA FlushStep == ASSUME IInv, NEW r \in Runs, FlushBuffer(r) PROVE IInv'
  <1> USE DEF IInv
  <1> DEFINE batch == run[r].buffer
             args == run[r].args
             new == {rec.event : rec \in ToSet(batch)} \ {e \in Events : HasRow(e)}
             inserted == Cardinality(new)
             counts == [parsed |-> run[r].counts.parsed,
                        inserted |-> run[r].counts.inserted + inserted,
                        skipped |-> run[r].counts.skipped + Len(batch) - inserted]
             next == [run[r] EXCEPT !.buffer = <<>>, !.counts = counts]
  <1>1. Running(r) /\ batch # <<>> /\ UNCHANGED <<objects, says, said, losses>>
    BY DEF FlushBuffer, Flushes, Running
  <1>2. /\ run[r] \in RunStates /\ Good(r) /\ run[r].stage # "idle" /\ run[r].exit = -1
        /\ args \in Requests /\ args.batch \in Int
    BY <1>1, RunningFacts
  <1>3. CASE \E rec \in ToSet(batch) : rec.kind = "invalid"
    BY <1>1, <1>3, ExitStep DEF FlushBuffer
  <1>4. CASE ~ \E rec \in ToSet(batch) : rec.kind = "invalid"
    <2>1. /\ rows' = InsertEventsBatch(rows, batch, r)
          /\ run' = [run EXCEPT ![r] = next]
      BY <1>4 DEF FlushBuffer, InsertedEventIds, Types
    <2>2. /\ batch \in Seq(Record) /\ Len(batch) \in Nat /\ ToSet(batch) \subseteq Record
      BY <1>2, ToSetType DEF RunStates
    <2>3. /\ rows' \in [Events -> RowStates] /\ new \subseteq Events
          /\ \A e \in Events \ new : rows'[e] = rows[e]
          /\ \A e \in new : /\ rows[e] = NoRow /\ rows'[e].by = r
                            /\ \E rec \in ToSet(batch) :
                                  rec.event = e /\ rec.host = rows'[e].host
      BY <2>1, <2>2, InsertAdds
    <2>4. r # "nobody" /\ "nobody" \notin Runs /\ IsFiniteSet(Events)
      BY ReplayAssumption
    <2>5. \A rec \in ToSet(batch) : rec.event \in Events /\ (rec.event \in new \/ HasRow(rec.event))
      BY <2>2 DEF Record
    <2>6. inserted \in Nat
      BY <2>3, <2>4, FS_Subset, FS_CardinalityType
    <2>7. Mine(r)' = Mine(r) \cup new /\ Mine(r) \cap new = {}
      <3> HIDE DEF new
      <3> QED
        BY <2>3, <2>4 DEF Mine, NoRow
    <2>8. Cardinality(Mine(r)') = Cardinality(Mine(r)) + inserted
      <3>1. Mine(r) \subseteq Events
        BY DEF Mine
      <3>2. IsFiniteSet(Mine(r)) /\ IsFiniteSet(new)
        BY <2>3, <2>4, <3>1, FS_Subset
      <3>3. Cardinality(Mine(r)) \in Nat
        BY <3>2, FS_CardinalityType
      <3> HIDE DEF new
      <3>4. Cardinality(Mine(r) \cup new)
              = Cardinality(Mine(r)) + Cardinality(new) - Cardinality(Mine(r) \cap new)
        BY <3>2, FS_Union
      <3>5. Cardinality(Mine(r) \cap new) = 0
        BY <2>7, FS_EmptySet
      <3> QED
        BY <2>6, <2>7, <3>3, <3>4, <3>5
    <2> HIDE DEF new, inserted
    <2>9. /\ counts \in [parsed : Int, inserted : Int, skipped : Int]
          /\ counts.parsed = run[r].counts.parsed
          /\ counts.inserted = run[r].counts.inserted + inserted
          /\ counts.skipped = run[r].counts.skipped + Len(batch) - inserted
      <3>1. /\ run[r].counts.parsed \in Int /\ run[r].counts.inserted \in Int
            /\ run[r].counts.skipped \in Int
        BY <1>2 DEF RunStates
      <3>2. Len(batch) \in Int /\ inserted \in Int
        BY <2>2, <2>6
      <3> HIDE DEF batch
      <3>3. /\ run[r].counts.inserted + inserted \in Int
            /\ run[r].counts.skipped + Len(batch) - inserted \in Int
        BY <3>1, <3>2
      <3> QED
        BY <3>1, <3>3
    <2> HIDE DEF counts
    <2>10. next \in RunStates
      <3>1. <<>> \in Seq(Record)
        OBVIOUS
      <3>2. [run[r] EXCEPT !.buffer = <<>>] \in RunStates
        BY <1>2, <3>1 DEF RunStates
      <3>3. [[run[r] EXCEPT !.buffer = <<>>] EXCEPT !.counts = counts] \in RunStates
        BY <2>9, <3>2 DEF RunStates
      <3> QED
        BY <3>3
    <2>11. /\ next.buffer = <<>> /\ next.counts = counts /\ next.lines = run[r].lines
           /\ next.stage = run[r].stage /\ next.args = args /\ next.exit = run[r].exit
           /\ next.day = run[r].day /\ next.truncated = run[r].truncated
           /\ next.token = run[r].token /\ next.page = run[r].page
           /\ next.seen = run[r].seen /\ next.age = run[r].age
      BY <1>2 DEF RunStates
    <2> HIDE DEF next
    <2>12. run'[r] = next /\ \A q \in Runs \ {r} : run'[q] = run[q]
      BY <2>1 DEF Types
    <2>13. Types'
      <3>1. run' \in [Runs -> RunStates]
        BY <2>1, <2>10 DEF Types
      <3>2. \A e \in Events : rows'[e].by = "nobody" => rows'[e] = NoRow
        BY <2>3, <2>4 DEF Types
      <3> QED
        BY <1>1, <2>3, <3>1, <3>2 DEF Types, LogStates
    <2>14. \A e \in Events : HasRow(e) => rows'[e] = rows[e] /\ HasRow(e)'
      BY <2>3 DEF HasRow
    <2>15. \A rec \in ToSet(batch) : IsUnder(args, rec) /\ Matches(args, rec)
      BY <1>1, <1>2 DEF Good, Sourced
    <2>16. RowsComeFromTheLog'
      <3> SUFFICES ASSUME NEW e \in Events, HasRow(e)'
                   PROVE  \E b \in objects : \E rec \in said[b] :
                             rec.event = e /\ rec.host = rows'[e].host
        BY <1>1 DEF RowsComeFromTheLog
      <3>1. CASE e \in new
        <4>1. PICK rec \in ToSet(batch) : rec.event = e /\ rec.host = rows'[e].host
          BY <2>3, <3>1
        <4>2. PICK b \in Under(EventPrefixes(args)) : rec \in said[b]
          BY <2>15 DEF IsUnder
        <4> QED
          BY <4>1, <4>2 DEF Under
      <3>2. CASE e \notin new
        BY <2>3, <3>2 DEF RowsComeFromTheLog, HasRow
      <3> QED
        BY <3>1, <3>2
    <2>17. \A q \in Runs : run[q].stage # "idle" => run'[q].args = run[q].args
      BY <2>11, <2>12
    <2>18. \A q \in Runs : Under(EventPrefixes(run[q].args)) =
                             {b \in objects' : Log[b].day \in EventPrefixes(run[q].args)}
      BY <1>1 DEF Under
    <2>19. WritesWhatWasAsked'
      <3> SUFFICES ASSUME NEW e \in Events, rows'[e].by \in Runs
                   PROVE  LET its == run'[rows'[e].by].args
                          IN  /\ its.mode # "dry" /\ its.tenant \in {AnyTenant, TenantOf[e]}
                              /\ \E b \in objects : /\ Log[b].day \in its.from .. its.to
                                                    /\ \E rec \in ToSet(Log[b].records) :
                                                          rec.event = e
        BY <1>1 DEF WritesWhatWasAsked, Under
      <3>1. CASE e \in new
        <4>1. rows'[e].by = r /\ run'[r].args = args
          BY <2>3, <2>11, <2>12, <3>1
        <4>2. PICK rec \in ToSet(batch) : rec.event = e
          BY <2>3, <3>1
        <4>3. PICK b \in Under(EventPrefixes(args)) : rec.event \in EventsOf(b)
          <5>1. PICK b \in Under(EventPrefixes(args)) : rec \in said[b]
            BY <2>15 DEF IsUnder
          <5>2. rec.event \in EventsOf(b)
            BY <5>1 DEF Types, LogStates, Under
          <5> QED
            BY <5>1, <5>2
        <4>4. args.mode # "dry" /\ args.tenant \in {AnyTenant, TenantOf[e]}
          BY <1>1, <1>2, <2>15, <4>2 DEF Good, Sourced, Matches
        <4> QED
          BY <4>1, <4>2, <4>3, <4>4 DEF Under, EventPrefixes, EventsOf
      <3>2. CASE e \notin new
        <4>1. rows[e].by \in Runs /\ rows'[e].by = rows[e].by
          BY <2>3, <3>2
        <4>2. run'[rows[e].by].args = run[rows[e].by].args
          BY <2>17, <4>1 DEF Good, Shape, Mine
        <4> QED
          BY <4>1, <4>2 DEF WritesWhatWasAsked, Under
      <3> QED
        BY <3>1, <3>2
    <2>20. ASSUME NEW q \in Runs, q # r PROVE Good(q)'
      <3>1. Mine(q)' = Mine(q)
        BY <2>3, <2>4, <2>20 DEF Mine, NoRow
      <3> QED
        BY <1>1, <2>12, <2>13, <2>14, <2>20, <3>1, OtherRunKeeps
    <2>21. Good(r)'
      <3>1. Shape(r)'
        <4>1. Len(next.buffer) = 0 /\ args.batch >= 1
          BY <1>1, <1>2, <2>11 DEF Good, Shape
        <4> QED
          BY <1>1, <1>2, <2>11, <2>12, <4>1 DEF Good, Shape, Running, Under
      <3>2. Sourced(r)'
        <4>1. ToSet(<<>>) = {}
          BY DEF ToSet
        <4> QED
          BY <1>1, <1>2, <2>11, <2>12, <4>1 DEF Good, Sourced, Running, IsUnder, Under
      <3>3. \A b : Ahead(r, b) => Ahead(r, b)'
        BY <2>11, <2>12 DEF Ahead
      <3>4. \A rec \in ToSet(batch) : HasRow(rec.event)'
        BY <2>3, <2>4, <2>5, <2>14 DEF HasRow, NoRow
      <3>5. Covered(r)'
        <4> SUFFICES ASSUME Running(r), args.mode # "dry", run[r].age = losses,
                            NEW b \in run[r].seen, NEW x \in ToSet(Log[b].records),
                            x.kind = "ok", Matches(args, x)
                     PROVE  \/ HasRow(x.event)' \/ Holds(r, x)'
                            \/ b \in run[r].page \/ Ahead(r, b)'
          BY <1>1, <2>11, <2>12 DEF Covered, Running, HasRow
        <4>1. \/ HasRow(x.event) \/ Holds(r, x)
              \/ b \in run[r].page \/ Ahead(r, b)
          BY <1>2 DEF Good, Covered
        <4>2. x.event \in Events
          <5>1. b \in DOMAIN Log
            BY <1>2 DEF RunStates
          <5>2. x \in Record
            BY <5>1, ToSetType, LogAssumption
          <5> QED
            BY <5>2 DEF Record
        <4>3. Holds(r, x) => HasRow(x.event)' \/ Holds(r, x)'
          BY <2>11, <2>12, <3>4 DEF Holds
        <4> QED
          BY <2>14, <3>3, <4>1, <4>2, <4>3
      <3>6. Counted(r)'
        <4>1. args.mode = "report" =>
                counts.parsed = counts.inserted + counts.skipped + Len(next.buffer)
          <5> DEFINE p == run[r].counts.parsed  i == run[r].counts.inserted
                     s == run[r].counts.skipped  n == Len(batch)
          <5> SUFFICES ASSUME args.mode = "report"
                       PROVE  counts.parsed = counts.inserted + counts.skipped + Len(next.buffer)
            OBVIOUS
          <5>1. p \in Int /\ i \in Int /\ s \in Int /\ n \in Int /\ p = i + s + n
            BY <1>1, <1>2, <2>2 DEF RunStates, Good, Counted
          <5>2. /\ counts.parsed = p /\ counts.inserted = i + inserted
                /\ counts.skipped = s + n - inserted /\ Len(next.buffer) = 0
            BY <2>9, <2>11
          <5> HIDE DEF p, i, s, n
          <5> QED
            BY <2>6, <5>1, <5>2
        <4>2. run[r].age = losses => counts.inserted = Cardinality(Mine(r)')
          BY <1>1, <1>2, <2>8, <2>9 DEF Good, Counted
        <4> QED
          BY <1>1, <2>11, <2>12, <4>1, <4>2 DEF Counted, Running
      <3>7. Rebuilt(r)'
        BY <1>2, <2>11, <2>12 DEF Rebuilt
      <3> QED
        BY <3>1, <3>2, <3>5, <3>6, <3>7 DEF Good
    <2> QED
      BY <2>13, <2>16, <2>19, <2>20, <2>21
  <1> QED
    BY <1>3, <1>4

\* At the end of the stream nothing is held and nothing is ahead.
LEMMA FinishStep == ASSUME IInv, NEW r \in Runs, Finish(r) PROVE IInv'
  <1> USE DEF IInv
  <1>1. /\ Running(r) /\ UNCHANGED <<objects, says, said, rows, losses>>
        /\ run[r].lines = <<>> /\ run[r].page = {} /\ ~run[r].truncated
        /\ run[r].day = run[r].args.to /\ run[r].buffer = <<>>
    BY DEF Finish, AtEnd, NeedsKeys, Flushes, Running
  <1>2. run[r] \in RunStates /\ Good(r) /\ run[r].args.to \in Nat
    BY <1>1, RunningFacts
  <1>3. ~(run[r].args.mode = "report" /\ ~Reconciled(run[r].counts))
    <2> SUFFICES ASSUME run[r].args.mode = "report" PROVE Reconciled(run[r].counts)
      OBVIOUS
    <2> DEFINE p == run[r].counts.parsed  i == run[r].counts.inserted
               s == run[r].counts.skipped  n == Len(run[r].buffer)
    <2>1. p \in Int /\ i \in Int /\ s \in Int /\ n = 0 /\ p = i + s + n
      BY <1>1, <1>2 DEF RunStates, Good, Counted
    <2>2. Reconciled(run[r].counts) <=> i + s = p
      BY DEF Reconciled
    <2> HIDE DEF p, i, s, n
    <2> QED
      BY <2>1, <2>2
  <1>4. Exits(r, 0)
    BY <1>3 DEF Finish
  <1>5. ASSUME run[r].args.mode # "dry", run[r].age = losses, NEW b \in run[r].seen,
               NEW rec \in ToSet(Log[b].records), rec.kind = "ok", Matches(run[r].args, rec)
        PROVE  HasRow(rec.event)
    <2>1. ToSet(<<>>) = {}
      BY DEF ToSet
    <2>2. Log[b].day <= run[r].day
      <3>1. Log[b].day \in EventPrefixes(run[r].args)
        BY <1>1, <1>2 DEF Good, Shape, Under
      <3> QED
        BY <1>1, <1>2, <3>1 DEF EventPrefixes, RunStates
    <2>3. ~Ahead(r, b)
      <3>1. b \in DOMAIN Log /\ Log[b].day \in Nat /\ run[r].day \in Nat
        BY <1>2, LogAssumption DEF RunStates
      <3> QED
        BY <1>1, <2>2, <3>1 DEF Ahead
    <2> QED
      BY <1>1, <1>2, <1>5, <2>1, <2>3 DEF Good, Covered, Holds
  <1> QED
    BY <1>1, <1>4, <1>5, ExitStep

\* A fault ends the run with exit code 2, of which nothing is promised.
LEMMA FaultStep == ASSUME IInv, NEW r \in Runs, Fault(r) PROVE IInv'
  BY ExitStep DEF Fault

-----------------------------------------------------------------------------
\* Every step keeps the invariant.
LEMMA StepInv == IInv /\ [Next]_vars => IInv'
  <1> SUFFICES ASSUME IInv, [Next]_vars PROVE IInv'
    OBVIOUS
  <1>1. CASE UNCHANGED vars
    <2>1. UNCHANGED <<objects, says, said, rows, losses, run>> /\ Types'
      BY <1>1 DEF vars, IInv, Types, LogStates
    <2>2. RowsComeFromTheLog' /\ WritesWhatWasAsked'
      BY <2>1 DEF IInv, RowsComeFromTheLog, WritesWhatWasAsked, HasRow, Under
    <2>3. ASSUME NEW q \in Runs PROVE Good(q)'
      BY <2>1, OtherRunKeeps DEF HasRow, Mine
    <2> QED
      BY <2>1, <2>2, <2>3 DEF IInv
  <1>2. ASSUME NEW b \in DOMAIN Log, Put(b) \/ PutAgain(b) \/ Insert(b) PROVE IInv'
    BY <1>2, PutStep, PutAgainStep, InsertStep
  <1>3. CASE Lose
    BY <1>3, LoseStep
  <1>4. ASSUME NEW r \in Runs, Start(r) \/ Step(r) \/ Fault(r) PROVE IInv'
    BY <1>4, StartStep, ListStep, GetStep, ReadStep, FlushStep, FinishStep, FaultStep DEF Step
  <1> QED
    BY <1>1, <1>2, <1>3, <1>4 DEF Next

\* The inductive invariant.  A listing never steps over an object that was there when the
\* run began: what it leaves is after the page and the list was cut (Covered).
THEOREM Invariance == Spec => []IInv
  <1>1. Init => IInv
    BY InitIInv
  <1>2. IInv /\ [Next]_vars => IInv'
    BY StepInv
  <1> QED
    BY <1>1, <1>2, PTL DEF Spec

\* replay-driver.ts: the buffer never holds more than the batch it was given.
THEOREM TypeCorrect == Spec => []TypeOK
  <1>1. IInv => TypeOK
    <2> SUFFICES ASSUME IInv PROVE TypeOK
      OBVIOUS
    <2>1. \A e \in Events : rows[e] = NoRow \/ rows[e].by \in Runs \cup {"flush"}
      BY DEF IInv, Types, RowStates
    <2>2. ASSUME NEW r \in Runs
          PROVE  /\ run[r].stage \in {"idle", "running", "exited"}
                 /\ run[r].exit \in {-1, 0, 1, 2, 3}
                 /\ run[r].seen \subseteq objects
                 /\ Running(r) => Len(run[r].buffer) <= run[r].args.batch
      <3>1. run[r] \in RunStates /\ Good(r)
        BY DEF IInv, Types
      <3>2. run[r].stage \in {"idle", "running", "exited"} /\ run[r].exit \in -1 .. 2
        BY <3>1 DEF RunStates
      <3> QED
        BY <3>1, <3>2 DEF Good, Shape
    <2> QED
      BY <2>1, <2>2 DEF IInv, Types, LogStates, TypeOK
  <1> QED
    BY <1>1, Invariance, PTL

\* A run that exits with 0 has rebuilt the rows of everything that was in the log when it
\* began, however the keys were paged, whatever was flushed beside it and whatever other
\* runs did or left undone.
THEOREM Rebuilds == Spec => []ReplayRebuilds
  <1>1. IInv => ReplayRebuilds
    BY DEF IInv, Good, Rebuilt, ReplayRebuilds
  <1> QED
    BY <1>1, Invariance, PTL

\* toNewEventRow: every row says what some object of the log has said of its event, though
\* the flush overwrites objects while runs read them and hold what they have read.
THEOREM RowsOfTheLog == Spec => []RowsComeFromTheLog
  <1>1. IInv => RowsComeFromTheLog
    BY DEF IInv
  <1> QED
    BY <1>1, Invariance, PTL

\* runReplayCli: a run writes rows of its tenant and of its days, and a dry run writes none.
THEOREM WritesAsked == Spec => []WritesWhatWasAsked
  <1>1. IInv => WritesWhatWasAsked
    BY DEF IInv
  <1> QED
    BY <1>1, Invariance, PTL

\* buildReplayReport: the report adds up, and counts as inserted the rows this run wrote.
THEOREM ReportExact == Spec => []ReportIsExact
  <1>1. IInv => ReportIsExact
    <2> SUFFICES ASSUME IInv, NEW r \in Runs
                 PROVE  /\ run[r].exit # 3
                        /\ run[r].stage # "idle" /\ run[r].age = losses =>
                             run[r].counts.inserted
                               = Cardinality({e \in Events : rows[e].by = r})
      BY DEF ReportIsExact
    <2>1. run[r] \in RunStates /\ Counted(r)
      BY DEF IInv, Types, Good
    <2>2. run[r].exit \in -1 .. 2
      BY <2>1 DEF RunStates
    <2> QED
      BY <2>1, <2>2 DEF Counted, Mine
  <1> QED
    BY <1>1, Invariance, PTL

-----------------------------------------------------------------------------
(***************************************************************************)
(* A run ends: every step of it goes to a later day or a later object, or  *)
(* leaves less to read of the object, or lists what it had to, or leaves   *)
(* less to insert.  It takes one more invariant: a page lies after the     *)
(* token that it was listed with.                                          *)
(***************************************************************************)
PageAhead ==
    \A r \in Runs : Running(r) => \A b \in run[r].page : b > run[r].token

\* A page of some keys is not empty, and a page of none is the last.
LEMMA PageOfSome ==
    ASSUME NEW keys \in SUBSET Nat, IsFiniteSet(keys), FirstPage(keys) = {}
    PROVE  ~IsTruncated(keys)
  <1>1. ASSUME keys # {} PROVE FALSE
    <2>1. PICK b \in keys : \A c \in keys : b <= c
      BY <1>1, LeastOf
    <2>2. {c \in keys : c < b} = {}
      <3>1. \A c \in keys : c \in Nat /\ ~(c < b)
        BY <2>1
      <3> QED
        BY <3>1
    <2>3. Cardinality({c \in keys : c < b}) < PageSize
      BY <2>2, FS_EmptySet, ReplayAssumption
    <2> QED
      BY <2>3 DEF FirstPage
  <1> QED
    BY <1>1, FS_EmptySet, ReplayAssumption DEF IsTruncated

\* What the steps of a run do to its place.
Reads(r) ==
    \E b \in run[r].page :
        /\ \A c \in run[r].page : b <= c
        /\ run'[r].token = b /\ run'[r].page = run[r].page \ {b}
        /\ run'[r].day = run[r].day

Lists(r) ==
    LET day == IF run[r].truncated THEN run[r].day ELSE run[r].day + 1
        keys == {b \in Under({day}) : b > ContinuationToken(r)}
    IN  /\ NeedsKeys(r)
        /\ run'[r].day = day /\ run'[r].token = ContinuationToken(r)
        /\ run'[r].page = FirstPage(keys) /\ run'[r].truncated = IsTruncated(keys)
        /\ run'[r].lines = run[r].lines /\ run'[r].buffer = run[r].buffer

Handles(r) ==
    /\ run'[r].day = run[r].day /\ run'[r].token = run[r].token
    /\ run'[r].page = run[r].page /\ run'[r].truncated = run[r].truncated
    /\ \/ run[r].lines # <<>> /\ run'[r].lines = Tail(run[r].lines)
       \/ /\ run[r].buffer # <<>> /\ run'[r].buffer = <<>>
          /\ run'[r].lines = run[r].lines

\* Every step of a run lists, begins an object, handles what it has, or ends it.
LEMMA StepMoves ==
    ASSUME Types, NEW r \in Runs, Step(r)
    PROVE  /\ Running(r)
           /\ \A q \in Runs : q # r => run'[q] = run[q]
           /\ run'[r].stage = "exited" \/ Reads(r) \/ Lists(r) \/ Handles(r)
  <1>1. run[r] \in RunStates
    BY DEF Types
  <1>2. ASSUME NEW code, Exits(r, code), Running(r)
        PROVE  /\ run'[r].stage = "exited"
               /\ \A q \in Runs : q # r => run'[q] = run[q]
    BY <1>2 DEF Exits, Types, Idle
  <1>3. CASE ListObjectKeys(r)
    <2> DEFINE day == IF run[r].truncated THEN run[r].day ELSE run[r].day + 1
               token == ContinuationToken(r)
               keys == {b \in Under({day}) : b > token}
               next == [run[r] EXCEPT !.day = day, !.token = token, !.page = FirstPage(keys),
                                      !.truncated = IsTruncated(keys)]
    <2>1. NeedsKeys(r) /\ run' = [run EXCEPT ![r] = next]
      BY <1>3 DEF ListObjectKeys
    <2>2. /\ next.day = day /\ next.token = token /\ next.page = FirstPage(keys)
          /\ next.truncated = IsTruncated(keys)
          /\ next.lines = run[r].lines /\ next.buffer = run[r].buffer
      BY <1>1 DEF RunStates
    <2> HIDE DEF next
    <2>3. run'[r] = next /\ \A q \in Runs : q # r => run'[q] = run[q]
      BY <2>1 DEF Types
    <2> QED
      BY <2>1, <2>2, <2>3 DEF Lists, NeedsKeys, Running
  <1>4. CASE GetObject(r)
    <2>1. PICK b \in run[r].page :
            /\ \A c \in run[r].page : b <= c
            /\ run' = [run EXCEPT ![r].page = @ \ {b}, ![r].token = b,
                                  ![r].lines = says[b]]
      BY <1>4 DEF GetObject
    <2> DEFINE next == [run[r] EXCEPT !.page = run[r].page \ {b}, !.token = b,
                                      !.lines = says[b]]
    <2>2. run' = [run EXCEPT ![r] = next]
      BY <2>1 DEF Types
    <2>3. next.token = b /\ next.page = run[r].page \ {b} /\ next.day = run[r].day
      BY <1>1 DEF RunStates
    <2> HIDE DEF next
    <2>4. run'[r] = next /\ \A q \in Runs : q # r => run'[q] = run[q]
      BY <2>2 DEF Types
    <2> QED
      BY <1>4, <2>1, <2>3, <2>4 DEF Reads, GetObject, Running
  <1>5. CASE ReadRecord(r)
    <2> DEFINE args == run[r].args
               rec == Head(run[r].lines)
               rejected == args.mode = "report" /\ rec.kind = "invalid"
               buffered == IF args.mode = "dry" \/ rejected \/ ~Matches(args, rec)
                           THEN run[r].buffer ELSE Append(run[r].buffer, ToNewEventRow(rec))
               parsed == IF rejected THEN run[r].counts.parsed ELSE run[r].counts.parsed + 1
               counts == [run[r].counts EXCEPT !.parsed = parsed]
               next == [run[r] EXCEPT !.lines = Tail(run[r].lines), !.buffer = buffered,
                                      !.counts = counts]
    <2>1. CASE rec.kind = "corrupt"
      BY <1>2, <1>5, <2>1 DEF ReadRecord, Running
    <2>2. CASE rec.kind # "corrupt"
      <3>1. run' = [run EXCEPT ![r] = next]
        BY <1>1, <1>5, <2>2 DEF ReadRecord, Types, RunStates
      <3>2. /\ next.lines = Tail(run[r].lines)
            /\ next.day = run[r].day /\ next.token = run[r].token
            /\ next.page = run[r].page /\ next.truncated = run[r].truncated
        BY <1>1 DEF RunStates
      <3> HIDE DEF next
      <3>3. run'[r] = next /\ \A q \in Runs : q # r => run'[q] = run[q]
        BY <3>1 DEF Types
      <3> QED
        BY <1>5, <3>2, <3>3 DEF Handles, ReadRecord, Running
    <2> QED
      BY <2>1, <2>2
  <1>6. CASE FlushBuffer(r)
    <2> DEFINE batch == run[r].buffer
               inserted == InsertedEventIds(batch)
               counts == [parsed |-> run[r].counts.parsed,
                          inserted |-> run[r].counts.inserted + inserted,
                          skipped |-> run[r].counts.skipped + Len(batch) - inserted]
               next == [run[r] EXCEPT !.buffer = <<>>, !.counts = counts]
    <2>1. CASE \E rec \in ToSet(batch) : rec.kind = "invalid"
      BY <1>2, <1>6, <2>1 DEF FlushBuffer, Running
    <2>2. CASE ~ \E rec \in ToSet(batch) : rec.kind = "invalid"
      <3>1. run' = [run EXCEPT ![r] = next]
        BY <1>6, <2>2 DEF FlushBuffer, Types
      <3>2. /\ next.buffer = <<>> /\ next.lines = run[r].lines
            /\ next.day = run[r].day /\ next.token = run[r].token
            /\ next.page = run[r].page /\ next.truncated = run[r].truncated
        BY <1>1 DEF RunStates
      <3> HIDE DEF next
      <3>3. run'[r] = next /\ \A q \in Runs : q # r => run'[q] = run[q]
        BY <3>1 DEF Types
      <3> QED
        BY <1>6, <3>2, <3>3 DEF Handles, FlushBuffer, Flushes, Running
    <2> QED
      BY <2>1, <2>2
  <1>7. CASE Finish(r)
    <2>1. Running(r) /\ \E code : Exits(r, code)
      BY <1>7 DEF Finish, AtEnd, NeedsKeys, Running
    <2> QED
      BY <1>2, <2>1
  <1> QED
    BY <1>3, <1>4, <1>5, <1>6, <1>7 DEF Step

\* What a LIST finds lies after the token it was asked with.
LEMMA PageAheadStep ==
    ASSUME IInv, PageAhead, [Next]_vars
    PROVE  PageAhead'
  <1>1. Types /\ \A r \in Runs : run[r] \in RunStates
    BY DEF IInv, Types
  <1>2. ASSUME NEW r \in Runs, run'[r] = run[r], Running(r)'
        PROVE  \A b \in run'[r].page : b > run'[r].token
    BY <1>2 DEF PageAhead, Running
  <1>3. ASSUME NEW r \in Runs, \A q \in Runs : q # r => run'[q] = run[q],
               Running(r)' => \A b \in run'[r].page : b > run'[r].token
        PROVE  PageAhead'
    BY <1>2, <1>3 DEF PageAhead
  <1>4. ASSUME NEW r \in Runs, Start(r) PROVE PageAhead'
    <2>1. PICK args \in Requests :
            run' = [run EXCEPT ![r] =
                      IF Refusal(args) # 0
                      THEN [@ EXCEPT !.stage = "exited", !.args = args, !.exit = Refusal(args)]
                      ELSE [@ EXCEPT !.stage = "running", !.args = args, !.day = args.from,
                                     !.truncated = TRUE,
                                     !.seen = Under(EventPrefixes(args)), !.age = losses]]
      BY <1>4 DEF Start
    <2>2. run[r].page = {}
      <3>1. run[r] = Idle
        BY <1>4 DEF Start, IInv, Good, Shape
      <3> QED
        BY <3>1 DEF Idle
    <2>3. run'[r].page = {} /\ \A q \in Runs : q # r => run'[q] = run[q]
      BY <1>1, <2>1, <2>2 DEF Types, RunStates
    <2> QED
      BY <1>3, <2>3
  <1>5. ASSUME NEW r \in Runs, Fault(r) PROVE PageAhead'
    <2>1. run'[r].page = {} /\ \A q \in Runs : q # r => run'[q] = run[q]
      BY <1>1, <1>5 DEF Fault, Exits, Idle, Types
    <2> QED
      BY <1>3, <2>1
  <1>6. ASSUME NEW r \in Runs, Step(r) PROVE PageAhead'
    <2>1. /\ Running(r) /\ \A q \in Runs : q # r => run'[q] = run[q]
          /\ run'[r].stage = "exited" \/ Reads(r) \/ Lists(r) \/ Handles(r)
      BY <1>1, <1>6, StepMoves
    <2>2. \A b \in run[r].page : b > run[r].token
      BY <2>1 DEF PageAhead
    <2>3. CASE run'[r].stage = "exited"
      BY <1>3, <2>1, <2>3 DEF Running
    <2>4. CASE Reads(r)
      <3>1. PICK b \in run[r].page :
              /\ \A c \in run[r].page : b <= c
              /\ run'[r].token = b /\ run'[r].page = run[r].page \ {b}
        BY <2>4 DEF Reads
      <3>2. \A c \in run[r].page : c \in Nat
        BY <1>1, LogAssumption DEF RunStates
      <3> QED
        BY <1>3, <2>1, <3>1, <3>2
    <2>5. CASE Lists(r)
      BY <1>3, <2>1, <2>5 DEF Lists, FirstPage
    <2>6. CASE Handles(r)
      BY <1>3, <2>1, <2>2, <2>6 DEF Handles
    <2> QED
      BY <2>1, <2>3, <2>4, <2>5, <2>6
  <1>7. CASE UNCHANGED run
    BY <1>2, <1>7 DEF PageAhead
  <1> QED
    BY <1>4, <1>5, <1>6, <1>7 DEF Next, Put, PutAgain, Insert, Lose, vars

\* A place is before another that differs from it for the better in one component.
LEMMA BeforeAt ==
    ASSUME NEW r \in Runs, NEW k \in 1 .. 5, Stand(r)[k] < Stand(r)'[k],
           \A j \in 1 .. k - 1 : Stand(r)[j] = Stand(r)'[j]
    PROVE  Before(Stand(r), Stand(r)')
  <1>1. DOMAIN Stand(r) = 1 .. 5
    BY DEF Stand
  <1> QED
    BY <1>1 DEF Before

\* Every step of a run brings it further.
LEMMA RunAdvances ==
    ASSUME IInv, PageAhead, NEW r \in Runs, Step(r), run'[r].stage # "exited"
    PROVE  Before(Stand(r), Stand(r)')
  <1> DEFINE flag == IF run[r].truncated /\ run[r].page = {} THEN 0 ELSE 1
             s == Stand(r)
             t == Stand(r)'
  <1>1. /\ Types /\ run[r] \in RunStates /\ Running(r)
        /\ Reads(r) \/ Lists(r) \/ Handles(r)
    BY StepMoves DEF IInv, Types
  <1>2. /\ s[1] = run[r].day /\ s[2] = run[r].token /\ s[3] = -Len(run[r].lines)
        /\ s[4] = flag /\ s[5] = -Len(run[r].buffer)
    BY DEF Stand
  <1>3. /\ t[1] = run'[r].day /\ t[2] = run'[r].token /\ t[3] = -Len(run'[r].lines)
        /\ t[4] = flag' /\ t[5] = -Len(run'[r].buffer)
    BY DEF Stand
  <1>4. /\ run[r].day \in Nat /\ run[r].token \in Nat
        /\ run[r].lines \in Seq(Record) /\ run[r].buffer \in Seq(Record)
    BY <1>1 DEF RunStates
  <1>5. ASSUME NEW k \in 1 .. 5, s[k] < t[k], \A j \in 1 .. k - 1 : s[j] = t[j]
        PROVE  Before(s, t)
    BY <1>5, BeforeAt
  <1> SUFFICES Before(s, t)
    OBVIOUS
  <1> HIDE DEF s, t
  <1>6. CASE Reads(r)
    <2>1. run[r].token < run'[r].token /\ run'[r].day = run[r].day
      BY <1>1, <1>6 DEF Reads, PageAhead
    <2>2. s[2] < t[2] /\ \A j \in 1 .. 1 : s[j] = t[j]
      BY <1>2, <1>3, <2>1
    <2> QED
      BY <1>5, <2>2
  <1>7. CASE Lists(r)
    <2>1. CASE ~run[r].truncated
      <3>1. run'[r].day = run[r].day + 1
        BY <1>7, <2>1 DEF Lists
      <3>2. s[1] < t[1] /\ \A j \in 1 .. 0 : s[j] = t[j]
        BY <1>2, <1>3, <1>4, <3>1
      <3> QED
        BY <1>5, <3>2
    <2>2. CASE run[r].truncated
      <3> DEFINE keys == {b \in Under({run[r].day}) : b > run[r].token}
      <3>1. /\ run[r].page = {} /\ run'[r].lines = run[r].lines
            /\ run'[r].day = run[r].day /\ run'[r].token = run[r].token
            /\ run'[r].page = FirstPage(keys) /\ run'[r].truncated = IsTruncated(keys)
        BY <1>7, <2>2 DEF Lists, NeedsKeys, ContinuationToken
      <3>2. keys \in SUBSET Nat /\ IsFiniteSet(keys)
        <4>1. keys \subseteq DOMAIN Log
          BY <1>1 DEF Under, Types
        <4> QED
          BY <4>1, LogAssumption, FS_Subset
      <3> HIDE DEF keys
      <3>3. flag = 0 /\ flag' = 1
        BY <2>2, <3>1, <3>2, PageOfSome
      <3> HIDE DEF flag
      <3>4. s[4] < t[4] /\ \A j \in 1 .. 3 : s[j] = t[j]
        BY <1>2, <1>3, <3>1, <3>3
      <3> QED
        BY <1>5, <3>4
    <2> QED
      BY <2>1, <2>2
  <1>8. CASE Handles(r)
    <2>1. flag' = flag /\ run'[r].day = run[r].day /\ run'[r].token = run[r].token
      BY <1>8 DEF Handles
    <2> HIDE DEF flag
    <2>2. CASE run[r].lines # <<>> /\ run'[r].lines = Tail(run[r].lines)
      <3>1. -Len(run[r].lines) < -Len(run'[r].lines)
        BY <1>4, <2>2
      <3>2. s[3] < t[3] /\ \A j \in 1 .. 2 : s[j] = t[j]
        BY <1>2, <1>3, <2>1, <3>1
      <3> QED
        BY <1>5, <3>2
    <2>3. CASE run[r].buffer # <<>> /\ run'[r].buffer = <<>> /\ run'[r].lines = run[r].lines
      <3>1. -Len(run[r].buffer) < -Len(run'[r].buffer)
        BY <1>4, <2>3
      <3>2. s[5] < t[5] /\ \A j \in 1 .. 4 : s[j] = t[j]
        BY <1>2, <1>3, <2>1, <2>3, <3>1
      <3> QED
        BY <1>5, <3>2
    <2> QED
      BY <1>8, <2>2, <2>3 DEF Handles
  <1> QED
    BY <1>1, <1>6, <1>7, <1>8

\* A run never comes back to where it was (r2/ndjson.ts, replay-driver.ts): with finitely
\* many days, objects and records it ends if it is kept going, however much is added to
\* the log while it reads.
THEOREM RunsEnd == Spec => EveryStepAdvances
  <1>1. Init => PageAhead
    BY DEF Init, PageAhead, Running, Idle
  <1>2. IInv /\ PageAhead /\ [Next]_vars => PageAhead'
    BY PageAheadStep
  <1>3. IInv /\ PageAhead /\ [Next]_vars =>
            [\A r \in Runs : Step(r) =>
                run'[r].stage = "exited" \/ Before(Stand(r), Stand(r)')]_vars
    BY RunAdvances
  <1> QED
    BY <1>1, <1>2, <1>3, Invariance, PTL DEF Spec, EveryStepAdvances
=============================================================================
