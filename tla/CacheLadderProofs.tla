--------------------------- MODULE CacheLadderProofs ---------------------------
(***************************************************************************)
(* Proofs about CacheLadder, for any processes, lookups, values and times. *)
(***************************************************************************)
EXTENDS CacheLadder, TLAPS

\* The age at which an entry of Redis has expired at the latest.
Limit(v) == TtlOf(v) + 2 * MaxLag

\* The row is never history.
RowIsYoung == age[row] = 0

\* What is under way, or cached, grows older no longer than it may: the age of a value
\* and the ticks left to it never add up to more than at the start.
WritesAgeInTime == \A w \in writes : age[w.value] + w.left <= 2 * MaxLag

RedisAgesInTime ==
    redis # None /\ redis.value \in Rows =>
        redis.left > 0 /\ age[redis.value] + redis.left <= Limit(redis.value)

MemoAgesInTime ==
    \A p \in Processes : memo[p] # None =>
        /\ kind = "handle"
        /\ age[memo[p].value] + memo[p].left < Limit(memo[p].value) + Patience + MemoTtl

AgesInTime(l) ==
    /\ l.stage = "row" => age[l.value] + l.left <= MaxLag
    /\ l.stage = "reply" /\ l.value # None =>
          age[l.value] + l.left < Limit(l.value) + Patience
    /\ l.stage = "done" => l.stale < Staleness(kind, l.value)

\* No more invalidations are due than there were edits.
DelsFollowEdits == dels <= edits

LookupsAgeInTime == \A r \in Lookups : AgesInTime(lookup[r])

IInv == /\ TypeOK /\ RowIsYoung
        /\ WritesAgeInTime /\ RedisAgesInTime /\ MemoAgesInTime /\ LookupsAgeInTime
        /\ InvalidationHolds /\ DelsFollowEdits

-----------------------------------------------------------------------------
\* The durations are naturals.
LEMMA Durations ==
    ASSUME NEW v \in Rows
    PROVE  /\ TtlOf(v) \in Nat \ {0} /\ Limit(v) \in Nat \ {0} /\ 2 * MaxLag \in Nat
           /\ Staleness("handle", v) = Limit(v) + Patience + MemoTtl
           /\ Staleness("link", v) = Limit(v) + Patience
           /\ Staleness("handle", v) < MaxAge /\ Staleness("link", v) < MaxAge
  BY TtlAssumption, AgeAssumption DEF TtlOf, Limit, Staleness

\* The stage of a lookup tells its fields.
LEMMA Stages ==
    ASSUME NEW l \in Lookup
    PROVE  /\ l.stage \in {"idle", "asked", "query", "reply", "row", "done"}
           /\ l.stage = "idle" <=> l = Idle
           /\ l.stage \in {"asked", "query"} => l \in [stage : {"asked", "query"}, at : Processes]
           /\ l.stage = "reply" => l \in [stage : {"reply"}, at : Processes,
                                          value : Rows \cup {None}, left : Nat]
           /\ l.stage = "row" => l \in [stage : {"row"}, at : Processes, value : Rows, left : Nat]
           /\ l.stage = "done" => l \in [stage : {"done"}, at : Processes, value : Rows,
                                         stale : Nat]
           /\ l.stage # "idle" => l.at \in Processes
  BY DEF Lookup, Idle

\* The initial states satisfy the invariant.
LEMMA InitIInv == Init => IInv
  <1> SUFFICES ASSUME Init PROVE IInv
    OBVIOUS
  <1>1. MaxAge \in Nat /\ MaxEdits \in Nat
    BY TtlAssumption, AgeAssumption
  <1>2. TypeOK
    BY <1>1 DEF Init, TypeOK, Lookup
  <1>3. RowIsYoung /\ WritesAgeInTime /\ RedisAgesInTime /\ MemoAgesInTime
    BY DEF Init, RowIsYoung, WritesAgeInTime, RedisAgesInTime, MemoAgesInTime
  <1>5. InvalidationHolds /\ DelsFollowEdits
    BY DEF Init, InvalidationHolds, DelsFollowEdits
  <1>4. LookupsAgeInTime
    BY DEF Init, LookupsAgeInTime, AgesInTime, Idle
  <1> QED
    BY <1>2, <1>3, <1>4, <1>5 DEF IInv

-----------------------------------------------------------------------------
\* A step of a lookup to l, which may remember what it found and send a write.
LEMMA LookupStep ==
    ASSUME IInv, NEW r \in Lookups, NEW l \in Lookup, Becomes(r, l), AgesInTime(l),
           UNCHANGED <<kind, row, age, redis, dels, edits>>,
           writes' \subseteq Write, WritesAgeInTime',
           memo' \in [Processes -> Memo \cup {None}], MemoAgesInTime'
    PROVE  IInv'
  <1>1. lookup' \in [Lookups -> Lookup]
    BY DEF IInv, TypeOK, Becomes
  <1>2. \A q \in Lookups : lookup'[q] = IF q = r THEN l ELSE lookup[q]
    BY DEF IInv, TypeOK, Becomes
  <1>3. TypeOK'
    BY <1>1 DEF IInv, TypeOK
  <1>4. LookupsAgeInTime'
    BY <1>2 DEF IInv, LookupsAgeInTime, AgesInTime
  <1>5. RowIsYoung' /\ RedisAgesInTime' /\ InvalidationHolds' /\ DelsFollowEdits'
    BY DEF IInv, RowIsYoung, RedisAgesInTime, InvalidationHolds, DelsFollowEdits
  <1> QED
    BY <1>3, <1>4, <1>5 DEF IInv

\* The same for a lookup that neither remembers nor writes.
LEMMA PlainStep ==
    ASSUME IInv, NEW r \in Lookups, NEW l \in Lookup, Becomes(r, l), AgesInTime(l),
           UNCHANGED <<kind, row, age, redis, memo, writes, dels, edits>>
    PROVE  IInv'
  <1>1. writes' \subseteq Write /\ memo' \in [Processes -> Memo \cup {None}]
    BY DEF IInv, TypeOK
  <1>2. WritesAgeInTime' /\ MemoAgesInTime'
    BY DEF IInv, WritesAgeInTime, MemoAgesInTime
  <1> QED
    BY <1>1, <1>2, LookupStep

\* A value young enough may be remembered.
LEMMA RememberStep ==
    ASSUME IInv, NEW p \in Processes, NEW v \in Rows, Remember(p, v),
           age[v] < Limit(v) + Patience, UNCHANGED <<kind, age>>
    PROVE  memo' \in [Processes -> Memo \cup {None}] /\ MemoAgesInTime'
  <1>1. CASE kind = "handle"
    <2> DEFINE m == [value |-> v, left |-> MemoTtl]
    <2>1. memo' = [memo EXCEPT ![p] = m] /\ m \in Memo
      BY <1>1, TtlAssumption DEF Remember, Memo
    <2>2. m.value = v /\ m.left = MemoTtl
      OBVIOUS
    <2>3. age[m.value] + m.left < Limit(m.value) + Patience + MemoTtl
      BY <2>2, Durations, TtlAssumption, AgeAssumption DEF IInv, TypeOK
    <2> HIDE DEF m
    <2>4. memo' \in [Processes -> Memo \cup {None}]
      BY <2>1 DEF IInv, TypeOK
    <2>5. \A q \in Processes : memo'[q] = IF q = p THEN m ELSE memo[q]
      BY <2>1 DEF IInv, TypeOK
    <2> QED
      BY <1>1, <2>3, <2>4, <2>5 DEF IInv, MemoAgesInTime
  <1>2. CASE kind # "handle"
    BY <1>2 DEF IInv, TypeOK, Remember, MemoAgesInTime
  <1> QED
    BY <1>1, <1>2

-----------------------------------------------------------------------------
\* A lookup that the memo answers is as old as the memo; one that asks Redis holds nothing.
LEMMA BeginStep ==
    ASSUME IInv, NEW r \in Lookups, NEW p \in Processes, Begin(r, p)
    PROVE  IInv'
  <1>1. CASE memo[p] # None
    <2> DEFINE v == memo[p].value
               l == [stage |-> "done", at |-> p, value |-> v, stale |-> age[v]]
    <2>1. memo[p] \in Memo
      BY <1>1 DEF IInv, TypeOK
    <2>2. v \in Rows /\ memo[p].left \in Nat
      BY <2>1 DEF Memo
    <2>3. age[v] \in Nat
      BY <2>2, AgeAssumption DEF IInv, TypeOK
    <2>4. l \in Lookup
      BY <2>2, <2>3 DEF Lookup
    <2>5. age[v] < Staleness(kind, v)
      BY <1>1, <2>2, <2>3, Durations, TtlAssumption DEF IInv, MemoAgesInTime
    <2>6. AgesInTime(l)
      BY <2>5 DEF AgesInTime
    <2>7. Becomes(r, l) /\ UNCHANGED <<kind, row, age, redis, memo, writes, dels, edits>>
      BY <1>1 DEF Begin
    <2> HIDE DEF l
    <2> QED
      BY <2>4, <2>6, <2>7, PlainStep
  <1>2. CASE memo[p] = None
    <2> DEFINE l == [stage |-> "asked", at |-> p]
    <2>1. l \in Lookup /\ AgesInTime(l)
      BY DEF Lookup, AgesInTime
    <2>2. Becomes(r, l) /\ UNCHANGED <<kind, row, age, redis, memo, writes, dels, edits>>
      BY <1>2 DEF Begin
    <2> HIDE DEF l
    <2> QED
      BY <2>1, <2>2, PlainStep
  <1> QED
    BY <1>1, <1>2

\* What Redis answers is the cache as it is now, and Patience bounds how long it is kept.
LEMMA GetStep ==
    ASSUME IInv, NEW r \in Lookups, Get(r)
    PROVE  IInv'
  <1> DEFINE l == [stage |-> "reply", at |-> lookup[r].at, value |-> Parsed, left |-> Patience]
  <1>1. lookup[r] \in Lookup /\ lookup[r].stage = "asked"
    BY DEF IInv, TypeOK, Get
  <1>2. lookup[r].at \in Processes
    BY <1>1, Stages
  <1>3. Parsed \in Rows \cup {None}
    BY DEF IInv, TypeOK, Entry, Parsed
  <1>4. l \in Lookup
    BY <1>2, <1>3, TtlAssumption DEF Lookup
  <1>5. ASSUME Parsed # None
        PROVE  age[Parsed] + Patience < Limit(Parsed) + Patience
    <2>1. redis # None /\ Parsed = redis.value /\ redis.value \in Rows
      BY <1>3, <1>5 DEF Parsed
    <2>2. redis.left \in Nat
      BY <2>1 DEF IInv, TypeOK, Entry
    <2>3. redis.left > 0 /\ age[redis.value] + redis.left <= Limit(redis.value)
      BY <2>1 DEF IInv, RedisAgesInTime
    <2>4. age[redis.value] \in Nat
      BY <2>1, AgeAssumption DEF IInv, TypeOK
    <2> QED
      BY <2>1, <2>2, <2>3, <2>4, Durations, TtlAssumption
  <1>6. AgesInTime(l)
    BY <1>5 DEF AgesInTime
  <1>7. Becomes(r, l) /\ UNCHANGED <<kind, row, age, redis, memo, writes, dels, edits>>
    BY DEF Get
  <1> HIDE DEF l
  <1> QED
    BY <1>4, <1>6, <1>7, PlainStep

\* A hit is memoised and served: its age is at most what Redis held it, and Patience.
LEMMA HitStep ==
    ASSUME IInv, NEW r \in Lookups, Hit(r)
    PROVE  IInv'
  <1> DEFINE v == lookup[r].value
             p == lookup[r].at
             l == [stage |-> "done", at |-> p, value |-> v, stale |-> age[v]]
  <1>1. lookup[r] \in Lookup /\ lookup[r].stage = "reply" /\ v # None
    BY DEF IInv, TypeOK, Hit
  <1>2. p \in Processes /\ v \in Rows /\ lookup[r].left \in Nat
    BY <1>1, Stages
  <1>3. age[v] \in Nat
    BY <1>2, AgeAssumption DEF IInv, TypeOK
  <1>4. age[v] + lookup[r].left < Limit(v) + Patience
    BY <1>1 DEF IInv, LookupsAgeInTime, AgesInTime
  <1>5. age[v] < Limit(v) + Patience
    BY <1>2, <1>3, <1>4, Durations, TtlAssumption
  <1>6. age[v] < Staleness(kind, v)
    BY <1>2, <1>3, <1>5, Durations, TtlAssumption DEF IInv, TypeOK
  <1>7. l \in Lookup /\ AgesInTime(l)
    BY <1>2, <1>3, <1>6 DEF Lookup, AgesInTime
  <1>8. Becomes(r, l) /\ Remember(p, v) /\ UNCHANGED <<kind, row, age, redis, dels, edits, writes>>
    BY DEF Hit, Returns, KeepsHit
  <1> HIDE DEF v, p, l
  <1>9. memo' \in [Processes -> Memo \cup {None}] /\ MemoAgesInTime'
    BY <1>2, <1>5, <1>8, RememberStep
  <1>10. writes' \subseteq Write /\ WritesAgeInTime'
    BY <1>8 DEF IInv, TypeOK, WritesAgeInTime
  <1> QED
    BY <1>7, <1>8, <1>9, <1>10, LookupStep

\* A miss, for whatever reason, goes on to Postgres.
LEMMA MissStep ==
    ASSUME IInv, NEW r \in Lookups, Miss(r) \/ GiveUp(r)
    PROVE  IInv'
  <1> DEFINE l == [stage |-> "query", at |-> lookup[r].at]
  <1>1. lookup[r] \in Lookup /\ lookup[r].stage # "idle"
    BY DEF IInv, TypeOK, Miss, GiveUp
  <1>2. lookup[r].at \in Processes
    BY <1>1, Stages
  <1>3. l \in Lookup /\ AgesInTime(l)
    BY <1>2 DEF Lookup, AgesInTime
  <1>4. Becomes(r, l) /\ UNCHANGED <<kind, row, age, redis, memo, writes, dels, edits>>
    BY DEF Miss, GiveUp
  <1> HIDE DEF l
  <1> QED
    BY <1>3, <1>4, PlainStep

\* A row is fresh when it is read, and MaxLag bounds how late it arrives.
LEMMA ReadRowStep ==
    ASSUME IInv, NEW r \in Lookups, ReadRow(r)
    PROVE  IInv'
  <1> DEFINE l == [stage |-> "row", at |-> lookup[r].at, value |-> row, left |-> MaxLag]
  <1>1. lookup[r] \in Lookup /\ lookup[r].stage = "query"
    BY DEF IInv, TypeOK, ReadRow
  <1>2. lookup[r].at \in Processes /\ row \in Rows
    BY <1>1, Stages DEF IInv, TypeOK
  <1>3. l \in Lookup
    BY <1>2, TtlAssumption DEF Lookup
  <1>4. AgesInTime(l)
    BY TtlAssumption DEF IInv, RowIsYoung, AgesInTime
  <1>5. Becomes(r, l) /\ UNCHANGED <<kind, row, age, redis, memo, writes, dels, edits>>
    BY DEF ReadRow
  <1> HIDE DEF l
  <1> QED
    BY <1>3, <1>4, <1>5, PlainStep

\* A lookup that ends, with its answer or with Postgres.
LEMMA EndStep ==
    ASSUME IInv, NEW r \in Lookups, QueryFails(r) \/ Leave(r)
    PROVE  IInv'
  <1>1. Idle \in Lookup /\ AgesInTime(Idle)
    BY DEF Lookup, AgesInTime, Idle
  <1>2. Becomes(r, Idle) /\ UNCHANGED <<kind, row, age, redis, memo, writes, dels, edits>>
    BY DEF QueryFails, Leave
  <1> QED
    BY <1>1, <1>2, PlainStep

\* A row that arrives is memoised, served and written back, no older than MaxLag.
LEMMA RowArrivesStep ==
    ASSUME IInv, NEW r \in Lookups, RowArrives(r)
    PROVE  IInv'
  <1> DEFINE v == lookup[r].value
             p == lookup[r].at
             l == [stage |-> "done", at |-> p, value |-> v, stale |-> age[v]]
             w == [value |-> v, left |-> MaxLag]
  <1>1. lookup[r] \in Lookup /\ lookup[r].stage = "row"
    BY DEF IInv, TypeOK, RowArrives
  <1>2. p \in Processes /\ v \in Rows /\ lookup[r].left \in Nat
    BY <1>1, Stages
  <1>3. age[v] \in Nat
    BY <1>2, AgeAssumption DEF IInv, TypeOK
  <1>4. age[v] + lookup[r].left <= MaxLag
    BY <1>1 DEF IInv, LookupsAgeInTime, AgesInTime
  <1>5. age[v] <= MaxLag
    BY <1>2, <1>3, <1>4, TtlAssumption
  <1>6. age[v] < Limit(v) + Patience
    BY <1>2, <1>3, <1>5, Durations, TtlAssumption DEF Limit
  <1>7. age[v] < Staleness(kind, v)
    BY <1>2, <1>3, <1>6, Durations, TtlAssumption DEF IInv, TypeOK
  <1>8. l \in Lookup /\ AgesInTime(l)
    BY <1>2, <1>3, <1>7 DEF Lookup, AgesInTime
  <1>9. Becomes(r, l) /\ Remember(p, v) /\ UNCHANGED <<kind, row, age, redis, dels, edits>>
    BY DEF RowArrives, Returns
  <1>10. writes' = writes \cup {w}
    BY DEF RowArrives, Backfill, Tombstone, Send
  <1>11. w \in Write /\ age[w.value] + w.left <= 2 * MaxLag
    BY <1>2, <1>3, <1>5, TtlAssumption DEF Write
  <1> HIDE DEF v, p, l, w
  <1>12. memo' \in [Processes -> Memo \cup {None}] /\ MemoAgesInTime'
    BY <1>2, <1>6, <1>9, RememberStep
  <1>13. writes' \subseteq Write /\ WritesAgeInTime'
    BY <1>9, <1>10, <1>11 DEF IInv, TypeOK, WritesAgeInTime
  <1> QED
    BY <1>8, <1>9, <1>12, <1>13, LookupStep

-----------------------------------------------------------------------------
\* A SETEX lands: as late as it may be, it is still within the limit.
LEMMA SetExStep ==
    ASSUME IInv, NEW w \in writes, SetEx(w)
    PROVE  IInv'
  <1> DEFINE e == [value |-> w.value, left |-> TtlOf(w.value), late |-> w.value # row /\ dels = 0]
  <1>1. w \in Write
    BY DEF IInv, TypeOK
  <1>2. w.value \in Rows /\ w.left \in Nat
    BY <1>1 DEF Write
  <1>3. age[w.value] \in Nat /\ age[w.value] + w.left <= 2 * MaxLag
    BY <1>2, AgeAssumption DEF IInv, TypeOK, WritesAgeInTime
  <1>4. /\ redis' = e /\ writes' = writes \ {w}
        /\ UNCHANGED <<kind, row, age, memo, lookup, dels, edits>>
    BY DEF SetEx
  <1>5. (w.value # row /\ dels = 0) \in BOOLEAN
    OBVIOUS
  <1>6. e \in Entry
    BY <1>2, <1>5, Durations DEF Entry
  <1>7. e.value = w.value /\ e.left = TtlOf(w.value) /\ (e.late <=> w.value # row /\ dels = 0)
    BY <1>5
  <1> HIDE DEF e
  <1>8. TypeOK'
    BY <1>4, <1>6 DEF IInv, TypeOK
  <1>9. RedisAgesInTime'
    BY <1>2, <1>3, <1>4, <1>7, Durations, TtlAssumption DEF RedisAgesInTime, Limit
  <1>10. InvalidationHolds' /\ DelsFollowEdits'
    BY <1>4, <1>7 DEF IInv, InvalidationHolds, DelsFollowEdits
  <1>11. RowIsYoung' /\ WritesAgeInTime' /\ MemoAgesInTime' /\ LookupsAgeInTime'
    BY <1>4 DEF IInv, RowIsYoung, WritesAgeInTime, MemoAgesInTime, LookupsAgeInTime, AgesInTime
  <1> QED
    BY <1>8, <1>9, <1>10, <1>11 DEF IInv

\* A step that changes the key's entry to none, or leaves no payload in it, or forgets
\* a write, and touches nothing else but the DELs that are due.
LEMMA ForgetStep ==
    ASSUME IInv, UNCHANGED <<kind, row, age, memo, lookup, edits>>,
           writes' \subseteq writes,
           \/ redis' = redis /\ dels' = dels
           \/ redis' = None /\ dels' \in 0 .. dels
           \/ redis' \in Entry /\ redis'.value = Corrupt /\ dels' = dels
    PROVE  IInv'
  <1>1. dels' \in 0 .. MaxEdits /\ DelsFollowEdits'
    BY TtlAssumption DEF IInv, TypeOK, DelsFollowEdits
  <1>2. TypeOK'
    BY <1>1 DEF IInv, TypeOK
  <1>3. RedisAgesInTime' /\ InvalidationHolds'
    BY ValuesAssumption DEF IInv, RedisAgesInTime, InvalidationHolds
  <1>4. RowIsYoung' /\ WritesAgeInTime' /\ MemoAgesInTime' /\ LookupsAgeInTime'
    BY DEF IInv, RowIsYoung, WritesAgeInTime, MemoAgesInTime, LookupsAgeInTime, AgesInTime
  <1> QED
    BY <1>1, <1>2, <1>3, <1>4 DEF IInv

\* A corrupt entry is nobody's row: no bound speaks of it.
LEMMA CorruptedStep ==
    ASSUME IInv, Corrupted
    PROVE  IInv'
  <1> DEFINE e == [value |-> Corrupt, left |-> 1, late |-> FALSE]
  <1>1. e \in Entry /\ e.value = Corrupt
    BY DEF Entry
  <1>2. redis' = e /\ UNCHANGED <<kind, row, age, memo, lookup, writes, dels, edits>>
    BY DEF Corrupted
  <1> HIDE DEF e
  <1> QED
    BY <1>1, <1>2, ForgetStep

\* A DEL empties Redis; the writes under way are what may outlive it.
LEMMA InvalidateStep ==
    ASSUME IInv, Invalidate
    PROVE  IInv'
  <1>1. redis' = None /\ UNCHANGED <<kind, row, age, memo, lookup, writes, edits>>
    BY DEF Invalidate, Del
  <1>2. dels' \in 0 .. dels
    BY TtlAssumption DEF IInv, TypeOK, Invalidate
  <1> QED
    BY <1>1, <1>2, ForgetStep

\* The memo loses an entry, and lookups are given up, with a process.
LEMMA ProcessStep ==
    ASSUME IInv, NEW p \in Processes, Evict(p) \/ Restart(p)
    PROVE  IInv'
  <1>1. /\ memo' = [memo EXCEPT ![p] = None]
        /\ UNCHANGED <<kind, row, age, redis, writes, dels, edits>>
    BY DEF Evict, Restart
  <1>2. memo' \in [Processes -> Memo \cup {None}]
    BY <1>1 DEF IInv, TypeOK
  <1>3. Idle \in Lookup /\ AgesInTime(Idle)'
    BY DEF Lookup, AgesInTime, Idle
  <1>4. /\ lookup' \in [Lookups -> Lookup]
        /\ \A r \in Lookups : lookup'[r] \in {Idle, lookup[r]}
    BY <1>3 DEF IInv, TypeOK, Evict, Restart
  <1>5. TypeOK'
    BY <1>1, <1>2, <1>4 DEF IInv, TypeOK
  <1>6. MemoAgesInTime'
    BY <1>1 DEF IInv, TypeOK, MemoAgesInTime
  <1>7. ASSUME NEW r \in Lookups PROVE AgesInTime(lookup[r])'
    BY <1>1, <1>3, <1>4 DEF IInv, LookupsAgeInTime, AgesInTime
  <1>8. RowIsYoung' /\ WritesAgeInTime' /\ RedisAgesInTime'
    BY <1>1 DEF IInv, RowIsYoung, WritesAgeInTime, RedisAgesInTime
  <1>9. InvalidationHolds' /\ DelsFollowEdits'
    BY <1>1 DEF IInv, InvalidationHolds, DelsFollowEdits
  <1> QED
    BY <1>5, <1>6, <1>7, <1>8, <1>9 DEF IInv, LookupsAgeInTime

\* An edit makes one value young, and no value old.
LEMMA EditStep ==
    ASSUME IInv, NEW v \in Rows, Edit(v)
    PROVE  IInv'
  <1>1. /\ row' = v /\ age' = [age EXCEPT ![v] = 0]
        /\ dels' = dels + 1 /\ edits' = edits + 1 /\ edits < MaxEdits
        /\ UNCHANGED <<kind, redis, memo, lookup, writes>>
    BY DEF Edit
  <1>2. dels \in Nat /\ edits \in Nat /\ dels <= edits
    BY DEF IInv, TypeOK, DelsFollowEdits
  <1>3. age' \in [Rows -> 0 .. MaxAge] /\ age'[v] = 0
    BY <1>1, AgeAssumption DEF IInv, TypeOK
  <1>4. \A u \in Rows : age'[u] \in Nat /\ age[u] \in Nat /\ age'[u] <= age[u]
    BY <1>1, <1>3, AgeAssumption DEF IInv, TypeOK
  <1>5. dels' \in 1 .. MaxEdits /\ edits' \in 0 .. MaxEdits /\ DelsFollowEdits'
    BY <1>1, <1>2, TtlAssumption DEF DelsFollowEdits
  <1>6. TypeOK'
    BY <1>1, <1>3, <1>5 DEF IInv, TypeOK
  <1>7. RowIsYoung' /\ InvalidationHolds'
    BY <1>1, <1>3, <1>5 DEF RowIsYoung, InvalidationHolds
  <1>8. WritesAgeInTime'
    <2> SUFFICES ASSUME NEW w \in writes PROVE age'[w.value] + w.left <= 2 * MaxLag
      BY <1>1 DEF WritesAgeInTime
    <2>1. w.value \in Rows /\ w.left \in Nat
      BY DEF IInv, TypeOK, Write
    <2>2. age[w.value] + w.left <= 2 * MaxLag
      BY DEF IInv, WritesAgeInTime
    <2> QED
      BY <1>4, <2>1, <2>2, TtlAssumption
  <1>9. RedisAgesInTime'
    <2> SUFFICES ASSUME redis # None, redis.value \in Rows
                 PROVE  redis.left > 0 /\ age'[redis.value] + redis.left <= Limit(redis.value)
      BY <1>1 DEF RedisAgesInTime
    <2>1. redis.left \in Nat
      BY DEF IInv, TypeOK, Entry
    <2>2. redis.left > 0 /\ age[redis.value] + redis.left <= Limit(redis.value)
      BY DEF IInv, RedisAgesInTime
    <2> QED
      BY <1>4, <2>1, <2>2, Durations
  <1>10. MemoAgesInTime'
    <2> SUFFICES ASSUME NEW p \in Processes, memo[p] # None
                 PROVE  /\ kind = "handle"
                        /\ age'[memo[p].value] + memo[p].left
                              < Limit(memo[p].value) + Patience + MemoTtl
      BY <1>1 DEF MemoAgesInTime
    <2>1. memo[p] \in Memo
      BY DEF IInv, TypeOK
    <2>2. memo[p].value \in Rows /\ memo[p].left \in Nat
      BY <2>1 DEF Memo
    <2>3. kind = "handle" /\ age[memo[p].value] + memo[p].left
                                < Limit(memo[p].value) + Patience + MemoTtl
      BY DEF IInv, MemoAgesInTime
    <2> QED
      BY <1>4, <2>2, <2>3, Durations, TtlAssumption
  <1>11. LookupsAgeInTime'
    <2> SUFFICES ASSUME NEW r \in Lookups PROVE AgesInTime(lookup[r])'
      BY <1>1 DEF LookupsAgeInTime
    <2> DEFINE l == lookup[r]
    <2>1. l \in Lookup /\ AgesInTime(l)
      BY DEF IInv, TypeOK, LookupsAgeInTime
    <2>2. l' = l
      BY <1>1
    <2>3. ASSUME l.stage = "row" PROVE age'[l.value] + l.left <= MaxLag
      BY <1>4, <2>1, <2>3, Stages, TtlAssumption DEF AgesInTime
    <2>4. ASSUME l.stage = "reply", l.value # None
          PROVE  age'[l.value] + l.left < Limit(l.value) + Patience
      <3>1. l.value \in Rows /\ l.left \in Nat
        BY <2>1, <2>4, Stages
      <3> QED
        BY <1>4, <2>1, <2>4, <3>1, Durations, TtlAssumption DEF AgesInTime
    <2> QED
      BY <1>1, <2>1, <2>2, <2>3, <2>4 DEF AgesInTime
  <1> QED
    BY <1>5, <1>6, <1>7, <1>8, <1>9, <1>10, <1>11 DEF IInv

-----------------------------------------------------------------------------
\* A tick makes every value a tick older at most, and takes a tick from all that is under
\* way or cached.
LEMMA TickStep ==
    ASSUME IInv, Tick
    PROVE  IInv'
  <1>1. /\ UNCHANGED <<kind, row, dels, edits>>
        /\ redis' = Older(redis)
        /\ memo' = [p \in Processes |-> Older(memo[p])]
        /\ writes' = {[w EXCEPT !.left = @ - 1] : w \in writes}
        /\ lookup' = [r \in Lookups |->
                        IF Waits(r) THEN [lookup[r] EXCEPT !.left = @ - 1] ELSE lookup[r]]
    BY DEF Tick
  <1>2. age' \in [Rows -> 0 .. MaxAge]
    BY AgeAssumption DEF Tick, IInv, TypeOK
  <1>3. \A u \in Rows : age'[u] \in Nat /\ age[u] \in Nat /\ age'[u] <= age[u] + 1
    BY <1>2, AgeAssumption DEF Tick, IInv, TypeOK
  <1>4. RowIsYoung'
    BY <1>1 DEF Tick, IInv, TypeOK, RowIsYoung
  <1>5. writes' \subseteq Write /\ WritesAgeInTime'
    <2> SUFFICES ASSUME NEW w \in writes
                 PROVE  LET x == [w EXCEPT !.left = @ - 1]
                        IN  x \in Write /\ age'[x.value] + x.left <= 2 * MaxLag
      BY <1>1 DEF WritesAgeInTime
    <2> DEFINE x == [w EXCEPT !.left = @ - 1]
    <2>1. w \in Write /\ w.left > 0 /\ age[w.value] + w.left <= 2 * MaxLag
      BY DEF IInv, TypeOK, Tick, WritesAgeInTime
    <2>2. w.value \in Rows /\ w.left \in Nat
      BY <2>1 DEF Write
    <2>3. x \in Write /\ x.value = w.value /\ x.left = w.left - 1
      BY <2>1 DEF Write
    <2> QED
      BY <1>3, <2>1, <2>2, <2>3, TtlAssumption
  <1>6. /\ redis' = None \/ redis' \in Entry
        /\ RedisAgesInTime'
        /\ InvalidationHolds'
    <2>1. CASE redis' = None
      BY <2>1 DEF RedisAgesInTime, InvalidationHolds
    <2>2. CASE redis' # None
      <3>1. redis # None /\ redis' = [redis EXCEPT !.left = @ - 1] /\ ~(redis.left <= 1)
        BY <1>1, <2>2 DEF Older
      <3>2. redis \in Entry
        BY <3>1 DEF IInv, TypeOK
      <3>3. /\ redis' \in Entry /\ redis'.value = redis.value
            /\ redis'.left = redis.left - 1 /\ redis'.late = redis.late
        BY <3>1, <3>2 DEF Entry
      <3>4. InvalidationHolds'
        BY <1>1, <3>1, <3>3 DEF IInv, InvalidationHolds
      <3>5. ASSUME redis.value \in Rows
            PROVE  redis'.left > 0 /\ age'[redis.value] + redis'.left <= Limit(redis.value)
        <4>1. redis.left \in Nat
          BY <3>2 DEF Entry
        <4>2. age[redis.value] + redis.left <= Limit(redis.value)
          BY <3>1, <3>5 DEF IInv, RedisAgesInTime
        <4> QED
          BY <1>3, <3>1, <3>3, <3>5, <4>1, <4>2, Durations
      <3>6. RedisAgesInTime'
        BY <3>3, <3>5 DEF RedisAgesInTime, Limit
      <3> QED
        BY <3>3, <3>4, <3>6
    <2> QED
      BY <2>1, <2>2
  <1>7. memo' \in [Processes -> Memo \cup {None}] /\ MemoAgesInTime'
    <2> SUFFICES ASSUME NEW p \in Processes, memo'[p] # None
                 PROVE  /\ memo'[p] \in Memo
                        /\ kind = "handle"
                        /\ age'[memo'[p].value] + memo'[p].left
                              < Limit(memo'[p].value) + Patience + MemoTtl
      <3>1. MemoAgesInTime'
        BY <1>1 DEF MemoAgesInTime, Limit, TtlOf
      <3>2. \A p \in Processes : memo'[p] \in Memo \cup {None}
        OBVIOUS
      <3> QED
        BY <1>1, <3>1, <3>2
    <2> DEFINE m == memo[p]
               n == memo'[p]
    <2>1. m # None /\ n = [m EXCEPT !.left = @ - 1] /\ ~(m.left <= 1)
      BY <1>1 DEF Older
    <2>2. m \in Memo
      BY <2>1 DEF IInv, TypeOK
    <2>3. m.value \in Rows /\ m.left \in Nat
      BY <2>2 DEF Memo
    <2>4. kind = "handle" /\ age[m.value] + m.left < Limit(m.value) + Patience + MemoTtl
      BY <2>1 DEF IInv, MemoAgesInTime
    <2>5. n \in Memo /\ n.value = m.value /\ n.left = m.left - 1
      BY <2>1, <2>2, <2>3 DEF Memo
    <2> HIDE DEF m, n
    <2>6. age'[n.value] + n.left < Limit(n.value) + Patience + MemoTtl
      BY <1>3, <2>3, <2>4, <2>5, Durations, TtlAssumption
    <2> QED
      BY <2>4, <2>5, <2>6 DEF n
  <1>8. lookup' \in [Lookups -> Lookup] /\ LookupsAgeInTime'
    <2> SUFFICES ASSUME NEW r \in Lookups
                 PROVE  lookup'[r] \in Lookup /\ AgesInTime(lookup[r])'
      BY <1>1 DEF LookupsAgeInTime
    <2> DEFINE l == lookup[r]
               k == lookup'[r]
    <2>1. l \in Lookup /\ AgesInTime(l)
      BY DEF IInv, TypeOK, LookupsAgeInTime
    <2>2. CASE l.stage = "row"
      <3>1. k = [l EXCEPT !.left = @ - 1] /\ l.left > 0
        BY <1>1, <2>2 DEF Waits, Tick
      <3>2. l \in [stage : {"row"}, at : Processes, value : Rows, left : Nat]
        BY <2>1, <2>2, Stages
      <3>3. /\ k \in [stage : {"row"}, at : Processes, value : Rows, left : Nat]
            /\ k.value = l.value /\ k.left = l.left - 1 /\ k.stage = "row"
        BY <3>1, <3>2
      <3>4. age[l.value] + l.left <= MaxLag
        BY <2>1, <2>2 DEF AgesInTime
      <3>5. age'[k.value] + k.left <= MaxLag
        BY <1>3, <3>1, <3>2, <3>3, <3>4, TtlAssumption
      <3> QED
        BY <3>3, <3>5 DEF AgesInTime, Lookup
    <2>3. CASE l.stage = "reply"
      <3>1. k = [l EXCEPT !.left = @ - 1] /\ l.left > 0
        BY <1>1, <2>3 DEF Waits, Tick
      <3>2. l \in [stage : {"reply"}, at : Processes, value : Rows \cup {None}, left : Nat]
        BY <2>1, <2>3, Stages
      <3>3. /\ k \in [stage : {"reply"}, at : Processes, value : Rows \cup {None}, left : Nat]
            /\ k.value = l.value /\ k.left = l.left - 1 /\ k.stage = "reply"
        BY <3>1, <3>2
      <3>4. ASSUME l.value # None PROVE age'[k.value] + k.left < Limit(k.value) + Patience
        <4>1. age[l.value] + l.left < Limit(l.value) + Patience /\ l.value \in Rows
          BY <2>1, <2>3, <3>2, <3>4 DEF AgesInTime
        <4> QED
          BY <1>3, <3>1, <3>2, <3>3, <4>1, Durations, TtlAssumption
      <3> QED
        BY <3>3, <3>4 DEF AgesInTime, Lookup, Limit
    <2>4. CASE l.stage \notin {"row", "reply"}
      <3>1. k = l
        BY <1>1, <2>4 DEF Waits
      <3> QED
        BY <1>1, <2>1, <2>4, <3>1 DEF AgesInTime
    <2> QED
      BY <2>2, <2>3, <2>4
  <1>9. TypeOK' /\ DelsFollowEdits'
    BY <1>1, <1>2, <1>5, <1>6, <1>7, <1>8 DEF IInv, TypeOK, DelsFollowEdits
  <1> QED
    BY <1>4, <1>5, <1>6, <1>7, <1>8, <1>9 DEF IInv

-----------------------------------------------------------------------------
\* Every step keeps the invariant.
LEMMA Inductive == IInv /\ [Next]_vars => IInv'
  <1> SUFFICES ASSUME IInv, [Next]_vars PROVE IInv'
    OBVIOUS
  <1>1. CASE \E r \in Lookups : Step(r)
    <2> PICK r \in Lookups : Step(r)
      BY <1>1
    <2> QED
      BY BeginStep, GetStep, HitStep, MissStep, ReadRowStep, RowArrivesStep, EndStep
         DEF Step, Progress
  <1>2. CASE \E w \in writes : SetEx(w) \/ SetExFails(w)
    <2> PICK w \in writes : SetEx(w) \/ SetExFails(w)
      BY <1>2
    <2>1. CASE SetExFails(w)
      BY <2>1, ForgetStep DEF SetExFails
    <2> QED
      BY <2>1, SetExStep
  <1>3. CASE \E p \in Processes : Evict(p) \/ Restart(p)
    BY <1>3, ProcessStep
  <1>4. CASE \E v \in Rows : Edit(v)
    BY <1>4, EditStep
  <1>5. CASE RedisForgets
    <2>1. dels \in 0 .. dels
      BY DEF IInv, TypeOK
    <2> QED
      BY <1>5, <2>1, ForgetStep DEF RedisForgets
  <1>6. CASE Corrupted
    BY <1>6, CorruptedStep
  <1>7. CASE Invalidate
    BY <1>7, InvalidateStep
  <1>8. CASE Tick
    BY <1>8, TickStep
  <1>9. CASE UNCHANGED vars
    BY <1>9 DEF vars, IInv, TypeOK, RowIsYoung, WritesAgeInTime, RedisAgesInTime,
                MemoAgesInTime, LookupsAgeInTime, AgesInTime, InvalidationHolds, DelsFollowEdits
  <1> QED
    BY <1>1, <1>2, <1>3, <1>4, <1>5, <1>6, <1>7, <1>8, <1>9 DEF Next

-----------------------------------------------------------------------------
\* The inductive invariant holds, whatever races, expires, fails or restarts.
THEOREM Invariance == Spec => []IInv
  BY InitIInv, Inductive, PTL DEF Spec

\* Every variable of the ladder has its type.
THEOREM TypeCorrect == Spec => []TypeOK
  <1>1. IInv => TypeOK
    BY DEF IInv
  <1> QED
    BY <1>1, Invariance, PTL

\* Neither resolveTenant nor resolveLink returns a value older than the sum of its tiers.
THEOREM NothingStaleIsServed == Spec => []ServedFresh
  <1>1. IInv => ServedFresh
    BY DEF IInv, LookupsAgeInTime, AgesInTime, ServedFresh
  <1> QED
    BY <1>1, Invariance, PTL

\* After its invalidations, Redis holds history only from a write that was under way.
THEOREM OnlyLateWritesSurvive == Spec => []InvalidationHolds
  <1>1. IInv => InvalidationHolds
    BY DEF IInv
  <1> QED
    BY <1>1, Invariance, PTL
=============================================================================
