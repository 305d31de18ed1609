----------------------------- MODULE CacheLadder -----------------------------
(***************************************************************************)
(* How the redirect path resolves a handle to its tenant                   *)
(* (redirect/resolve-tenant.ts) and a slug to its link                     *)
(* (redirect/resolve-link.ts): one cache key, the row behind it, and the   *)
(* lookups of several api processes.                                       *)
(*                                                                         *)
(* A handle is looked up in the process's memo, then in Redis, then in     *)
(* Postgres; a link in Redis, then in Postgres.  What Postgres answers,    *)
(* "there is no such row" included, is written back by a SETEX nobody      *)
(* awaits, so the write may land long after the row was read, in           *)
(* particular after the row was edited and the key deleted                 *)
(* (redis/invalidate.ts).  Entries of different keys share nothing but the *)
(* memo's capacity, so the other keys appear only as evictions.            *)
(*                                                                         *)
(* Time is counted in ticks and kept relative: an entry has ticks left,    *)
(* a value has an age.                                                     *)
(***************************************************************************)
EXTENDS Integers

CONSTANTS
    Processes,     \* api processes
    Lookups,       \* slots for lookups in progress
    Values,        \* what a row may hold: tenant ids, or destinations
    Absent,        \* no such row; cached, it is the tombstone
    Corrupt,       \* a cached payload that parseCachedLink refuses
    None,          \* no entry
    PositiveTtl,   \* HANDLE_CACHE_TTL_SECONDS, LINK_CACHE_TTL_SECONDS
    TombstoneTtl,  \* NEGATIVE_CACHE_TTL_SECONDS, LINK_TOMBSTONE_TTL_SECONDS
    MemoTtl,       \* MEMO_TTL_MS
    Patience,      \* REDIS_LOOKUP_TIMEOUT_MS
    MaxLag,        \* the longest a row or a SETEX is under way; the code has no such limit
    MaxAge,        \* ages are counted up to here
    MaxEdits       \* bound: edits of the row

Rows == Values \cup {Absent}

TtlOf(v) == IF v = Absent THEN TombstoneTtl ELSE PositiveTtl

\* The oldest a value can be when a lookup returns it.
Staleness(kind, v) ==
    TtlOf(v) + 2 * MaxLag + Patience + (IF kind = "handle" THEN MemoTtl ELSE 0)

ASSUME ValuesAssumption ==
    /\ Absent \notin Values
    /\ Corrupt \notin Rows
    /\ None \notin Rows \cup {Corrupt}
ASSUME TtlAssumption ==
    /\ PositiveTtl \in Nat \ {0} /\ TombstoneTtl \in Nat \ {0} /\ MemoTtl \in Nat \ {0}
    /\ Patience \in Nat /\ MaxLag \in Nat /\ MaxEdits \in Nat
ASSUME AgeAssumption ==
    MaxAge \in Nat /\ \A k \in {"handle", "link"}, v \in Rows : Staleness(k, v) < MaxAge

VARIABLES
    kind,     \* which of the two ladders serves this key
    row,      \* the row in Postgres
    age,      \* ticks since each value was last the row's, at most MaxAge
    redis,    \* the entry in Redis
    memo,     \* each process's memo entry
    lookup,   \* the lookups in progress
    writes,   \* SETEXes under way
    dels,     \* edits whose invalidation has not run yet
    edits     \* counter of the bound above

vars == <<kind, row, age, redis, memo, lookup, writes, dels, edits>>

-----------------------------------------------------------------------------
\* A memo or Redis entry, and a write under way, with the ticks each has left.  An
\* entry is late if it was written when its value was history and no DEL was due.
Entry == [value : Rows \cup {Corrupt}, left : Nat, late : BOOLEAN]
Memo == [value : Rows, left : Nat]
Write == [value : Rows, left : Nat]
Idle == [stage |-> "idle"]

Lookup ==
    {Idle}
    \cup [stage : {"asked", "query"}, at : Processes]
    \cup [stage : {"reply"}, at : Processes, value : Rows \cup {None}, left : Nat]
    \cup [stage : {"row"}, at : Processes, value : Rows, left : Nat]
    \cup [stage : {"done"}, at : Processes, value : Rows, stale : Nat]

TypeOK ==
    /\ kind \in {"handle", "link"}
    /\ row \in Rows
    /\ age \in [Rows -> 0 .. MaxAge]
    /\ redis = None \/ redis \in Entry
    /\ memo \in [Processes -> Memo \cup {None}]
    /\ lookup \in [Lookups -> Lookup]
    /\ writes \subseteq Write
    /\ dels \in 0 .. MaxEdits
    /\ edits \in 0 .. MaxEdits

Init ==
    /\ kind \in {"handle", "link"}
    /\ row \in Rows
    /\ age = [v \in Rows |-> 0]
    /\ redis = None
    /\ memo = [p \in Processes |-> None]
    /\ lookup = [r \in Lookups |-> Idle]
    /\ writes = {}
    /\ dels = 0
    /\ edits = 0

-----------------------------------------------------------------------------
(* The ladder. *)

Becomes(r, l) == lookup' = [lookup EXCEPT ![r] = l]

\* The lookup returns v; how long ago v was true is recorded with it.
Returns(r, v) ==
    Becomes(r, [stage |-> "done", at |-> lookup[r].at, value |-> v, stale |-> age[v]])

\* rememberInMemo: only the handle ladder has a memo.
Remember(p, v) ==
    memo' = IF kind = "handle"
            THEN [memo EXCEPT ![p] = [value |-> v, left |-> MemoTtl]]
            ELSE memo

\* The first step of resolveTenant and resolveLink: the memo answers at once, or the
\* GET is sent.
Begin(r, p) ==
    /\ lookup[r] = Idle
    /\ IF memo[p] # None
       THEN Becomes(r, [stage |-> "done", at |-> p, value |-> memo[p].value,
                        stale |-> age[memo[p].value]])
       ELSE Becomes(r, [stage |-> "asked", at |-> p])
    /\ UNCHANGED <<kind, row, age, redis, memo, writes, dels, edits>>

\* parseCachedLink: a payload that is no CachedLink is a miss.
Parsed == IF redis = None \/ redis.value = Corrupt THEN None ELSE redis.value

\* Redis executes the GET; its reply is under way.
Get(r) ==
    /\ lookup[r].stage = "asked"
    /\ Becomes(r, [stage |-> "reply", at |-> lookup[r].at, value |-> Parsed,
                   left |-> Patience])
    /\ UNCHANGED <<kind, row, age, redis, memo, writes, dels, edits>>

\* Bug: a hit is written back, as if it had come from Postgres.
RefreshesHit(v) == writes' = writes \cup {[value |-> v, left |-> MaxLag]}

\* "a cache HIT returns immediately ... no re-backfill".
KeepsHit(v) == writes' = writes

\* A hit, or the tombstone, ends the lookup; a handle is remembered.
Hit(r) ==
    /\ lookup[r].stage = "reply"
    /\ lookup[r].value # None
    /\ Returns(r, lookup[r].value)
    /\ Remember(lookup[r].at, lookup[r].value)
    /\ KeepsHit(lookup[r].value)
    /\ UNCHANGED <<kind, row, age, redis, dels, edits>>

\* A miss goes on to Postgres.
Miss(r) ==
    /\ lookup[r].stage = "reply"
    /\ lookup[r].value = None
    /\ Becomes(r, [stage |-> "query", at |-> lookup[r].at])
    /\ UNCHANGED <<kind, row, age, redis, memo, writes, dels, edits>>

\* Bug: a GET that hangs is waited for.
WaitsForRedis(r) == FALSE

\* withRedisTimeout gives up, and the catch takes a rejected GET: both are misses.
GiveUp(r) ==
    /\ lookup[r].stage \in {"asked", "reply"}
    /\ Becomes(r, [stage |-> "query", at |-> lookup[r].at])
    /\ UNCHANGED <<kind, row, age, redis, memo, writes, dels, edits>>

\* Postgres reads the row; the answer is under way.
ReadRow(r) ==
    /\ lookup[r].stage = "query"
    /\ Becomes(r, [stage |-> "row", at |-> lookup[r].at, value |-> row, left |-> MaxLag])
    /\ UNCHANGED <<kind, row, age, redis, memo, writes, dels, edits>>

\* Nothing catches a failed query: the lookup rejects, and nothing is cached.
QueryFails(r) ==
    /\ lookup[r].stage \in {"query", "row"}
    /\ Becomes(r, Idle)
    /\ UNCHANGED <<kind, row, age, redis, memo, writes, dels, edits>>

\* backfillHandleCache and its likes: the SETEX is sent, never awaited.
Send(v) == writes' = writes \cup {[value |-> v, left |-> MaxLag]}

\* A row is cached; "no such row" is cached too, for a shorter time.
Backfill(v) == v \in Values /\ Send(v)
Tombstone(v) == v = Absent /\ Send(v)

RowArrives(r) ==
    /\ lookup[r].stage = "row"
    /\ Returns(r, lookup[r].value)
    /\ Backfill(lookup[r].value) \/ Tombstone(lookup[r].value)
    /\ Remember(lookup[r].at, lookup[r].value)
    /\ UNCHANGED <<kind, row, age, redis, dels, edits>>

\* The request goes on with the answer.
Leave(r) ==
    /\ lookup[r].stage = "done"
    /\ Becomes(r, Idle)
    /\ UNCHANGED <<kind, row, age, redis, memo, writes, dels, edits>>

-----------------------------------------------------------------------------
(* Redis, the processes, and whoever edits the row. *)

\* Redis executes a SETEX, whatever the key held: an entry, a tombstone, or nothing.
SetEx(w) ==
    /\ redis' = [value |-> w.value, left |-> TtlOf(w.value),
                 late |-> w.value # row /\ dels = 0]
    /\ writes' = writes \ {w}
    /\ UNCHANGED <<kind, row, age, memo, lookup, dels, edits>>

\* A SETEX that fails is logged and forgotten.
SetExFails(w) ==
    /\ writes' = writes \ {w}
    /\ UNCHANGED <<kind, row, age, redis, memo, lookup, dels, edits>>

\* Redis restarts empty or evicts the key; another writer leaves a payload that is no
\* CachedLink.
RedisForgets ==
    /\ redis # None
    /\ redis' = None
    /\ UNCHANGED <<kind, row, age, memo, lookup, writes, dels, edits>>

Corrupted ==
    /\ kind = "link"
    /\ redis' = [value |-> Corrupt, left |-> 1, late |-> FALSE]
    /\ UNCHANGED <<kind, row, age, memo, lookup, writes, dels, edits>>

\* Other handles fill the memo, and rememberInMemo evicts this one.
Evict(p) ==
    /\ memo[p] # None
    /\ memo' = [memo EXCEPT ![p] = None]
    /\ UNCHANGED <<kind, row, age, redis, lookup, writes, dels, edits>>

\* A process restarts: its memo and its lookups are gone, its SETEXes may still land.
Restart(p) ==
    /\ memo' = [memo EXCEPT ![p] = None]
    /\ lookup' = [r \in Lookups |->
                    IF lookup[r] # Idle /\ lookup[r].at = p THEN Idle ELSE lookup[r]]
    /\ UNCHANGED <<kind, row, age, redis, writes, dels, edits>>

\* The row is created, edited, or deleted; the invalidation follows.
Edit(v) ==
    /\ edits < MaxEdits
    /\ v # row
    /\ row' = v
    /\ age' = [age EXCEPT ![v] = 0]
    /\ dels' = dels + 1
    /\ edits' = edits + 1
    /\ UNCHANGED <<kind, redis, memo, lookup, writes>>

\* Bug: the invalidation looks for a payload and leaves a tombstone alone.
DelPayload == IF redis # None /\ redis.value = Absent THEN redis ELSE None

\* DEL removes whatever is at the key.
Del == None

\* invalidateHandle, invalidateLink.
Invalidate ==
    /\ dels > 0
    /\ redis' = Del
    /\ dels' = dels - 1
    /\ UNCHANGED <<kind, row, age, memo, lookup, writes, edits>>

-----------------------------------------------------------------------------
(* Time. *)

\* SETEX and isExpired: an entry is gone when its time is up.
Older(e) == IF e = None \/ e.left <= 1 THEN None ELSE [e EXCEPT !.left = @ - 1]

Waits(r) == lookup[r].stage \in {"reply", "row"}

\* Nothing stays under way longer than it may.
Tick ==
    /\ \A r \in Lookups : Waits(r) => lookup[r].left > 0
    /\ \A w \in writes : w.left > 0
    /\ age' = [v \in Rows |->
                 IF v = row \/ age[v] = MaxAge THEN age[v] ELSE age[v] + 1]
    /\ redis' = Older(redis)
    /\ memo' = [p \in Processes |-> Older(memo[p])]
    /\ lookup' = [r \in Lookups |->
                    IF Waits(r) THEN [lookup[r] EXCEPT !.left = @ - 1] ELSE lookup[r]]
    /\ writes' = {[w EXCEPT !.left = @ - 1] : w \in writes}
    /\ UNCHANGED <<kind, row, dels, edits>>

-----------------------------------------------------------------------------
\* What a lookup that has begun does without help: its timer fires, Postgres answers.
Progress(r) == GiveUp(r) \/ ReadRow(r) \/ RowArrives(r)

Step(r) ==
    \/ \E p \in Processes : Begin(r, p)
    \/ Get(r) \/ Hit(r) \/ Miss(r) \/ QueryFails(r) \/ Leave(r)
    \/ Progress(r)

Next ==
    \/ \E r \in Lookups : Step(r)
    \/ \E w \in writes : SetEx(w) \/ SetExFails(w)
    \/ \E p \in Processes : Evict(p) \/ Restart(p)
    \/ \E v \in Rows : Edit(v)
    \/ RedisForgets \/ Corrupted \/ Invalidate
    \/ Tick

Spec == Init /\ [][Next]_vars /\ \A r \in Lookups : WF_vars(Progress(r))

-----------------------------------------------------------------------------
(* Properties. *)

\* A lookup never returns a value that stopped being the row's longer ago than the
\* tiers can add up to: a memo entry filled from a Redis entry about to expire, itself
\* written late from a row read before the edit.  "No such row" counts as a value, so
\* neither a tombstone nor a failed query hides a row for longer than that.
ServedFresh ==
    \A r \in Lookups :
        lookup[r].stage = "done" => lookup[r].stale < Staleness(kind, lookup[r].value)

\* Once the invalidation of every edit has run, Redis holds history only if a write
\* that was under way landed after the DEL: nothing else survives an invalidation.
InvalidationHolds ==
    dels = 0 /\ redis # None /\ redis.value \in Rows \ {row} => redis.late

\* A lookup ends, whatever Redis does: it answers, or fails with Postgres.
LookupsEnd ==
    \A r \in Lookups :
        lookup[r].stage \in {"asked", "reply", "query", "row"}
            ~> lookup[r].stage \in {"idle", "done"}
=============================================================================
