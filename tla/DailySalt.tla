------------------------------ MODULE DailySalt ------------------------------
(***************************************************************************)
(* The salt of the day's visitor hashes (redis/salt.ts), fetched by        *)
(* several api processes: SET NX and GET on one Redis key a day, a memo of *)
(* the pending promises, a salt of the process's own when Redis fails.     *)
(*                                                                         *)
(* Every process has its own UTC date; two clocks differ by a day at most. *)
(* No command is under way for as long as the key's 48 hours.              *)
(***************************************************************************)
EXTENDS Integers, Sequences, FiniteSets

CONSTANTS
    Instances,   \* api processes
    MaxDay,      \* bound: the last day
    MemoSize     \* SALT_MEMO_MAX_ENTRIES

Days == 0 .. MaxDay

ASSUME SaltAssumption == MaxDay \in Nat /\ MemoSize \in Nat \ {0}

VARIABLES
    today,      \* the UTC date of each process
    memo,       \* the dates each process has a promise for, oldest first
    fetch,      \* those promises
    stored,     \* the salt of each date in Redis, 0 for none
    forgotten,  \* dates whose salt Redis lost before its time
    minted      \* how many salts were ever drawn

saltVars == <<today, memo, fetch, stored, forgotten, minted>>

Unfetched == [stage |-> "none", key |-> 0, salt |-> 0, shared |-> FALSE]

SaltTypeOK ==
    /\ today \in [Instances -> Days]
    /\ minted \in Nat
    /\ \A p \in Instances :
          /\ Len(memo[p]) <= MemoSize
          /\ \A i \in DOMAIN memo[p] : memo[p][i] \in Days
    /\ fetch \in [Instances -> [Days ->
                    [stage : {"none", "setting", "getting", "settled"}, key : Days,
                     salt : 0 .. minted, shared : BOOLEAN]]]
    /\ stored \in [Days -> 0 .. minted]
    /\ forgotten \subseteq Days

SaltInit ==
    /\ today = [p \in Instances |-> 0]
    /\ memo = [p \in Instances |-> <<>>]
    /\ fetch = [p \in Instances |-> [d \in Days |-> Unfetched]]
    /\ stored = [d \in Days |-> 0]
    /\ forgotten = {}
    /\ minted = 0

-----------------------------------------------------------------------------
\* Bug: one promise for the life of the process.
MemoKeyOnce(date) == 0

\* formatUtcDate(now) is the memo's key.
MemoKey(date) == date

\* Bug: the memo only grows.
RememberSaltAll(promises, date) == Append(promises, date)

\* rememberSalt: first in, first out.
RememberSalt(promises, date) ==
    Append(IF Len(promises) >= MemoSize THEN Tail(promises) ELSE promises, date)

Memoized(p, date) == \E i \in DOMAIN memo[p] : memo[p][i] = date

\* getDailySalt: the date's promise, or a new one, remembered while it is pending.
\* The caller waits for fetch[p][MemoKey(today[p])].
GetDailySalt(p) ==
    LET key == MemoKey(today[p])
    IN  IF Memoized(p, key)
        THEN UNCHANGED <<memo, fetch, minted>>
        ELSE /\ memo' = [memo EXCEPT ![p] = RememberSalt(@, key)]
             /\ fetch' = [fetch EXCEPT ![p][key] =
                            [stage |-> "setting", key |-> today[p], salt |-> minted + 1,
                             shared |-> FALSE]]
             /\ minted' = minted + 1

\* Bug: SET without NX.
SetAlways(old, candidate) == candidate

\* SET key candidate EX 172800 NX.
SetNx(old, candidate) == IF old = 0 THEN candidate ELSE old

SetSalt(p, d) ==
    /\ fetch[p][d].stage = "setting"
    /\ stored' = [stored EXCEPT ![fetch[p][d].key] = SetNx(@, fetch[p][d].salt)]
    /\ fetch' = [fetch EXCEPT ![p][d].stage = "getting"]
    /\ UNCHANGED <<today, memo, forgotten, minted>>

\* The GET answers with whatever salt won.
GetSalt(p, d) ==
    /\ fetch[p][d].stage = "getting"
    /\ stored[fetch[p][d].key] # 0
    /\ fetch' = [fetch EXCEPT ![p][d] = [@ EXCEPT !.stage = "settled", !.shared = TRUE,
                                                  !.salt = stored[fetch[p][d].key]]]
    /\ UNCHANGED <<today, memo, stored, forgotten, minted>>

\* SET or GET fails, or the GET finds nothing: the candidate serves for the day.
FallBack(p, d) ==
    /\ fetch[p][d].stage \in {"setting", "getting"}
    /\ fetch' = [fetch EXCEPT ![p][d].stage = "settled"]
    /\ UNCHANGED <<today, memo, stored, forgotten, minted>>

\* A new process starts with an empty memo.
SaltRestart(p) ==
    /\ memo' = [memo EXCEPT ![p] = <<>>]
    /\ fetch' = [fetch EXCEPT ![p] = [d \in Days |-> Unfetched]]
    /\ UNCHANGED <<today, stored, forgotten, minted>>

-----------------------------------------------------------------------------
\* Midnight on one process's clock.
Midnight(p) ==
    /\ today[p] < MaxDay
    /\ \A q \in Instances : today[p] <= today[q]
    /\ today' = [today EXCEPT ![p] = @ + 1]
    /\ UNCHANGED <<memo, fetch, stored, forgotten, minted>>

\* The key's 48 hours are over: its day is over everywhere, and its commands are.
Expire(d) ==
    /\ stored[d] # 0
    /\ \A p \in Instances :
          /\ today[p] > d
          /\ \A e \in Days :
                fetch[p][e].key = d => fetch[p][e].stage \notin {"setting", "getting"}
    /\ stored' = [stored EXCEPT ![d] = 0]
    /\ UNCHANGED <<today, memo, fetch, forgotten, minted>>

\* Redis restarts empty.
RedisForgets(d) ==
    /\ stored[d] # 0
    /\ stored' = [stored EXCEPT ![d] = 0]
    /\ forgotten' = forgotten \cup {d}
    /\ UNCHANGED <<today, memo, fetch, minted>>

SaltStep ==
    \/ \E p \in Instances : Midnight(p)
    \/ \E p \in Instances, d \in Days : SetSalt(p, d) \/ GetSalt(p, d) \/ FallBack(p, d)
    \/ \E d \in Days : Expire(d) \/ RedisForgets(d)
=============================================================================
