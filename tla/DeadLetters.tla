----------------------------- MODULE DeadLetters ------------------------------
(***************************************************************************)
(* DlqService (consumer/dlq.service.ts): what send() writes to the         *)
(* dead-letter queue, and the throttled sweep that takes aged entries out  *)
(* of a queue that nobody drains.                                          *)
(***************************************************************************)
EXTENDS Integers, FiniteSets, Redaction

CONSTANTS
    Sends,         \* the calls of send()
    PayloadOf,     \* what each sends, a value of the heap
    Retention,     \* DLQ_RETENTION_WINDOW_MS
    CleanLimit,    \* DLQ_RETENTION_CLEAN_LIMIT
    Throttle,      \* DLQ_CLEAN_THROTTLE_MS
    MaxTime        \* bound: the end of time

ASSUME DlqAssumption ==
    /\ PayloadOf \in [Sends -> DOMAIN Heap]
    /\ Retention \in Nat /\ CleanLimit \in Nat \ {0} /\ Throttle \in Nat /\ MaxTime \in Nat

VARIABLES
    entries,     \* the queue: what is stored of each call that has an entry
    send,        \* the calls
    now,
    lastClean    \* lastCleanAttemptAtMs, of the one worker

dlqVars == <<entries, send, now, lastClean>>

\* A process that has just started: its first send() attempts a sweep, whatever the time.
NeverCleaned == -Throttle

\* at is when the entry was written.
DlqInit ==
    /\ entries = [s \in {} |-> 0]
    /\ send = [s \in Sends |-> [stage |-> "idle", at |-> 0]]
    /\ now = 0
    /\ lastClean = NeverCleaned

-----------------------------------------------------------------------------
\* The queue with one more entry.
Written(s) == [t \in DOMAIN entries \cup {s} |->
                  IF t = s THEN RedactForbiddenKeys(PayloadOf[s]) ELSE entries[t]]

\* send(): the entry is built and added.
SendAdds(s) ==
    /\ send[s].stage = "idle"
    /\ entries' = Written(s)
    /\ send' = [send EXCEPT ![s] = [stage |-> "added", at |-> now]]
    /\ UNCHANGED <<now, lastClean>>

\* The add fails, or its answer is lost: the caller is rejected before any sweep.
SendRejects(s) ==
    /\ send[s].stage = "idle"
    /\ entries' \in {entries, Written(s)}
    /\ send' = [send EXCEPT ![s] = [stage |-> "rejected", at |-> now]]
    /\ UNCHANGED <<now, lastClean>>

\* cleanAgedEntriesThrottled: an attempt counts from when it is made, before its answer.
Throttled == now - lastClean < Throttle

BeginsSweep(s) ==
    /\ send[s].stage = "added"
    /\ IF Throttled THEN send' = [send EXCEPT ![s].stage = "resolved"] /\ UNCHANGED lastClean
                    ELSE send' = [send EXCEPT ![s].stage = "cleans"] /\ lastClean' = now
    /\ UNCHANGED <<entries, now>>

\* Bug: the sweep is given the throttle for the retention window.
AgedByThrottle(t) == now - send[t].at >= Throttle

Aged(t) == now - send[t].at >= Retention

\* clean(): no more than the limit of the aged entries.
Sweeps(s) ==
    LET aged == {t \in DOMAIN entries : Aged(t)}
    IN  /\ send[s].stage = "cleans"
        /\ \E gone \in SUBSET aged :
              /\ Cardinality(gone) = (IF Cardinality(aged) < CleanLimit THEN Cardinality(aged)
                                                                     ELSE CleanLimit)
              /\ entries' = [t \in DOMAIN entries \ gone |-> entries[t]]
        /\ send' = [send EXCEPT ![s].stage = "resolved"]
        /\ UNCHANGED <<now, lastClean>>

\* A sweep that fails is logged; what was written counts.
SweepFails(s) ==
    /\ send[s].stage = "cleans"
    /\ send' = [send EXCEPT ![s].stage = "resolved"]
    /\ UNCHANGED <<entries, now, lastClean>>

\* The worker restarts: its calls are gone, and its throttle.
DlqRestart ==
    /\ lastClean' = NeverCleaned
    /\ send' = [s \in Sends |-> IF send[s].stage \in {"added", "cleans"}
                                THEN [send[s] EXCEPT !.stage = "lost"] ELSE send[s]]
    /\ <<send', lastClean'>> # <<send, lastClean>>
    /\ UNCHANGED <<entries, now>>

TimePasses ==
    /\ now < MaxTime
    /\ now' = now + 1
    /\ UNCHANGED <<entries, send, lastClean>>

DlqNext ==
    \/ \E s \in Sends : \/ SendAdds(s) \/ SendRejects(s)
                        \/ BeginsSweep(s) \/ Sweeps(s) \/ SweepFails(s)
    \/ DlqRestart \/ TimePasses

DlqSpec == DlqInit /\ [][DlqNext]_dlqVars

-----------------------------------------------------------------------------
\* No value of a forbidden key is in the queue, at whatever depth, by whichever of two
\* ways it was reached and however its key was spelled: where the path of an end passes
\* such a key, it ends, with the placeholder.  Every forbidden key that the depth limit
\* lets one see is named, one that is under another excepted, and nothing else is.
NoForbiddenValueStored ==
    \A s \in DOMAIN entries :
        /\ \A end \in entries[s].value : \A i \in DOMAIN end.path :
              Lower[end.path[i]] \in Forbidden => i = Len(end.path) /\ end.is = "redacted"
        /\ \A path \in ForbiddenPaths[Payload(PayloadOf[s])] :
              \E n \in DOMAIN path : SubSeq(path, 1, n) \in entries[s].redactedKeys
        /\ entries[s].redactedKeys \subseteq ForbiddenPaths[Payload(PayloadOf[s])]

\* What send() has resolved for stays in the queue for the whole retention window, whatever
\* sweeps, fails or restarts; it is all that is left of a malformed event.
KeptForTheWindow ==
    \A s \in Sends :
        send[s].stage = "resolved" => s \in DOMAIN entries \/ now - send[s].at >= Retention
=============================================================================
