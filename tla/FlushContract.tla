----------------------------- MODULE FlushContract -----------------------------
(***************************************************************************)
(* What the worker's intake relies on of a flush, and all that             *)
(* EventsConsumer models of it: a call stores events of its batch, in the  *)
(* log and in Postgres, or dead-letters them, a few at a time; it resolves *)
(* only once it has done either with every one of them; and whatever was   *)
(* secured before it failed or died stays secured.                         *)
(***************************************************************************)
CONSTANTS
    Calls,   \* calls of the flush
    Events   \* events a call may be given

VARIABLES
    outcome,  \* what has become of each call
    taken,    \* the events each call was given
    stored,   \* events in R2 and in Postgres
    parked    \* the calls' dead letters: <<call, event>>

vars == <<outcome, taken, stored, parked>>

Init ==
    /\ outcome = [c \in Calls |-> "idle"]
    /\ taken = [c \in Calls |-> {}]
    /\ stored = {}
    /\ parked = {}

Take(c) ==
    /\ outcome[c] = "idle"
    /\ outcome' = [outcome EXCEPT ![c] = "running"]
    /\ \E S \in (SUBSET Events) \ {{}} : taken' = [taken EXCEPT ![c] = S]
    /\ UNCHANGED <<stored, parked>>

\* A running call secures some of its own events, and none is lost again.
Secures(c) ==
    /\ outcome[c] = "running"
    /\ stored \subseteq stored' /\ stored' \subseteq stored \cup taken[c]
    /\ parked \subseteq parked' /\ parked' \subseteq parked \cup ({c} \X taken[c])
    /\ UNCHANGED taken

GoesOn(c) == Secures(c) /\ UNCHANGED outcome

\* It rejects, or its process dies, perhaps with a last event secured.
GivesUp(c) ==
    /\ Secures(c)
    /\ \E how \in {"rejected", "killed"} : outcome' = [outcome EXCEPT ![c] = how]

Resolve(c) ==
    /\ outcome[c] = "running"
    /\ \A e \in taken[c] : e \in stored \/ <<c, e>> \in parked
    /\ outcome' = [outcome EXCEPT ![c] = "resolved"]
    /\ UNCHANGED <<taken, stored, parked>>

Next == \E c \in Calls : Take(c) \/ GoesOn(c) \/ GivesUp(c) \/ Resolve(c)

Spec == Init /\ [][Next]_vars
================================================================================
