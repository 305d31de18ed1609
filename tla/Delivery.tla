------------------------------- MODULE Delivery -------------------------------
(***************************************************************************)
(* What the event pipeline promises for each captured event once the       *)
(* redirect has enqueued it: at-least-once delivery.  An event may be made *)
(* durable any number of times, and at any time; its job is acknowledged   *)
(* only after that, and a job that is given up is set apart, never         *)
(* dropped.                                                                *)
(***************************************************************************)
CONSTANT Jobs

VARIABLES
    accepted,  \* jobs the queue has taken
    durable,   \* jobs whose event is in R2 and Postgres or in the dead-letter queue
    acked,     \* jobs the worker has acknowledged
    parked     \* jobs in the failed set

vars == <<accepted, durable, acked, parked>>

Init == accepted = {} /\ durable = {} /\ acked = {} /\ parked = {}

Accept(j) ==
    /\ j \notin accepted
    /\ accepted' = accepted \cup {j}
    /\ UNCHANGED <<durable, acked, parked>>

Secure(j) ==
    /\ j \in accepted
    /\ durable' = durable \cup {j}
    /\ UNCHANGED <<accepted, acked, parked>>

Acknowledge(j) ==
    /\ j \in durable \ (acked \cup parked)
    /\ acked' = acked \cup {j}
    /\ UNCHANGED <<accepted, durable, parked>>

Park(j) ==
    /\ j \in accepted \ (acked \cup parked)
    /\ parked' = parked \cup {j}
    /\ UNCHANGED <<accepted, durable, acked>>

Next == \E j \in Jobs : Accept(j) \/ Secure(j) \/ Acknowledge(j) \/ Park(j)

Spec == Init /\ [][Next]_vars
=============================================================================
