------------------------------- MODULE MCUpkeep -------------------------------
(***************************************************************************)
(* Database and DeadLetters on small instances.  They share no state, so   *)
(* that interleaving them shows nothing new: a behaviour is one of either. *)
(***************************************************************************)
EXTENDS Database, DeadLetters, TLC

VARIABLE part   \* which of the two goes on

Object(fields) == [kind |-> "object", fields |-> fields]
Array(fields) == [kind |-> "array", fields |-> fields]
Leaf == [kind |-> "leaf"]

\* "job" holds a cookie and, in an array and twice, "item", which holds an address, refers
\* back to "job", and leads to an address below the depth limit.
MCHeap ==
    [job     |-> Object([slug |-> "plain", Cookie |-> "secret", items |-> "items"]),
     items   |-> Array(("0" :> "item") @@ ("1" :> "item")),
     item    |-> Object([ip |-> "secret", self |-> "job", below |-> "below"]),
     below   |-> Object([IP |-> "secret"]),
     event   |-> Object([slug |-> "plain"]),
     batch   |-> Array(("0" :> "event") @@ ("1" :> "event")),
     plain   |-> Leaf,
     secret  |-> Leaf]

MCLower == ("Cookie" :> "cookie") @@ ("IP" :> "ip") @@
           [key \in {"slug", "items", "ip", "self", "below", "0", "1"} |-> key]

MCPayloadOf == [s \in Sends |-> IF s = "s1" THEN "job" ELSE IF s = "s2" THEN "below" ELSE "batch"]

Init == DbInit /\ DlqInit /\ part \in {"database", "deadLetters"}

Next ==
    /\ UNCHANGED part
    /\ \/ part = "database" /\ DbNext /\ UNCHANGED dlqVars
       \/ part = "deadLetters" /\ DlqNext /\ UNCHANGED dbVars

Spec == Init /\ [][Next]_<<dbVars, dlqVars, part>>

Symmetric == Permutations(Runners)
=============================================================================
