---------------------------- MODULE Lexicographic ----------------------------
(***************************************************************************)
(* The order in which a procedure's place is measured to show that it      *)
(* ends: the first component in which two places differ decides.           *)
(***************************************************************************)
EXTENDS Integers

Before(s, t) ==
    \E k \in DOMAIN s : s[k] < t[k] /\ \A j \in 1 .. k - 1 : s[j] = t[j]

=============================================================================
