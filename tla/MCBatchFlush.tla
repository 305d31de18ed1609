----------------------------- MODULE MCBatchFlush -----------------------------
(***************************************************************************)
(* BatchFlush on small instances.                                          *)
(*                                                                         *)
(* One call, many events: the recursion goes three levels deep, with a     *)
(* poison row alone, among healthy ones, or in both halves, and an event   *)
(* that is in the batch twice.                                             *)
(*                                                                         *)
(* Two calls that overlap, as after a job's lock expired: the second batch *)
(* holds the healthy events of the first in another order.                 *)
(***************************************************************************)
EXTENDS BatchFlush, TLC

CONSTANTS e1, e2, e3, e4, e5

OneCallBatches ==
    {<<e1, e2, e3, e4, e5>>, <<e2, e4>>, <<e1, e3, e1>>, <<e2>>}

TwoCallsBatches == {<<e1, e2, e3>>, <<e3, e1>>}

\* The calls are interchangeable.  Only for a configuration without liveness.
CallSymmetry == Permutations(Calls)

=============================================================================
