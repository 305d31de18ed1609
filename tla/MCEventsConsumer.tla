--------------------------- MODULE MCEventsConsumer ---------------------------
(***************************************************************************)
(* EventsConsumer on small instances.                                      *)
(***************************************************************************)
EXTENDS EventsConsumer, TLC

CONSTANTS j1, j2, j3, w1, w2

WorkerSymmetry == Permutations(Workers)
=============================================================================
