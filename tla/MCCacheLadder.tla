---------------------------- MODULE MCCacheLadder ----------------------------
(***************************************************************************)
(* CacheLadder on a small instance.                                        *)
(***************************************************************************)
EXTENDS CacheLadder

CONSTANTS p1, p2, r1, r2, v1, v2
=============================================================================
