----------------------------- MODULE MCCleanup -----------------------------
(***************************************************************************)
(* Small instances of Cleanup for TLC.                                     *)
(***************************************************************************)
EXTENDS Cleanup, TLC

CONSTANTS m, n, p, r1, r2, c1, k1

RequestSymmetry == Permutations(Requests)
=============================================================================
