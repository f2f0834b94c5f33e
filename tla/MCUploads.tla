----------------------------- MODULE MCUploads -----------------------------
(***************************************************************************)
(* Small instances of Uploads for TLC.                                     *)
(***************************************************************************)
EXTENDS Uploads, TLC

CONSTANTS m, p, r1, r2, r3

RequestSymmetry == Permutations(Requests)
=============================================================================
