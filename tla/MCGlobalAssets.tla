--------------------------- MODULE MCGlobalAssets ---------------------------
EXTENDS GlobalAssets, TLC

CONSTANTS a1, a2, f1, f2, p1, p2, m1, t1, t2

(* The first bucket holds other bytes under the key of f1.                 *)
Disturbed == {<<1, f1>>}

(* Every alias has a type of its own, so that two of them may declare the  *)
(* same file to be of different types, in one run or in two.               *)
OneEach == {(a1 :> t1 @@ a2 :> t2)}

AssetSymmetry ==
  Permutations(Publishers) \cup {(a1 :> a2 @@ a2 :> a1 @@ t1 :> t2 @@ t2 :> t1)}
=============================================================================
