------------------------------- MODULE MCLog -------------------------------
(***************************************************************************)
(* Model values and symmetry for model-checking Log.  The calls are        *)
(* interchangeable and so are the blocks.  Only a run that checks          *)
(* invariants uses the symmetry.                                           *)
(***************************************************************************)
EXTENDS Log, TLC

CONSTANTS b1, b2, b3, b4, b5, o1, o2, o3

ThreeBlocks == {b1, b2, b3}
FiveBlocks == {b1, b2, b3, b4, b5}
TwoOps == {o1, o2}
ThreeOps == {o1, o2, o3}

SpaceSymmetry == Permutations(ThreeOps) \cup Permutations(FiveBlocks)
============================================================================
