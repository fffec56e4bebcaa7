---------------------------- MODULE MCHashStore ----------------------------
(* Symmetry for TLC: threads other than Main, and keys that no pair of Alike *)
(* tells apart.                                                              *)
EXTENDS HashStore, TLC

KeySymmetry == Permutations(UNION Alike) \cup Permutations(Keys \ UNION Alike)
===============================================================================
