---------------------------- MODULE MCConnEvents ----------------------------
(* ConnEvents with interchangeable connections, for safety properties.     *)
EXTENDS ConnEvents, TLC

ConnSymmetry == Permutations(Conns)
=============================================================================
