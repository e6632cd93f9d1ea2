------------------------- MODULE MCPressureSampler --------------------------
(* The instances of PressureSampler that TLC checks.                       *)
EXTENDS PressureSampler, TLC

CONSTANTS t1, t2

ThreadSymmetry == Permutations(Threads)
=============================================================================
