-------------------------- MODULE MCPhaseExecution --------------------------
(* Small instances of PhaseExecution for TLC.                               *)
EXTENDS PhaseExecution, TLC

CONSTANTS v1, v2, r1

MCCost == v1 :> 1 @@ v2 :> 2

MCCostOne == v1 :> 1

NoRefs == {{}}

MCSymmetry == Permutations(Op)
=============================================================================
