------------------------- MODULE MCOperationLedger -------------------------
(* Small instances of OperationLedger for TLC.                              *)
EXTENDS CostHistory, TLC

CONSTANTS v1, v2, r1, r2

MCCost == v1 :> 1 @@ v2 :> 2

\* No references, or a consumer that may name the first resource.
NoRefs == {{}}
MCRefs == {{}, {r1}}

MCSymmetry == Permutations(Op)
MCSymmetryR == Permutations(Op) \cup Permutations(Resource)
=============================================================================
