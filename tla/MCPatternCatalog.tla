--------------------------- MODULE MCPatternCatalog ---------------------------
(* A small instance of PatternCatalog for TLC.                              *)
EXTENDS PatternCatalog, TLC

CONSTANTS c1, c2, c3, p1, p2

MCSymmetry == Permutations(Commit) \cup Permutations(Process)
=============================================================================
