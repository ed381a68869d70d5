--------------------------- MODULE MCDriftSweep ---------------------------
(* A small instance of DriftSweep for TLC.                                  *)
EXTENDS DriftSweep, TLC

CONSTANTS r1, r2
=============================================================================
