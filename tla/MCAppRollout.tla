---------------------------- MODULE MCAppRollout ----------------------------
(* A small instance of AppRollout for TLC.                                  *)
EXTENDS AppRollout

CONSTANTS a, b
=============================================================================
