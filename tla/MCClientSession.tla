---------------------------- MODULE MCClientSession ----------------------------
(***************************************************************************)
(* Two requests under way at once: a retry overtakes the request it        *)
(* repeats, or an execution meets a discard.                               *)
(***************************************************************************)
EXTENDS ClientSession

CONSTANTS r1, r2
=============================================================================
