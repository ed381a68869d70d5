---------------------------- MODULE MCDeployments ----------------------------
(* A small instance of Deployments for TLC: the large spec costs the whole  *)
(* budget, the small one half of it.                                        *)
EXTENDS Deployments

CONSTANTS d1, d2, small, large, w1, w2, q1, q2, api

\* One process serves the API (compose.yaml).
McServer == [q \in Request |-> api]

McCost == [s \in Spec |-> IF s = large THEN 2 ELSE 1]
=============================================================================
