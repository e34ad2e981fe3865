----------------------------- MODULE MCEndpoint -----------------------------
(***************************************************************************)
(* An instance of Endpoint for TLC: two endpoints, so that one can replace *)
(* the other in the builder or take its route.                             *)
(***************************************************************************)
EXTENDS Endpoint, TLC

CONSTANTS e1, e2

MCEndpoints == {e1, e2}
MCSessions == {{}, {"get", "list"}, {"create", "update", "delete"}}

\* Nothing tells the endpoints apart but what is done to them.
Symmetry == Permutations(Endpoint)
=============================================================================
