------------------------------- MODULE MCTrees -------------------------------
(***************************************************************************)
(* An instance of Trees for TLC: four nodes of three ids, so that an id    *)
(* comes twice, with parents that are there, that never come, or none.     *)
(***************************************************************************)
EXTENDS Trees

MCId == 1 .. 3
MCParent == -1 .. 4
=============================================================================
