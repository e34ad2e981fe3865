-------------------------- MODULE MCStartController --------------------------
(***************************************************************************)
(* An instance of StartController for TLC.                                 *)
(***************************************************************************)
EXTENDS StartController

CONSTANTS app, db, redis, l1, l2, g1, none

MCStarter == {app, db, redis}
MCPriority == {600, 900}
MCOneRegistrar == {g1}
MCTwoListeners == {l1, l2}
=============================================================================
