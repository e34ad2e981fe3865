------------------------------ MODULE MCRecords ------------------------------
(***************************************************************************)
(* An instance of Records for TLC: three rows in pages of one and two, and *)
(* one client beside the one that walks.                                   *)
(***************************************************************************)
EXTENDS Records

CONSTANTS c1

MCId == 1 .. 3
MCClient == {c1}
=============================================================================
