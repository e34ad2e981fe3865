----------------------------- MODULE MCDistLock -----------------------------
(***************************************************************************)
(* An instance of DistLock for TLC: two processes and a second of four     *)
(* ticks, so that the last ticks of a lease, which TTL rounds to zero,     *)
(* happen.                                                                 *)
(***************************************************************************)
EXTENDS DistLock

CONSTANTS c1, c2

MCTwoClients == {c1, c2}
MCExpire == {1, 2}
=============================================================================
