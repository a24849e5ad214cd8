------------------------------ MODULE MCLocks ------------------------------
(***************************************************************************)
(* Instances of Locks for TLC.  Processes p1 and p2 are on two hosts and   *)
(* have the same pid; p3 has another.                                      *)
(***************************************************************************)
EXTENDS Locks

CONSTANTS p1, p2, p3

MCPid == [p \in Process |-> IF p = p3 THEN 2 ELSE 1]
=============================================================================
