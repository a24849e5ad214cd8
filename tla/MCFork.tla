------------------------------- MODULE MCFork -------------------------------
(***************************************************************************)
(* An instance of Fork for TLC: the TCM and its first child behave, the    *)
(* processes forked after them may not.                                    *)
(***************************************************************************)
EXTENDS Fork

MCUnruly == 2..MaxPid
=============================================================================
