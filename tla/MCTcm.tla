------------------------------- MODULE MCTcm -------------------------------
(***************************************************************************)
(* Instances of Tcm for TLC: two ICs, of two TPs and of one.               *)
(***************************************************************************)
EXTENDS Tcm

CONSTANTS a, b, c

MCtpcount == <<2, 1>>
MCDeletable == {<<1, 2>>}
MCNone == {}
=============================================================================
