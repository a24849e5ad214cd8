------------------------------ MODULE MCXresd ------------------------------
(***************************************************************************)
(* Instances of Xresd for TLC.  Clients are c and c2 (two master TCCs), m  *)
(* (the master TCM, system 0) and s (a slave TCM, system 1).               *)
(***************************************************************************)
EXTENDS Xresd

CONSTANTS c, c2, m, s

MCsysid == [p \in Proc |-> IF p = s THEN 1 ELSE 0]
MCptype == [p \in Proc |-> CASE p \in {c, c2} -> "MTCC" [] p = m -> "MTCM" [] OTHER -> "STCM"]

Systems01  == {<<0, 1>>}
Systems0Or01 == {<<0>>, <<0, 1>>}
Systems0Bad == {<<0>>, <<1, 1>>, <<-1>>}
=============================================================================
