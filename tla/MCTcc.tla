------------------------------- MODULE MCTcc -------------------------------
(***************************************************************************)
(* Instances of Tcc for TLC: test case a runs on two systems, b on one of  *)
(* them; both are in the same source directory.                            *)
(***************************************************************************)
EXTENDS Tcc

CONSTANTS a, b, s1, s2, src, exe

MCSys == [t \in TC |-> IF t = a THEN {s1, s2} ELSE {s1}]
MCDir == [t \in TC |-> src]
MCExecDir == [t \in TC |-> IF t = a THEN NoDir ELSE exe]
MCReadOnly == {<<s2, src>>}
MCManyJournals == [t \in TC |-> FALSE]
=============================================================================
