------------------------------ MODULE MCSyncd ------------------------------
(***************************************************************************)
(* Instances of Syncd for TLC.  Clients are m (the master TCM, system 0),  *)
(* s and s2 (both slave TCMs of system 1: a process and one it has         *)
(* started) and t (a slave TCM of system 2).                               *)
(***************************************************************************)
EXTENDS Syncd

CONSTANTS m, s, s2, t

MCsysid == [p \in Proc |-> CASE p = m -> 0 [] p = t -> 2 [] OTHER -> 1]
MCptype == [p \in Proc |-> IF p = m THEN "MTCM" ELSE "STCM"]

Req(spno, vote, timed, xrid) ==
    [spno |-> spno, vote |-> vote, timed |-> timed, xrid |-> xrid,
     smflags |-> {}, smlen |-> 0]
Snd(spno, len) == [Req(spno, "YES", FALSE, 1) EXCEPT !.smflags = {"SNDMSG"}, !.smlen = len]
Rcv(spno) == [Req(spno, "YES", TRUE, 1) EXCEPT !.smflags = {"RCVMSG"}]

None == {}

(* Auto syncs of systems 0, 1 and 2 or of 0 and 1.                         *)
Systems012 == {<<0, 1, 2>>}
Systems01  == {<<0, 1>>}
SystemsBad == Systems01 \cup {<<1, 1>>, <<>>}
AutoThree == {Req(1, "YES", TRUE, -1), Req(2, "YES", FALSE, -1)}
AutoOne   == {Req(1, "YES", FALSE, 1)}

(* User syncs between system 0 and system 1.                               *)
Master    == [sysid |-> 0, ptype |-> "MTCM"]
Slave(n)  == [sysid |-> n, ptype |-> "STCM"]
Users01   == {<<Master>>, <<Slave(1)>>}
UsersBad  == Users01 \cup {<<>>, <<Slave(2), Slave(2)>>, <<Slave(-1)>>}
UserLive  == {Req(1, "YES", TRUE, 1), Req(1, "NO", TRUE, 1), Req(-1, "YES", TRUE, 1)}
UserMsgs  == {Snd(1, 1), Snd(2, 1), Rcv(1)}
=============================================================================
