------------------------------- MODULE RWLock -------------------------------
(***************************************************************************)
(* What the test case locks of the TCC promise (src/tet3/tcc/lock.c,       *)
(* src/tet3/tcclib): a directory is locked by one exclusive holder or by   *)
(* any number of shared ones.  A holder that dies without unlocking keeps  *)
(* its lock for ever.  Module Locks implements this with files.            *)
(***************************************************************************)
CONSTANT Process
VARIABLE mode           \* how each process holds the lock

Mode == {"none", "shared", "exclusive"}

RWInit == mode = [p \in Process |-> "none"]

AcquireShared(p) ==
    /\ mode[p] = "none"
    /\ \A q \in Process : mode[q] # "exclusive"
    /\ mode' = [mode EXCEPT ![p] = "shared"]

AcquireExclusive(p) ==
    /\ \A q \in Process : mode[q] = "none"
    /\ mode' = [mode EXCEPT ![p] = "exclusive"]

Release(p) ==
    /\ mode[p] # "none"
    /\ mode' = [mode EXCEPT ![p] = "none"]

RWNext == \E p \in Process : AcquireShared(p) \/ AcquireExclusive(p) \/ Release(p)

RWSpec == RWInit /\ [][RWNext]_mode

(* An exclusive holder is alone.                                           *)
Exclusion == \A p, q \in Process : mode[p] = "exclusive" /\ q # p => mode[q] = "none"
=============================================================================
