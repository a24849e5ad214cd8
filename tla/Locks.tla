------------------------------- MODULE Locks -------------------------------
(***************************************************************************)
(* The lock of a test case directory: tcc_lock() and tcc_unlock() of the   *)
(* TCC (src/tet3/tcc/lock.c) and the functions in src/tet3/tcclib that     *)
(* TETtccd runs for them on each system.                                   *)
(*                                                                         *)
(* The lock is the name "tet_lock" in the directory.  It is a plain file   *)
(* when the lock is exclusive, and a directory with one file for each      *)
(* holder when it is shared; the name of such a file is the pid of the     *)
(* process that asked for it and a salt.  Every system call is a step, so  *)
(* that the requests of several processes interleave between them.         *)
(***************************************************************************)
EXTENDS Integers, FiniteSets

CONSTANTS
    Process,        \* the processes that use the lock
    Pid,            \* their pids: processes on two hosts may have the same
    SALTMAX,        \* the last salt: 675 ("zz") in the code
    Timeouts,       \* the timeouts a request may have
    MaxDead,        \* bound: the processes that may die
    MaxErrors       \* bound: the system calls that may fail unexpectedly

ASSUME LocksAssumption ==
    /\ SALTMAX \in Nat
    /\ Timeouts \subseteq {"zero", "positive", "forever"}
    /\ MaxDead \in Nat
    /\ MaxErrors \in Nat

VARIABLES
    tet_lock,       \* what the name tet_lock is in the file system
    names,          \* the files in the lock directory
    rofs,           \* is the file system read-only?
    pc,             \* the system call each process is about to make
    req,            \* the call each process is in, or the lock it holds
    rc,             \* the result of its last tcc_lock() or tcc_unlock()
    left,           \* history: the files whose unlink() failed (Plain or a name)
    dead,           \* processes that were killed
    errors          \* bound: unexpected errors so far

vars == <<tet_lock, names, rofs, pc, req, rc, left, dead, errors>>

Pc == {"idle", "lockfile", "mkdir", "create", "held", "rmdir"}
Timeout == {"zero", "positive", "forever"}

(* A request: late means that its time is up, salt is the one it tries or  *)
(* has got its lock with.                                                  *)
Request == [shared : BOOLEAN, timeout : Timeout, late : BOOLEAN, salt : 0..SALTMAX]
Asked(s, t) == [shared |-> s, timeout |-> t, late |-> FALSE, salt |-> 0]
NoReq == Asked(FALSE, "zero")

fname(p) == <<Pid[p], req[p].salt>>
Plain == <<>>       \* stands in left for tet_lock itself

Init ==
    /\ tet_lock = "none"
    /\ names = {}
    /\ rofs \in BOOLEAN
    /\ pc = [p \in Process |-> "idle"]
    /\ req = [p \in Process |-> NoReq]
    /\ rc = [p \in Process |-> 0]
    /\ left = {}
    /\ dead = {}
    /\ errors = 0

(***************************************************************************)
(* tcc_lock()                                                              *)
(***************************************************************************)
Goto(p, l) ==
    /\ pc' = [pc EXCEPT ![p] = l]
    /\ UNCHANGED rc

Return(p, r) ==
    /\ pc' = [pc EXCEPT ![p] = "idle"]
    /\ rc' = [rc EXCEPT ![p] = r]
    /\ req' = [req EXCEPT ![p] = NoReq]

Lock(p) ==
    /\ pc[p] = "idle"
    /\ \E s \in BOOLEAN, t \in Timeouts :
         /\ req' = [req EXCEPT ![p] = Asked(s, t)]
         /\ pc' = [pc EXCEPT ![p] = IF s THEN "mkdir" ELSE "lockfile"]
    /\ rc' = [rc EXCEPT ![p] = 0]
    /\ UNCHANGED <<tet_lock, names, rofs, left, dead, errors>>

(* A name that exists, or a parent that is gone, is tried again after a    *)
(* sleep, unless the timeout is zero or over.                              *)
MustGiveUp(p) ==
    \/ req[p].timeout = "zero"
    \/ req[p].timeout = "positive" /\ req[p].late

\* mutant: without O_EXCL another's file is taken for one's own
CanCreateShared == ~rofs /\ tet_lock # "dir"

CanCreate == ~rofs /\ tet_lock = "none"

(* The open() in tcf_lockfile(); a failure on a read-only file system is   *)
(* no error to tcc_lock(), whose caller goes on without a lock.            *)
tcf_lockfile(p) ==
    /\ pc[p] = "lockfile"
    /\ \/ /\ rofs
          /\ Return(p, 0)
          /\ UNCHANGED tet_lock
       \/ /\ CanCreate
          /\ tet_lock' = "file"
          /\ Goto(p, "held")
          /\ UNCHANGED req
       \/ /\ tet_lock # "none" /\ MustGiveUp(p)
          /\ Return(p, -1)
          /\ UNCHANGED tet_lock
    /\ UNCHANGED <<names, rofs, left, dead, errors>>

\* mutant: the search goes on at the salt the last one ended with
FirstSaltNext(p) == req[p].salt + 1

FirstSalt(p) == 0

(* The mkdir() in tcf_sharelock(): it is no error when the name exists.    *)
Mkdir(p) ==
    /\ pc[p] = "mkdir"
    /\ \/ /\ rofs
          /\ Return(p, 0)
          /\ UNCHANGED tet_lock
       \/ /\ ~rofs
          /\ tet_lock' = IF tet_lock = "none" THEN "dir" ELSE tet_lock
          /\ Goto(p, "create")
          /\ req' = [req EXCEPT ![p].salt = FirstSalt(p)]
    /\ UNCHANGED <<names, rofs, left, dead, errors>>

\* mutant: without O_EXCL a file with the same pid and salt is shared
NameFreeAlways(p) == TRUE

NameFree(p) == fname(p) \notin names

(* The open() of one name in the lock directory, in tcf_sharelock(): the   *)
(* next salt is tried as long as the name exists.                          *)
CreateHere(p) ==
    /\ tet_lock = "dir"
    /\ \/ /\ NameFree(p)
          /\ names' = names \cup {fname(p)}
          /\ Goto(p, "held")
          /\ UNCHANGED req
       \/ /\ ~NameFree(p) /\ req[p].salt < SALTMAX
          /\ req' = [req EXCEPT ![p].salt = req[p].salt + 1]
          /\ UNCHANGED <<names, pc, rc>>
       \/ /\ ~NameFree(p) /\ req[p].salt = SALTMAX
          /\ Return(p, -1)
          /\ UNCHANGED names

\* mutant: the time is looked at only when the parent was a plain file
CreateNowhereNoTime(p) ==
    /\ tet_lock # "dir"
    /\ \/ tet_lock = "file" /\ MustGiveUp(p) /\ Return(p, -1)
       \/ /\ tet_lock = "none" \/ ~MustGiveUp(p)
          /\ Goto(p, "mkdir") /\ UNCHANGED req
    /\ UNCHANGED names

(* ENOTDIR: the name is a plain file; ENOENT: it was removed again.        *)
CreateNowhere(p) ==
    /\ tet_lock # "dir"
    /\ \/ MustGiveUp(p) /\ Return(p, -1)
       \/ ~MustGiveUp(p) /\ Goto(p, "mkdir") /\ UNCHANGED req
    /\ UNCHANGED names

Create(p) ==
    /\ pc[p] = "create"
    /\ CreateHere(p) \/ CreateNowhere(p)
    /\ UNCHANGED <<tet_lock, rofs, left, dead, errors>>

(* Any other error of these system calls (no space, no descriptors) makes  *)
(* the request fail at once.                                               *)
LockFails(p) ==
    /\ pc[p] \in {"lockfile", "mkdir", "create"}
    /\ errors < MaxErrors
    /\ errors' = errors + 1
    /\ Return(p, -1)
    /\ UNCHANGED <<tet_lock, names, rofs, left, dead>>

(***************************************************************************)
(* tcc_unlock(): the lock file goes first, and then, if the lock was       *)
(* shared, the directory if it can.  A failed call makes it return -1 but  *)
(* is not tried again: tcs1_unlock() forgets the lock either way.          *)
(***************************************************************************)
\* mutant: only the lock file of a shared lock is removed
UnlinkNoRmdir(p) ==
    /\ pc[p] = "held"
    /\ IF req[p].shared
       THEN names' = names \ {fname(p)} /\ UNCHANGED tet_lock
       ELSE tet_lock' = "none" /\ UNCHANGED names
    /\ Return(p, 0)
    /\ UNCHANGED <<rofs, left, dead, errors>>

Unlink(p) ==
    /\ pc[p] = "held"
    /\ IF req[p].shared
       THEN /\ names' = names \ {fname(p)}
            /\ Goto(p, "rmdir")
            /\ UNCHANGED <<tet_lock, req>>
       ELSE /\ tet_lock' = "none"
            /\ Return(p, 0)
            /\ UNCHANGED names
    /\ UNCHANGED <<rofs, left, dead, errors>>

UnlinkFails(p) ==
    /\ pc[p] = "held"
    /\ errors < MaxErrors
    /\ errors' = errors + 1
    /\ IF req[p].shared
       THEN /\ left' = left \cup {fname(p)}
            /\ pc' = [pc EXCEPT ![p] = "rmdir"]
            /\ rc' = [rc EXCEPT ![p] = -1]
            /\ UNCHANGED req
       ELSE /\ left' = left \cup {Plain}
            /\ Return(p, -1)
    /\ UNCHANGED <<tet_lock, names, rofs, dead>>

\* mutant: the directory is removed with what it contains
RemovableAlways == tet_lock = "dir"

Removable == tet_lock = "dir" /\ names = {}

(* EEXIST (not empty) and ENOENT are accepted; everything else is an       *)
(* error, the ENOTDIR of a plain file included.                            *)
Rmdir(p) ==
    /\ pc[p] = "rmdir"
    /\ tet_lock' = IF Removable THEN "none" ELSE tet_lock
    /\ Return(p, IF tet_lock = "file" THEN -1 ELSE rc[p])
    /\ UNCHANGED <<names, rofs, left, dead, errors>>

RmdirFails(p) ==
    /\ pc[p] = "rmdir"
    /\ errors < MaxErrors
    /\ errors' = errors + 1
    /\ Return(p, -1)
    /\ UNCHANGED <<tet_lock, names, rofs, left, dead>>

(***************************************************************************)
(* The environment: time passes, and a process may be killed with a signal *)
(* it cannot catch, or its machine may stop, at any moment.  The files it  *)
(* has created stay.                                                       *)
(***************************************************************************)
Tick(p) ==
    /\ pc[p] \in {"lockfile", "mkdir", "create"}
    /\ req[p].timeout = "positive"
    /\ ~req[p].late
    /\ req' = [req EXCEPT ![p].late = TRUE]
    /\ UNCHANGED <<tet_lock, names, rofs, pc, rc, left, dead, errors>>

Die(p) ==
    /\ Cardinality(dead) < MaxDead
    /\ dead' = dead \cup {p}
    /\ UNCHANGED <<tet_lock, names, rofs, pc, req, rc, left, errors>>

Step(p) == \/ tcf_lockfile(p) \/ Mkdir(p) \/ Create(p)
           \/ Unlink(p) \/ Rmdir(p)

Fails(p) == LockFails(p) \/ UnlinkFails(p) \/ RmdirFails(p)

Next == \E p \in Process \ dead :
            \/ Lock(p) \/ Step(p) \/ Fails(p)
            \/ Tick(p) \/ Die(p)

Spec == Init /\ [][Next]_vars

(***************************************************************************)
(* A request that has been started goes on: nothing but the lock itself    *)
(* keeps tcf_lockfile() and tcf_sharelock() from their next system call,   *)
(* and the clock runs.  A holder need never unlock.                        *)
(***************************************************************************)
Ask(p) == p \notin dead /\ (tcf_lockfile(p) \/ Mkdir(p) \/ Create(p))

FairSpec == Spec /\ \A p \in Process : WF_vars(Ask(p)) /\ WF_vars(p \notin dead /\ Tick(p))

-----------------------------------------------------------------------------
TypeOK ==
    /\ tet_lock \in {"none", "file", "dir"}
    /\ names \subseteq ({Pid[p] : p \in Process} \X (0..SALTMAX))
    /\ rofs \in BOOLEAN
    /\ pc \in [Process -> Pc]
    /\ req \in [Process -> Request]
    /\ rc \in [Process -> {0, -1}]
    /\ left \subseteq {Plain} \cup ({Pid[p] : p \in Process} \X (0..SALTMAX))
    /\ dead \subseteq Process
    /\ errors \in Nat

HoldsShared(p)    == pc[p] = "held" /\ req[p].shared
HoldsExclusive(p) == pc[p] = "held" /\ ~req[p].shared

(* How p holds the lock, in terms of RWLock.                               *)
held == [p \in Process |-> CASE HoldsShared(p) -> "shared"
                             [] HoldsExclusive(p) -> "exclusive"
                             [] OTHER -> "none"]
RW == INSTANCE RWLock WITH mode <- held

(* Whatever the interleaving of the system calls, the files are a lock     *)
(* with one exclusive or any number of shared holders: each step of a      *)
(* request is a step of RWLock or none.                                    *)
ImplementsRWLock == RW!RWSpec

(* An exclusive holder - a build or clean, or an execution in place - is   *)
(* alone, even when another process removes or makes the directory at the  *)
(* same time.                                                              *)
MutualExclusion == RW!Exclusion

(* No unlock takes away another's lock: the file of every holder, alive or *)
(* dead, is on disk, and no two shared holders, even with one pid, have    *)
(* the same file.                                                          *)
HoldersAreOnDisk ==
    /\ \A p \in Process : HoldsExclusive(p) => tet_lock = "file"
    /\ \A p \in Process : HoldsShared(p) => tet_lock = "dir" /\ fname(p) \in names
    /\ \A p, q \in Process : HoldsShared(p) /\ HoldsShared(q) /\ p # q => fname(p) # fname(q)

(* No lock is forgotten: a plain file and a file in the directory have a   *)
(* holder, or the unlink() of that very file has failed; and an empty      *)
(* directory, which would shut out exclusive locks, is about to be used or *)
(* removed by some process, unless a system call has failed unexpectedly   *)
(* after the mkdir().                                                      *)
NothingLeftOver ==
    /\ tet_lock = "file" => Plain \in left \/ \E p \in Process : HoldsExclusive(p)
    /\ \A n \in names : n \in left \/ \E p \in Process : HoldsShared(p) /\ n = fname(p)
    /\ names # {} => tet_lock = "dir"
    /\ tet_lock = "dir" /\ names = {} =>
         errors > 0 \/ \E p \in Process : pc[p] \in {"create", "rmdir"}

(* A request with a timeout ends, with or without the lock, even if the    *)
(* lock is never free, and even if it finds the directory made and removed *)
(* by others again and again between its mkdir() and its open().           *)
TimedRequestEnds ==
    \A p \in Process :
        pc[p] \in {"lockfile", "mkdir", "create"} /\ req[p].timeout # "forever"
            ~> pc[p] \in {"held", "idle"} \/ p \in dead
=============================================================================
