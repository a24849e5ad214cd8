---------------------------- MODULE LocksProofs ----------------------------
(***************************************************************************)
(* Proofs about Locks: for any number of processes, any pids and any       *)
(* number of salts, the system calls of tcc_lock() and tcc_unlock()        *)
(* implement RWLock.                                                       *)
(***************************************************************************)
EXTENDS Locks, TLAPS

(* The process that a step is taken by, and what a step may change of it.  *)
Act(p) == Lock(p) \/ Step(p) \/ Fails(p) \/ Tick(p) \/ Die(p)

(* MutualExclusion in terms of the calls.                                  *)
Alone == \A p, q \in Process : HoldsExclusive(p) /\ q # p => pc[q] # "held"

(* Every step leaves the calls of the other processes alone.               *)
LEMMA OthersUnchanged ==
    ASSUME TypeOK, NEW p \in Process, Act(p)
    PROVE  /\ \A q \in Process \ {p} : pc'[q] = pc[q] /\ req'[q] = req[q]
           /\ \A q \in Process \ {p} : fname(q)' = fname(q)
           /\ \A q \in Process \ {p} : HoldsShared(q)' = HoldsShared(q)
           /\ \A q \in Process \ {p} : HoldsExclusive(q)' = HoldsExclusive(q)
<1>1. \A q \in Process \ {p} : pc'[q] = pc[q] /\ req'[q] = req[q]
  BY DEF TypeOK, Act, Step, Lock, tcf_lockfile, Mkdir, Create, CreateHere, CreateNowhere,
      Fails, LockFails, UnlinkFails, RmdirFails, Unlink, Rmdir, Tick, Die, Goto, Return
<1>2. QED BY <1>1 DEF fname, HoldsShared, HoldsExclusive

(* How a call goes on, or returns, respects the types.                     *)
LEMMA GotoType ==
    ASSUME TypeOK, NEW p \in Process, NEW l \in Pc, Goto(p, l)
    PROVE  pc' \in [Process -> Pc] /\ rc' \in [Process -> {0, -1}]
BY DEF TypeOK, Goto

LEMMA ReturnType ==
    ASSUME TypeOK, NEW p \in Process, NEW r \in {0, -1}, Return(p, r)
    PROVE  /\ pc' \in [Process -> Pc] /\ rc' \in [Process -> {0, -1}]
           /\ req' \in [Process -> Request]
<1>1. NoReq \in Request
  BY LocksAssumption DEF NoReq, Asked, Request, Timeout
<1>2. "idle" \in Pc
  BY DEF Pc
<1>3. QED BY <1>1, <1>2 DEF TypeOK, Return

(* A new salt leaves a request a request.                                  *)
LEMMA SaltType ==
    ASSUME TypeOK, NEW p \in Process, NEW n \in 0..SALTMAX,
           req' = [req EXCEPT ![p].salt = n]
    PROVE  req' \in [Process -> Request]
BY DEF TypeOK, Request

(* The type invariant is inductive.                                        *)
LEMMA StepTypeOK ==
    ASSUME TypeOK, NEW p \in Process, Act(p)
    PROVE  TypeOK'
<1>0. /\ {"held", "mkdir", "create", "rmdir", "lockfile", "idle"} \subseteq Pc
      /\ fname(p) \in {Pid[q] : q \in Process} \X (0..SALTMAX)
      /\ 0 \in 0..SALTMAX
  BY LocksAssumption DEF Pc, TypeOK, fname, Request
<1>1. CASE Lock(p)
  <2>1. \A s \in BOOLEAN, t \in Timeouts : Asked(s, t) \in Request
    BY LocksAssumption DEF Asked, Request, Timeout
  <2>2. req' \in [Process -> Request] /\ pc' \in [Process -> Pc]
    BY <1>0, <1>1, <2>1 DEF Lock, TypeOK
  <2>3. QED BY <1>1, <2>2 DEF Lock, TypeOK
<1>2. CASE tcf_lockfile(p)
  <2>1. CASE Return(p, 0) \/ Return(p, -1)
    BY <1>2, <2>1, ReturnType DEF tcf_lockfile, TypeOK
  <2>2. CASE tet_lock' = "file" /\ Goto(p, "held") /\ UNCHANGED req
    BY <1>0, <1>2, <2>2, GotoType DEF tcf_lockfile, TypeOK
  <2>3. QED BY <1>2, <2>1, <2>2 DEF tcf_lockfile
<1>3. CASE Mkdir(p)
  <2>1. CASE Return(p, 0) /\ UNCHANGED tet_lock
    BY <1>3, <2>1, ReturnType DEF Mkdir, TypeOK
  <2>2. CASE Goto(p, "create") /\ req' = [req EXCEPT ![p].salt = FirstSalt(p)]
    BY <1>0, <1>3, <2>2, GotoType, SaltType DEF Mkdir, TypeOK, FirstSalt
  <2>3. QED BY <1>3, <2>1, <2>2 DEF Mkdir
<1>4. CASE Create(p)
  <2>1. CASE Return(p, -1) /\ UNCHANGED names
    BY <1>4, <2>1, ReturnType DEF Create, TypeOK
  <2>2. CASE Goto(p, "held") /\ names' = names \cup {fname(p)} /\ UNCHANGED req
    BY <1>0, <1>4, <2>2, GotoType DEF Create, TypeOK
  <2>3. CASE /\ req[p].salt < SALTMAX
             /\ req' = [req EXCEPT ![p].salt = req[p].salt + 1]
             /\ UNCHANGED <<names, pc, rc>>
    <3>1. req[p].salt + 1 \in 0..SALTMAX
      BY <2>3, LocksAssumption DEF TypeOK, Request
    <3>2. QED BY <1>4, <2>3, <3>1, SaltType DEF Create, TypeOK
  <2>4. CASE Goto(p, "mkdir") /\ UNCHANGED req /\ UNCHANGED names
    BY <1>0, <1>4, <2>4, GotoType DEF Create, TypeOK
  <2>5. QED BY <1>4, <2>1, <2>2, <2>3, <2>4 DEF Create, CreateHere, CreateNowhere
<1>5. CASE Unlink(p)
  <2>1. CASE Goto(p, "rmdir") /\ UNCHANGED <<tet_lock, req>> /\ names' = names \ {fname(p)}
    BY <1>0, <1>5, <2>1, GotoType DEF Unlink, TypeOK
  <2>2. CASE Return(p, 0) /\ tet_lock' = "none" /\ UNCHANGED names
    BY <1>5, <2>2, ReturnType DEF Unlink, TypeOK
  <2>3. QED BY <1>5, <2>1, <2>2 DEF Unlink
<1>6. CASE Rmdir(p)
  BY <1>6, ReturnType DEF Rmdir, TypeOK
<1>7. CASE LockFails(p) \/ RmdirFails(p)
  BY <1>7, ReturnType DEF LockFails, RmdirFails, TypeOK
<1>8. CASE UnlinkFails(p)
  <2>1. CASE req[p].shared
    BY <1>0, <1>8, <2>1 DEF UnlinkFails, TypeOK
  <2>2. CASE ~req[p].shared
    BY <1>8, <2>2, ReturnType DEF UnlinkFails, TypeOK
  <2>3. QED BY <2>1, <2>2
<1>9. CASE Tick(p)
  BY <1>9 DEF Tick, TypeOK, Request
<1>10. CASE Die(p)
  BY <1>10 DEF Die, TypeOK
<1>11. QED BY <1>1, <1>2, <1>3, <1>4, <1>5, <1>6, <1>7, <1>8, <1>9, <1>10 DEF Act, Step, Fails

(***************************************************************************)
(* What a step may be to those who look at the disk: the lock is taken or  *)
(* given up by p with the file that goes with it, or given up without the  *)
(* file, whose unlink() fails, or a process that holds nothing does        *)
(* something else.                                                         *)
(***************************************************************************)
TakesExclusive(p) ==
    /\ pc[p] = "lockfile" /\ pc'[p] = "held" /\ ~req'[p].shared
    /\ tet_lock = "none" /\ tet_lock' = "file" /\ names' = names /\ left' = left

TakesShared(p) ==
    /\ pc[p] = "create" /\ pc'[p] = "held" /\ req'[p].shared
    /\ tet_lock = "dir" /\ tet_lock' = "dir"
    /\ fname(p)' \notin names /\ names' = names \cup {fname(p)'} /\ left' = left

GivesExclusive(p) ==
    /\ HoldsExclusive(p) /\ pc'[p] = "idle"
    /\ tet_lock' = "none" /\ names' = names /\ left' = left

GivesShared(p) ==
    /\ HoldsShared(p) /\ pc'[p] = "rmdir"
    /\ tet_lock' = tet_lock /\ names' = names \ {fname(p)} /\ left' = left

AbandonsExclusive(p) ==
    /\ HoldsExclusive(p) /\ pc'[p] = "idle"
    /\ tet_lock' = tet_lock /\ names' = names /\ left' = left \cup {Plain}

AbandonsShared(p) ==
    /\ HoldsShared(p) /\ pc'[p] = "rmdir"
    /\ tet_lock' = tet_lock /\ names' = names /\ left' = left \cup {fname(p)}

MakesDir(p) ==
    /\ pc[p] = "mkdir" /\ pc'[p] = "create" /\ names' = names /\ left' = left
    /\ tet_lock' = IF tet_lock = "none" THEN "dir" ELSE tet_lock

RemovesDir(p) ==
    /\ pc[p] = "rmdir" /\ pc'[p] = "idle" /\ names' = names /\ left' = left
    /\ tet_lock' = IF tet_lock = "dir" /\ names = {} THEN "none" ELSE tet_lock

(* The disk stays as it is; whoever leaves "create" or "rmdir" has an      *)
(* excuse.                                                                 *)
Idles(p) ==
    /\ tet_lock' = tet_lock /\ names' = names /\ left' = left
    /\ \/ pc' = pc /\ fname(p)' = fname(p) /\ req'[p].shared = req[p].shared
       \/ pc[p] # "held" /\ pc'[p] # "held"
    /\ pc[p] \in {"create", "rmdir"} => \/ pc'[p] = pc[p] \/ names # {}
                                        \/ tet_lock # "dir" \/ errors' > 0

(* A request in its mkdir() or open() loop is a shared one.                *)
Requests ==
    \A p \in Process : /\ pc[p] \in {"mkdir", "create", "rmdir"} => req[p].shared
                       /\ pc[p] = "lockfile" => ~req[p].shared

LEMMA StepRequests ==
    ASSUME TypeOK, Requests, NEW p \in Process, Act(p)
    PROVE  Requests'
<1>1. (pc'[p] \in {"mkdir", "create", "rmdir"} => req'[p].shared)
      /\ (pc'[p] = "lockfile" => ~req'[p].shared)
  BY DEF Act, Step, Lock, tcf_lockfile, Mkdir, Create, CreateHere, CreateNowhere, Fails, LockFails,
      UnlinkFails, RmdirFails, Unlink, Rmdir, Tick, Die, Goto, Return, TypeOK, Requests, Request, Asked, NoReq
<1>2. QED BY <1>1, OthersUnchanged DEF Requests

LEMMA ActKinds ==
    ASSUME TypeOK, Requests, NEW p \in Process, Act(p)
    PROVE  \/ TakesExclusive(p) \/ TakesShared(p) \/ GivesExclusive(p) \/ GivesShared(p)
           \/ AbandonsExclusive(p) \/ AbandonsShared(p)
           \/ MakesDir(p) \/ RemovesDir(p) \/ Idles(p)
<1> USE DEF TypeOK, Goto, Return
<1>1. CASE Lock(p)
  BY <1>1 DEF Lock, Idles
<1>2. CASE tcf_lockfile(p)
  BY <1>2 DEF tcf_lockfile, CanCreate, TakesExclusive, Idles, Requests
<1>3. CASE Mkdir(p)
  BY <1>3 DEF Mkdir, MakesDir, Idles
<1>4. CASE Create(p)
  <2>1. CASE CreateHere(p)
    <3>1. CASE NameFree(p)
      BY <1>4, <2>1, <3>1 DEF Create, CreateHere, NameFree, TakesShared, Requests, fname
    <3>2. CASE ~NameFree(p)
      BY <1>4, <2>1, <3>2 DEF Create, CreateHere, NameFree, Idles
    <3>3. QED BY <3>1, <3>2
  <2>2. CASE CreateNowhere(p)
    BY <1>4, <2>2 DEF Create, CreateNowhere, Idles
  <2>3. QED BY <1>4, <2>1, <2>2 DEF Create
<1>5. CASE Unlink(p)
  BY <1>5 DEF Unlink, GivesShared, GivesExclusive, HoldsShared, HoldsExclusive
<1>6. CASE Rmdir(p)
  BY <1>6 DEF Rmdir, Removable, RemovesDir
<1>7. CASE LockFails(p) \/ RmdirFails(p)
  BY <1>7 DEF LockFails, RmdirFails, Idles
<1>8. CASE UnlinkFails(p)
  BY <1>8 DEF UnlinkFails, AbandonsShared, AbandonsExclusive, HoldsShared, HoldsExclusive
<1>9. CASE Tick(p)
  BY <1>9 DEF Tick, Idles, fname, Request
<1>10. CASE Die(p)
  BY <1>10 DEF Die, Idles, fname
<1>11. QED BY <1>1, <1>2, <1>3, <1>4, <1>5, <1>6, <1>7, <1>8, <1>9, <1>10 DEF Act, Step, Fails

-----------------------------------------------------------------------------
(* The strengthened invariant.                                             *)
IInv == TypeOK /\ Requests /\ Alone /\ HoldersAreOnDisk /\ NothingLeftOver

LEMMA InitIInv == Init => IInv
BY LocksAssumption DEF Init, IInv, TypeOK, Requests, Alone, HoldersAreOnDisk, NothingLeftOver,
    HoldsExclusive, HoldsShared, Request, NoReq, Asked, Pc, Timeout

(* An exclusive lock is taken only when nothing is on disk, and so when    *)
(* nobody holds a lock; a shared one when there is no exclusive holder.    *)
LEMMA StepAlone ==
    ASSUME IInv, NEW p \in Process, Act(p)
    PROVE  Alone'
<1> USE OthersUnchanged DEF IInv, Alone, HoldersAreOnDisk
<1>1. CASE TakesExclusive(p)
  BY <1>1 DEF TakesExclusive, HoldsExclusive, HoldsShared, TypeOK
<1>2. CASE TakesShared(p)
  BY <1>2 DEF TakesShared, HoldsExclusive
<1>3. CASE pc'[p] # "held"
  BY <1>3 DEF HoldsExclusive
<1>4. CASE Idles(p)
  BY <1>4 DEF Idles, HoldsExclusive
<1>5. QED
  BY <1>1, <1>2, <1>3, <1>4, ActKinds DEF GivesExclusive, GivesShared,
      AbandonsExclusive, AbandonsShared, MakesDir, RemovesDir

LEMMA StepHoldersAreOnDisk ==
    ASSUME IInv, NEW p \in Process, Act(p)
    PROVE  HoldersAreOnDisk'
<1> USE OthersUnchanged DEF IInv
<1>1. CASE TakesExclusive(p)
  BY <1>1 DEF TakesExclusive, HoldersAreOnDisk, HoldsExclusive, HoldsShared
<1>2. CASE TakesShared(p)
  BY <1>2 DEF TakesShared, HoldersAreOnDisk, HoldsExclusive, HoldsShared
<1>3. CASE GivesExclusive(p)
  BY <1>3 DEF GivesExclusive, HoldersAreOnDisk, HoldsExclusive, HoldsShared, Alone
<1>4. CASE GivesShared(p)
  BY <1>4 DEF GivesShared, HoldersAreOnDisk, HoldsExclusive, HoldsShared
<1>5. CASE MakesDir(p)
  BY <1>5 DEF MakesDir, HoldersAreOnDisk, HoldsExclusive, HoldsShared
<1>6. CASE RemovesDir(p)
  BY <1>6 DEF RemovesDir, HoldersAreOnDisk, HoldsExclusive, HoldsShared
<1>7. CASE Idles(p)
  BY <1>7 DEF Idles, HoldersAreOnDisk, HoldsExclusive, HoldsShared, TypeOK
<1>8. CASE AbandonsExclusive(p) \/ AbandonsShared(p)
  BY <1>8 DEF AbandonsExclusive, AbandonsShared, HoldersAreOnDisk, HoldsExclusive, HoldsShared
<1>9. QED BY <1>1, <1>2, <1>3, <1>4, <1>5, <1>6, <1>7, <1>8, ActKinds

LEMMA StepNothingLeftOver ==
    ASSUME IInv, NEW p \in Process, Act(p)
    PROVE  NothingLeftOver'
<1> USE OthersUnchanged DEF IInv
<1>0. errors' \in Nat /\ (errors > 0 => errors' > 0)
  BY DEF Act, Step, Lock, tcf_lockfile, Mkdir, Create, Fails, LockFails, UnlinkFails,
      RmdirFails, Unlink, Rmdir, Tick, Die, TypeOK
<1>1. CASE TakesExclusive(p)
  BY <1>1 DEF TakesExclusive, NothingLeftOver, HoldsExclusive, HoldsShared
<1>2. CASE TakesShared(p)
  BY <1>2 DEF TakesShared, NothingLeftOver, HoldsExclusive, HoldsShared
<1>3. CASE GivesExclusive(p)
  BY <1>3 DEF GivesExclusive, NothingLeftOver, HoldersAreOnDisk, HoldsExclusive, HoldsShared
<1>4. CASE GivesShared(p)
  BY <1>4 DEF GivesShared, NothingLeftOver, HoldersAreOnDisk, HoldsExclusive, HoldsShared
<1>5. CASE MakesDir(p)
  BY <1>5 DEF MakesDir, NothingLeftOver, HoldsExclusive, HoldsShared
<1>6. CASE RemovesDir(p)
  BY <1>6 DEF RemovesDir, NothingLeftOver, HoldsExclusive, HoldsShared
<1>7. CASE Idles(p)
  <2>1. /\ HoldsShared(p)' = HoldsShared(p) /\ HoldsExclusive(p)' = HoldsExclusive(p)
        /\ HoldsShared(p) => fname(p)' = fname(p)
    BY <1>7 DEF Idles, HoldsShared, HoldsExclusive
  <2>2. tet_lock' = tet_lock /\ names' = names /\ left' = left
    BY <1>7 DEF Idles
  <2>3. tet_lock' = "file" => Plain \in left' \/ \E q \in Process : HoldsExclusive(q)'
    BY <2>1, <2>2 DEF NothingLeftOver
  <2>4. \A n \in names' : n \in left' \/ \E q \in Process : HoldsShared(q)' /\ n = fname(q)'
    BY <2>1, <2>2 DEF NothingLeftOver
  <2>5. tet_lock' = "dir" /\ names' = {} =>
          errors' > 0 \/ \E q \in Process : pc'[q] \in {"create", "rmdir"}
    BY <1>0, <1>7, <2>2 DEF NothingLeftOver, Idles
  <2>6. QED BY <2>2, <2>3, <2>4, <2>5 DEF NothingLeftOver, Plain
<1>8. CASE AbandonsExclusive(p) \/ AbandonsShared(p)
  BY <1>8 DEF AbandonsExclusive, AbandonsShared, NothingLeftOver, HoldersAreOnDisk, HoldsExclusive, HoldsShared
<1>9. QED BY <1>1, <1>2, <1>3, <1>4, <1>5, <1>6, <1>7, <1>8, ActKinds

LEMMA StepIInv ==
    ASSUME IInv, [Next]_vars
    PROVE  IInv'
<1>1. CASE Next
  <2>1. PICK p \in Process : Act(p)
    BY <1>1 DEF Next, Act
  <2>2. QED
    BY <2>1, StepTypeOK, StepRequests, StepAlone, StepHoldersAreOnDisk, StepNothingLeftOver
       DEF IInv
<1>2. CASE UNCHANGED vars
  BY <1>2 DEF vars, IInv, TypeOK, Requests, Alone, HoldersAreOnDisk, NothingLeftOver,
      HoldsShared, HoldsExclusive, fname, Plain
<1>3. QED BY <1>1, <1>2

(* The locks are what they should be in every state of every execution.    *)
THEOREM LocksInvariant == Spec => []IInv
<1>1. QED BY InitIInv, StepIInv, PTL DEF Spec

(* The variables keep their types.                                         *)
THEOREM LocksTypeCorrect == Spec => []TypeOK
<1>1. IInv => TypeOK
  BY DEF IInv
<1>2. QED BY <1>1, LocksInvariant, PTL

(* For any number of processes an exclusive holder is alone.               *)
THEOREM LocksExclude == Spec => []MutualExclusion
<1>1. IInv => MutualExclusion
  <2>1. SUFFICES ASSUME IInv, NEW p \in Process, NEW q \in Process,
                        held[p] = "exclusive", q # p
                 PROVE  held[q] = "none"
    BY DEF MutualExclusion, RW!Exclusion
  <2>2. HoldsExclusive(p)
    BY <2>1 DEF held
  <2>3. pc[q] # "held"
    BY <2>1, <2>2 DEF IInv, Alone
  <2>4. QED BY <2>3 DEF held, HoldsShared, HoldsExclusive
<1>2. QED BY <1>1, LocksInvariant, PTL

(* No unlock takes away another holder's file.                             *)
THEOREM LocksOnDisk == Spec => []HoldersAreOnDisk
<1>1. IInv => HoldersAreOnDisk
  BY DEF IInv
<1>2. QED BY <1>1, LocksInvariant, PTL

(* No lock file is forgotten unless its unlink() has failed, and no lock   *)
(* directory unless a system call has failed unexpectedly.                 *)
THEOREM LocksLeaveNothing == Spec => []NothingLeftOver
<1>1. IInv => NothingLeftOver
  BY DEF IInv
<1>2. QED BY <1>1, LocksInvariant, PTL

-----------------------------------------------------------------------------
(* A step of a request is a step of RWLock, or it does not concern it.     *)
LEMMA StepRefines ==
    ASSUME IInv, NEW p \in Process, Act(p)
    PROVE  [RW!RWNext]_held
<1>0. /\ \A q \in Process \ {p} : held'[q] = held[q]
      /\ held = [q \in Process |-> held[q]] /\ held' = [q \in Process |-> held'[q]]
  <2>1. \A q \in Process \ {p} : held'[q] = held[q]
    BY OthersUnchanged DEF held, IInv
  <2>2. held = [q \in Process |-> held[q]]
    BY DEF held
  <2>3. held' = [q \in Process |-> held'[q]]
    BY DEF held
  <2>4. QED BY <2>1, <2>2, <2>3
<1>1. CASE TakesExclusive(p)
  <2>1. \A q \in Process : held[q] = "none"
    BY <1>1 DEF TakesExclusive, held, IInv, HoldersAreOnDisk, HoldsShared, HoldsExclusive
  <2>2. held'[p] = "exclusive"
    BY <1>1 DEF TakesExclusive, held, HoldsShared, HoldsExclusive
  <2>3. held' = [held EXCEPT ![p] = "exclusive"]
    BY <1>0, <2>2
  <2>4. QED BY <2>1, <2>3 DEF RW!RWNext, RW!AcquireExclusive
<1>2. CASE TakesShared(p)
  <2>1. held[p] = "none" /\ \A q \in Process : held[q] # "exclusive"
    BY <1>2 DEF TakesShared, held, IInv, HoldersAreOnDisk, HoldsShared, HoldsExclusive
  <2>2. held'[p] = "shared"
    BY <1>2 DEF TakesShared, held, HoldsShared, HoldsExclusive
  <2>3. held' = [held EXCEPT ![p] = "shared"]
    BY <1>0, <2>2
  <2>4. QED BY <2>1, <2>3 DEF RW!RWNext, RW!AcquireShared
<1>3. CASE \/ GivesExclusive(p) \/ GivesShared(p)
           \/ AbandonsExclusive(p) \/ AbandonsShared(p)
  <2>1. held[p] # "none"
    BY <1>3 DEF GivesExclusive, GivesShared, AbandonsExclusive, AbandonsShared, held,
        HoldsShared, HoldsExclusive
  <2>2. held'[p] = "none"
    BY <1>3 DEF GivesExclusive, GivesShared, AbandonsExclusive, AbandonsShared, held, HoldsShared, HoldsExclusive
  <2>3. held' = [held EXCEPT ![p] = "none"]
    BY <1>0, <2>2
  <2>4. QED BY <2>1, <2>3 DEF RW!RWNext, RW!Release
<1>4. CASE MakesDir(p) \/ RemovesDir(p) \/ Idles(p)
  <2>1. held'[p] = held[p]
    BY <1>4 DEF MakesDir, RemovesDir, Idles, held, HoldsShared, HoldsExclusive
  <2>2. held' = held
    BY <1>0, <2>1
  <2>3. QED BY <2>2
<1>5. QED BY <1>1, <1>2, <1>3, <1>4, ActKinds DEF IInv

(* For any number of processes, pids and salts, the files implement the    *)
(* reader-writer lock.                                                     *)
THEOREM LocksImplementRWLock == Spec => ImplementsRWLock
<1>1. Init => RW!RWInit
  BY DEF Init, RW!RWInit, held, HoldsShared, HoldsExclusive
<1>2. IInv /\ [Next]_vars => [RW!RWNext]_held
  <2>1. ASSUME IInv, Next PROVE [RW!RWNext]_held
    <3>1. PICK p \in Process : Act(p)
      BY <2>1 DEF Next, Act
    <3>2. QED BY <2>1, <3>1, StepRefines
  <2>2. ASSUME UNCHANGED vars PROVE UNCHANGED held
    BY <2>2 DEF vars, held, HoldsShared, HoldsExclusive
  <2>3. QED BY <2>1, <2>2
<1>3. QED BY <1>1, <1>2, LocksInvariant, PTL DEF Spec, ImplementsRWLock, RW!RWSpec
=============================================================================
