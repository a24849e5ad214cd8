----------------------------- MODULE TccProofs -----------------------------
(***************************************************************************)
(* Proofs about Tcc: an inductive invariant of tcc's engine, and what      *)
(* follows from it.                                                        *)
(*                                                                         *)
(* While the engine is at work, each test case by itself is in one of the  *)
(* shapes CaseOK; all of them process the mode that the directive does     *)
(* (Queue, Aborted), a test case with SCF_SKIP_EXEC gets nothing in the    *)
(* mode EXEC (Skips), one that is not built has SCF_SKIP_EXEC, unless it   *)
(* is still being built or the directive ends anyway (Unbuilts), and a     *)
(* lock is exclusive (Exclusive).                                          *)
(***************************************************************************)
EXTENDS Tcc, FiniteSetTheorems, TLAPS

Proctab == [state : Prs, attn : BOOLEAN, armed : BOOLEAN, abort : BOOLEAN,
            currmode : Mode \cup {"START", "END"}, tcstate : Tcs,
            children : BOOLEAN, jnlchild : BOOLEAN, ids : SUBSET System]
Directory == [state : Prs, attn : BOOLEAN, abort : BOOLEAN,
              currmode : Mode \cup {"START", "END"}]

(* The checks of a tool that is not being killed are not counted.          *)
Bound(p) == IF p.tool = "SIGTERM" THEN TERMWAIT
            ELSE IF p.tool = "SIGKILL" THEN KILLWAIT ELSE 0
GoodPart == {p \in Part : p.waitcount <= Bound(p)}

Typed ==
    /\ par \in Directory
    /\ prp \in [TC -> Proctab]
    /\ part \in [TC -> [System -> GoodPart]]
    /\ skip \in SUBSET TC /\ unbuilt \in SUBSET TC /\ pass \in SUBSET TC
    /\ tcc_abort \in BOOLEAN
    /\ phase \in {"engine", "shutdown", "exit"}
    /\ fails \in Nat /\ fails <= MaxFails

(* A test case t with the proctab p and the parts q.                       *)
Quiet(q) == \A s \in System : q[s].tool \notin Active
Lockless(q) == \A s \in System : q[s].srclock = "none" /\ q[s].execlock = "none"
Bare(p, q) == /\ p.ids = {} /\ ~p.children
              /\ Quiet(q) /\ Lockless(q)
              /\ \A s \in System : ~q[s].outfile /\ ~q[s].tmpdir

ModeFor(p) == IF p.currmode = "EXEC" /\ ~InPlace THEN "shared" ELSE "exclusive"
Src(t, p) == p.currmode # "EXEC" \/ ExecDir[t] = NoDir

MayLock(p, s, d) == p.currmode \in ExecLock /\ <<s, d>> \notin ReadOnly

AllLocked(t, p, q) ==
    \A s \in Sys[t] :
        /\ Src(t, p) /\ MayLock(p, s, Dir[t]) => q[s].srclock = ModeFor(p)
        /\ UsesExec(t) /\ MayLock(p, s, ExecDir[t]) => q[s].execlock = ModeFor(p)

Copied(t, q) == \A s \in Sys[t] : q[s].tmpdir

InMode(t, p, q) ==
    /\ p.tcstate \in {"PREBUILD", "BUILD", "BUILDFAIL"} => p.currmode = "BUILD"
    /\ p.tcstate = "CLEAN" => p.currmode = "CLEAN"
    /\ p.tcstate \in {"COPY", "UNLOCK", "EXEC", "SAVE"} => p.currmode = "EXEC"
    /\ p.tcstate \in {"COPY", "UNLOCK"} => ~InPlace
    /\ p.tcstate = "LOCK" => Lockless(q)
    /\ \/ p.tcstate \in {"PREBUILD", "BUILD", "BUILDFAIL", "CLEAN"}
       \/ p.tcstate = "EXEC" /\ InPlace
       \/ p.tcstate = "JOURNAL" /\ p.currmode = "BUILD"
       => AllLocked(t, p, q)
    /\ p.tcstate = "UNLOCK" => Copied(t, q)
    /\ p.tcstate = "EXEC" /\ ~InPlace => Copied(t, q) /\ Lockless(q)

ToolState == {"PREBUILD", "BUILD", "BUILDFAIL", "EXEC", "CLEAN"}

Shape(t, p, q) ==
    /\ p.state \in {"IDLE", "PROCESS", "NEXT", "WAIT"}
    /\ p.state = "IDLE" => p = NoProctab
    /\ p.state = "NEXT" => p.currmode = "END" /\ p.attn
    /\ p.state = "PROCESS" => p.currmode \in Mode \cup {"START"} /\ p.attn
    /\ p.state = "WAIT" => /\ p.currmode \in Mode /\ p.tcstate \in ToolState
                           /\ p.attn \/ p.armed
                           /\ \E s \in Sys[t] : q[s].tool \in Active
    /\ p.state # "WAIT" => Quiet(q)

CaseOK(t, p, q) ==
    /\ Shape(t, p, q)
    /\ p.currmode \notin Mode => Bare(p, q)
    /\ p.currmode \in Mode => InMode(t, p, q)
    /\ \A s \in System : q[s].outfile => q[s].tool \in Active
    /\ \A s \in System : s \notin Sys[t] => q[s] = NoPart

Cases == \A t \in TC : CaseOK(t, prp[t], part[t])

Queue ==
    /\ par.state \in {"PROCESS", "NEXT", "SLEEP", "IDLE"}
    /\ par.state \in {"PROCESS", "NEXT"} => par.attn
    /\ par.state = "PROCESS" => par.currmode \in Mode \cup {"START"}
    /\ par.state = "SLEEP" => par.currmode \in Mode
    /\ par.state # "SLEEP" => runq = {}
    /\ \A t \in TC : prp[t].currmode \in Mode => prp[t].currmode = par.currmode

Aborted ==
    /\ par.abort = tcc_abort
    /\ \A t \in TC : prp[t].state # "IDLE" => prp[t].abort = tcc_abort

Skips ==
    \A t \in TC : prp[t].currmode = "EXEC" /\ t \in skip =>
        prp[t].state = "PROCESS" /\ prp[t].tcstate = "END" /\ Bare(prp[t], part[t])

(* The build has begun and can still succeed.                              *)
Pending(p) == /\ p.currmode = "BUILD"
              /\ p.tcstate = "PREBUILD" \/ (p.tcstate = "BUILD" /\ p.state = "PROCESS")

Unbuilts ==
    \A t \in unbuilt : \/ t \in skip
                       \/ par.abort /\ par.currmode # "EXEC"
                       \/ Pending(prp[t])

Dirs == {Dir[t] : t \in TC} \cup {ExecDir[t] : t \in TC}

LocksOf(t, q, s, d) == {m \in {"shared", "exclusive"} :
                            \/ Dir[t] = d /\ q[s].srclock = m
                            \/ ExecDir[t] = d /\ q[s].execlock = m}

Exclusive ==
    \A t, u \in TC : \A s \in System, d \in Dirs :
        t # u /\ "exclusive" \in Locks(t, s, d) => Locks(u, s, d) = {}

Turning == Cases /\ Queue /\ Aborted /\ Skips /\ Unbuilts /\ Exclusive

IInv == Typed /\ NotExecutedUnbuilt /\ (phase = "engine" => Turning)

(* There is a test case that will wake the sleeping directive up.          *)
Awake == phase = "engine" /\ par.state = "SLEEP" => runq # {}

-----------------------------------------------------------------------------
(***************************************************************************)
(* Constants and operators                                                 *)
(***************************************************************************)
LEMMA SysIsSubset ==
    ASSUME NEW t \in TC
    PROVE  Sys[t] \subseteq System /\ Sys[t] # {} /\ IsFiniteSet(Sys[t])
<1>1. Sys[t] \subseteq System /\ Sys[t] # {} /\ IsFiniteSet(System)
    BY TccAssumption
<1> QED BY <1>1, FS_Subset

(* nextmode() finds a mode, or END; after an abort it is END.              *)
LEMMA NextmodeIs ==
    ASSUME NEW abort \in BOOLEAN, NEW modes \in SUBSET Mode, NEW m \in Mode \cup {"START"}
    PROVE  /\ nextmode(abort, modes, m) \in modes \cup {"END"}
           /\ abort => nextmode(abort, modes, m) = "END"
<1> DEFINE later == {n \in modes \cup {"END"} : order[n] > order[m]}
           least(n) == n \in later /\ \A o \in later : order[n] <= order[o]
<1>1. /\ order["START"] = 0 /\ order["BUILD"] = 1 /\ order["EXEC"] = 2
      /\ order["CLEAN"] = 3 /\ order["END"] = 4
    BY DEF order
<1>2. modes \cup {"END"} \subseteq {"BUILD", "EXEC", "CLEAN", "END"}
    BY DEF Mode
<1>3. order[m] \in 0..3
    BY <1>1 DEF Mode
<1>4. "END" \in later
    BY <1>1, <1>3
<1>5. \E n \in later : least(n)
    <2>0. \A o \in later : o \in {"BUILD", "EXEC", "CLEAN", "END"}
        BY <1>2
    <2> HIDE DEF later
    <2>1. CASE "BUILD" \in later
        BY <2>0, <2>1, <1>1
    <2>2. CASE "BUILD" \notin later /\ "EXEC" \in later
        BY <2>0, <2>2, <1>1
    <2>3. CASE "BUILD" \notin later /\ "EXEC" \notin later /\ "CLEAN" \in later
        BY <2>0, <2>3, <1>1
    <2>4. CASE "BUILD" \notin later /\ "EXEC" \notin later /\ "CLEAN" \notin later
        BY <2>0, <2>4, <1>1, <1>4
    <2> QED BY <2>1, <2>2, <2>3, <2>4
<1> DEFINE c == CHOOSE n \in later : \A o \in later : order[n] <= order[o]
<1>6. c \in later
    <2> HIDE DEF later
    <2> QED BY <1>5
<1>7. nextmode(abort, modes, m) = IF abort THEN "END" ELSE c
    BY DEF nextmode
<1> HIDE DEF c
<1> QED BY <1>6, <1>7

(* A child of the directive processes its mode, or ends.                   *)
LEMMA ChildMode ==
    ASSUME NEW abort \in BOOLEAN, NEW c \in Mode
    PROVE  nextmode(abort, {c}, "START") = IF abort THEN "END" ELSE c
<1> DEFINE later == {n \in {c} \cup {"END"} : order[n] > order["START"]}
<1>1. /\ order["START"] = 0 /\ order["END"] = 4
      /\ order[c] \in 1..3
    BY DEF order, Mode
<1>2. later = {c, "END"}
    BY <1>1
<1>3. (CHOOSE n \in later : \A o \in later : order[n] <= order[o]) = c
    <2>1. c \in later /\ \A o \in later : order[c] <= order[o]
        BY <1>1, <1>2
    <2>2. ASSUME NEW n \in later, \A o \in later : order[n] <= order[o]
          PROVE  n = c
        BY <1>1, <1>2, <2>2
    <2> HIDE DEF later
    <2> QED BY <2>1, <2>2
<1> QED BY <1>3 DEF nextmode

LEMMA NextsAre ==
    ASSUME NEW p \in Proctab, NEW rc \in {0, -1}
    PROVE  LET n == nexttcstate(p, rc)
           IN  /\ p.tcstate = "START" => n \in {"LOCK", "END"}
               /\ p.tcstate = "START" /\ rc = -1 => n = "END"
               /\ p.tcstate = "UNLOCK" /\ p.currmode = "EXEC" /\ ~InPlace => n \in {"EXEC", "END"}
               /\ p.tcstate = "COPY" => n = "END" \/ (n = "UNLOCK" /\ rc = 0)
               /\ p.tcstate = "PREBUILD" => \/ n = "END"
                                            \/ n = "BUILDFAIL" /\ rc = -1
                                            \/ n = "BUILD" /\ rc = 0
               /\ p.tcstate = "BUILD" => n \in {"BUILDFAIL", "END"} \/ (n = "JOURNAL" /\ rc = 0)
               /\ p.tcstate \in {"EXEC", "CLEAN"} => n \in {"JOURNAL", "END"}
               /\ p.tcstate = "JOURNAL" /\ p.currmode = "BUILD" => n \in {"BUILDFAIL", "END"}
               /\ p.tcstate = "JOURNAL" /\ p.currmode = "EXEC" => n = "SAVE"
               /\ p.tcstate = "JOURNAL" /\ p.currmode = "CLEAN" => n = "END"
               /\ p.tcstate \in {"BUILDFAIL", "SAVE"} => n = "END"
               /\ p.tcstate = "LOCK" /\ p.currmode \in Mode =>
                     \/ n = "END"
                     \/ rc = 0 /\ n = AfterLock(p.currmode)
BY DEF nexttcstate, EndsEarly, AfterSuccess, AfterFailure, Mode, Proctab, Tcs

(* The states LOCK and PREBUILD end a test case that has failed, or after  *)
(* an abort.                                                               *)
LEMMA EndsAre ==
    ASSUME NEW p \in Proctab, NEW rc \in {0, -1}, p.currmode \in Mode,
           p.tcstate \in {"LOCK", "PREBUILD"}, nexttcstate(p, rc) = "END"
    PROVE  rc = -1 \/ p.abort
<1>1. AfterLock(p.currmode) # "END"
    BY DEF AfterLock, Mode
<1> QED BY <1>1 DEF nexttcstate, EndsEarly, AfterSuccess

(* What has been written to a part is a part.                              *)
LEMMA PartIs ==
    ASSUME NEW p \in GoodPart
    PROVE  /\ p.tool \in Pts /\ p.waitcount \in Nat
           /\ p.alive \in BOOLEAN /\ p.late \in BOOLEAN /\ p.ok \in BOOLEAN
           /\ p.outfile \in BOOLEAN /\ p.tmpdir \in BOOLEAN
           /\ p.srclock \in LockMode /\ p.execlock \in LockMode
           /\ p.tool = "SIGTERM" => p.waitcount <= TERMWAIT
           /\ p.tool = "SIGKILL" => p.waitcount <= KILLWAIT
           /\ p.tool \notin {"SIGTERM", "SIGKILL"} => p.waitcount = 0
BY TccAssumption DEF GoodPart, Part, Bound

LEMMA NoPartIsGood == NoPart \in GoodPart
BY DEF NoPart, GoodPart, Part, Bound, Pts, LockMode

LEMMA PartsAreGood ==
    ASSUME NEW p \in GoodPart
    PROVE  /\ Unlocked(p) \in GoodPart
           /\ EndedPart(p) \in GoodPart
           /\ quick_killtc(p) \in GoodPart
           /\ Interrupted(p) \in GoodPart
           /\ [p EXCEPT !.alive = FALSE] \in GoodPart
           /\ [p EXCEPT !.late = TRUE] \in GoodPart
           /\ \A b \in BOOLEAN : [p EXCEPT !.tmpdir = b] \in GoodPart
           /\ \A m \in LockMode, n \in LockMode :
                 [p EXCEPT !.srclock = m, !.execlock = n] \in GoodPart
           /\ p.tool \notin Active =>
                 /\ \A out \in BOOLEAN : Run(p, out) \in GoodPart
                 /\ [p EXCEPT !.tool = "IDLE", !.ok = TRUE] \in GoodPart
<1>1. /\ Unlocked(p) \in GoodPart
      /\ EndedPart(p) \in GoodPart
      /\ [p EXCEPT !.alive = FALSE] \in GoodPart
      /\ [p EXCEPT !.late = TRUE] \in GoodPart
      /\ \A b \in BOOLEAN : [p EXCEPT !.tmpdir = b] \in GoodPart
      /\ \A m \in LockMode, n \in LockMode :
            [p EXCEPT !.srclock = m, !.execlock = n] \in GoodPart
    BY DEF GoodPart, Part, Bound, Unlocked, EndedPart, LockMode
<1>2. quick_killtc(p) \in GoodPart /\ Interrupted(p) \in GoodPart
    BY TccAssumption DEF GoodPart, Part, Bound, quick_killtc, Interrupted, Pts
<1>3. ASSUME p.tool \notin Active, NEW out \in BOOLEAN
      PROVE  Run(p, out) \in GoodPart
    BY <1>3 DEF GoodPart, Part, Bound, Run, Pts, Active
<1>4. ASSUME p.tool \notin Active
      PROVE  [p EXCEPT !.tool = "IDLE", !.ok = TRUE] \in GoodPart
    BY <1>4 DEF GoodPart, Part, Bound, Pts, Active
<1> QED BY <1>1, <1>2, <1>3, <1>4

LEMMA ExitedIs ==
    ASSUME NEW p \in GoodPart, NEW ok \in BOOLEAN
    PROVE  LET r == Exited(p, ok)
           IN  /\ r \in GoodPart
               /\ r.srclock = p.srclock /\ r.execlock = p.execlock /\ r.tmpdir = p.tmpdir
               /\ r.outfile = FALSE
<1>1. Exited(p, ok) \in Part
    BY DEF Exited, GoodPart, Part, Pts
<1>2. Exited(p, ok).tool = "EXITED" /\ Exited(p, ok).waitcount = 0
    BY DEF Exited, GoodPart, Part
<1>3. Bound(Exited(p, ok)) = 0
    BY <1>2 DEF Bound
<1>4. Exited(p, ok) \in GoodPart
    BY <1>1, <1>2, <1>3 DEF GoodPart
<1>5. LET r == Exited(p, ok)
      IN  /\ r.srclock = p.srclock /\ r.execlock = p.execlock /\ r.tmpdir = p.tmpdir
          /\ r.outfile = FALSE
    BY DEF Exited, GoodPart, Part
<1> QED BY <1>4, <1>5

LEMMA SignalledIs ==
    ASSUME NEW p \in GoodPart, NEW sig \in {"SIGTERM", "SIGKILL"}, NEW n \in Nat,
           n <= IF sig = "SIGTERM" THEN TERMWAIT ELSE KILLWAIT
    PROVE  LET r == Signalled(p, sig, n)
           IN  /\ r \in GoodPart
               /\ r.srclock = p.srclock /\ r.execlock = p.execlock /\ r.tmpdir = p.tmpdir
               /\ r.tool \in Active
<1>1. Signalled(p, sig, n) \in Part
    BY DEF Signalled, GoodPart, Part, Pts
<1>2. Signalled(p, sig, n).tool = sig /\ Signalled(p, sig, n).waitcount = n
    BY DEF Signalled, GoodPart, Part
<1>3. Bound(Signalled(p, sig, n)) = IF sig = "SIGTERM" THEN TERMWAIT ELSE KILLWAIT
    BY <1>2 DEF Bound
<1>4. Signalled(p, sig, n) \in GoodPart
    BY <1>1, <1>2, <1>3 DEF GoodPart
<1>5. LET r == Signalled(p, sig, n)
      IN  /\ r.srclock = p.srclock /\ r.execlock = p.execlock /\ r.tmpdir = p.tmpdir
          /\ r.tool \in Active
    BY DEF Signalled, GoodPart, Part, Active
<1> QED BY <1>4, <1>5

LEMMA CountIs ==
    ASSUME NEW p \in GoodPart
    PROVE  /\ Count(p) \in Nat /\ Count(p) <= p.waitcount
           /\ LET r == [p EXCEPT !.waitcount = Count(p)]
              IN  /\ r \in GoodPart /\ r.tool = p.tool
                  /\ r.srclock = p.srclock /\ r.execlock = p.execlock /\ r.tmpdir = p.tmpdir
<1> DEFINE r == [p EXCEPT !.waitcount = Count(p)]
<1>0. p.waitcount \in Nat /\ p \in Part /\ p.waitcount <= Bound(p)
    BY PartIs DEF GoodPart
<1>1. Count(p) \in Nat /\ Count(p) <= p.waitcount
    BY <1>0 DEF Count
<1>2. r \in Part
    BY <1>0, <1>1 DEF Part
<1>3. /\ r.tool = p.tool /\ r.waitcount = Count(p)
      /\ r.srclock = p.srclock /\ r.execlock = p.execlock /\ r.tmpdir = p.tmpdir
    BY <1>0 DEF Part
<1>4. Bound(r) = Bound(p) /\ Bound(p) \in Nat
    BY <1>3, TccAssumption DEF Bound
<1> HIDE DEF r
<1>5. r \in GoodPart
    BY <1>0, <1>1, <1>2, <1>3, <1>4 DEF GoodPart
<1> QED BY <1>1, <1>3, <1>5 DEF r

(* toolwait() gives up nothing but a tool and its output file.             *)
LEMMA ToolwaitIs ==
    ASSUME NEW p \in GoodPart, NEW fail \in BOOLEAN, NEW ok \in BOOLEAN,
           p.outfile => p.tool \in Active
    PROVE  LET r == toolwait(p, fail, ok)
           IN  /\ r \in GoodPart
               /\ r.srclock = p.srclock /\ r.execlock = p.execlock /\ r.tmpdir = p.tmpdir
               /\ r.outfile => r.tool \in Active
<1> DEFINE r == toolwait(p, fail, ok)
<1>0. TERMWAIT \in Nat /\ KILLWAIT \in Nat /\ FALSE \in BOOLEAN
    BY TccAssumption
<1>1. \/ r = p
      \/ r = Exited(p, ok) \/ r = Exited(p, FALSE)
      \/ r = Signalled(p, "SIGTERM", TERMWAIT)
      \/ r = Signalled(p, "SIGKILL", KILLWAIT)
      \/ r = [p EXCEPT !.waitcount = Count(p)] /\ p.tool \in Active
    <2>1. CASE p.tool \notin Active
        BY <2>1 DEF toolwait
    <2>2. CASE p.tool \in Active /\ (~p.alive \/ fail)
        BY <2>2 DEF toolwait
    <2>3. CASE p.tool \in Active /\ p.alive /\ ~fail
        <3>1. r = toolrun2(p)
            BY <2>3 DEF toolwait
        <3>2. Count(p) > 0 \/ Count(p) = 0
            <4>1. Count(p) \in Nat
                BY CountIs
            <4> QED BY <4>1
        <3>3. CASE p.tool = "RUNNING"
            BY <3>1, <3>3 DEF toolrun2
        <3>4. CASE p.tool = "ABORT"
            BY <3>1, <3>4 DEF toolrun2
        <3>5. CASE p.tool = "SIGTERM" /\ Count(p) > 0
            BY <3>1, <3>5, <2>3 DEF toolrun2
        <3>6. CASE p.tool = "SIGTERM" /\ Count(p) = 0
            BY <3>1, <3>6 DEF toolrun2
        <3>7. CASE p.tool = "SIGKILL" /\ Count(p) > 0
            BY <3>1, <3>7, <2>3 DEF toolrun2
        <3>8. CASE p.tool = "SIGKILL" /\ Count(p) = 0
            BY <3>1, <3>8 DEF toolrun2
        <3> QED BY <2>3, <3>2, <3>3, <3>4, <3>5, <3>6, <3>7, <3>8 DEF Active
    <2> QED BY <2>1, <2>2, <2>3
<1> HIDE DEF r
<1>2. CASE r = p
    BY <1>2 DEF r
<1>3. CASE r = Exited(p, ok) \/ r = Exited(p, FALSE)
    <2>1. PICK b \in BOOLEAN : r = Exited(p, b)
        BY <1>0, <1>3
    <2>2. /\ Exited(p, b) \in GoodPart
          /\ Exited(p, b).srclock = p.srclock /\ Exited(p, b).execlock = p.execlock
          /\ Exited(p, b).tmpdir = p.tmpdir /\ Exited(p, b).outfile = FALSE
        BY ExitedIs
    <2> QED BY <2>1, <2>2 DEF r
<1>4. CASE r = Signalled(p, "SIGTERM", TERMWAIT)
    BY <1>0, <1>4, SignalledIs DEF r
<1>5. CASE r = Signalled(p, "SIGKILL", KILLWAIT)
    BY <1>0, <1>5, SignalledIs DEF r
<1>6. CASE r = [p EXCEPT !.waitcount = Count(p)] /\ p.tool \in Active
    BY <1>6, CountIs DEF r
<1> QED BY <1>1, <1>2, <1>3, <1>4, <1>5, <1>6

-----------------------------------------------------------------------------
(***************************************************************************)
(* Steps                                                                   *)
(***************************************************************************)
(* A test case whose tools are at work in the mode EXEC is built.          *)
LEMMA Built ==
    ASSUME Typed', Turning'
    PROVE  NotExecutedUnbuilt'
<1> SUFFICES ASSUME NEW t \in TC, prp[t].currmode' = "EXEC", Working(t)'
             PROVE  t \notin unbuilt'
    BY DEF NotExecutedUnbuilt
<1>1. PICK s \in Sys[t] : part[t][s].tool' \in Active
    BY DEF Working
<1>2. s \in System
    BY SysIsSubset
<1>3. CaseOK(t, prp[t], part[t])'
    BY DEF Turning, Cases
<1>4. prp[t].state' = "WAIT"
    <2>1. (prp[t].state # "WAIT" => Quiet(part[t]))'
        BY <1>3 DEF CaseOK, Shape
    <2> QED BY <1>1, <1>2, <2>1 DEF Quiet
<1>5. t \notin skip'
    BY <1>4 DEF Turning, Skips
<1>6. par.currmode' = "EXEC"
    BY DEF Turning, Queue, Mode
<1> QED BY <1>5, <1>6 DEF Turning, Unbuilts, Pending

(* A step that the engine makes for the one test case t.                   *)
LEMMA One ==
    ASSUME IInv, phase = "engine",
           NEW t \in TC, NEW p \in Proctab, NEW q \in [System -> GoodPart],
           prp' = [prp EXCEPT ![t] = p], part' = [part EXCEPT ![t] = q],
           par' = par, tcc_abort' = tcc_abort, phase' = phase,
           prp[t].state # "IDLE", p.state # "IDLE",
           skip' \in SUBSET TC, skip \subseteq skip', skip' \subseteq skip \cup {t},
           unbuilt' \in SUBSET TC, unbuilt' \subseteq unbuilt \cup {t},
           pass' \in SUBSET TC, fails' \in Nat, fails <= fails', fails' <= MaxFails,
           CaseOK(t, p, q),
           p.abort = prp[t].abort,
           p.currmode \in Mode => p.currmode = par.currmode,
           p.currmode = "EXEC" /\ t \in skip' =>
               p.state = "PROCESS" /\ p.tcstate = "END" /\ Bare(p, q),
           t \in unbuilt' => \/ t \in skip'
                             \/ par.abort /\ par.currmode # "EXEC"
                             \/ Pending(p),
           \A s \in System, d \in Dirs :
               \A m \in LocksOf(t, q, s, d) : m \in Locks(t, s, d) \/ Free(s, d, m)
    PROVE  IInv' /\ runq' # {}
<1>0. Typed /\ Turning
    BY DEF IInv
<1>1. /\ prp' \in [TC -> Proctab] /\ part' \in [TC -> [System -> GoodPart]]
      /\ prp'[t] = p /\ part'[t] = q
      /\ \A u \in TC : u # t => prp'[u] = prp[u] /\ part'[u] = part[u]
    BY <1>0 DEF Typed
<1>2. Typed'
    BY <1>0, <1>1 DEF Typed
<1>3. Cases'
    <2>1. \A u \in TC : CaseOK(u, prp'[u], part'[u])
        BY <1>0, <1>1 DEF Turning, Cases
    <2> QED BY <2>1 DEF Cases, CaseOK, Shape, InMode, Bare, Quiet, Lockless, AllLocked, Copied
<1>4. runq' = runq
    BY <1>1 DEF runq
<1>5. Queue'
    <2>1. Queue
        BY <1>0 DEF Turning
    <2>2. \A u \in TC : prp'[u].currmode \in Mode => prp'[u].currmode = par.currmode
        BY <2>1, <1>1 DEF Queue
    <2> QED BY <2>1, <2>2, <1>4 DEF Queue
<1>6. Aborted'
    BY <1>0, <1>1 DEF Turning, Aborted
<1>7. Skips'
    <2> SUFFICES ASSUME NEW u \in TC, prp'[u].currmode = "EXEC", u \in skip'
                 PROVE  prp'[u].state = "PROCESS" /\ prp'[u].tcstate = "END" /\ Bare(prp'[u], part'[u])
        BY DEF Skips, Bare, Quiet, Lockless
    <2>1. CASE u = t
        BY <2>1, <1>1
    <2>2. CASE u # t
        BY <2>2, <1>0, <1>1 DEF Turning, Skips
    <2> QED BY <2>1, <2>2
<1>8. Unbuilts'
    <2> SUFFICES ASSUME NEW u \in unbuilt'
                 PROVE  \/ u \in skip'
                        \/ par.abort /\ par.currmode # "EXEC"
                        \/ Pending(prp'[u])
        BY DEF Unbuilts, Pending
    <2>1. CASE u = t
        BY <2>1, <1>1
    <2>2. CASE u # t
        BY <2>2, <1>0, <1>1 DEF Turning, Unbuilts
    <2> QED BY <2>1, <2>2
<1>9. Exclusive'
    <2> SUFFICES ASSUME NEW u \in TC, NEW v \in TC, NEW s \in System, NEW d \in Dirs,
                        u # v, "exclusive" \in LocksOf(u, part'[u], s, d)
                 PROVE  LocksOf(v, part'[v], s, d) = {}
        BY DEF Exclusive, Locks, LocksOf, Dirs
    <2>0. /\ \A x \in TC : Locks(x, s, d) = LocksOf(x, part[x], s, d)
          /\ \A x, y \in TC : x # y /\ "exclusive" \in Locks(x, s, d) => Locks(y, s, d) = {}
        <3>1. \A x \in TC : Locks(x, s, d) = LocksOf(x, part[x], s, d)
            BY DEF Locks, LocksOf
        <3>2. \A x, y \in TC : x # y /\ "exclusive" \in Locks(x, s, d) => Locks(y, s, d) = {}
            BY <1>0 DEF Turning, Exclusive
        <3> QED BY <3>1, <3>2
    <2>1. CASE u # t /\ v # t
        BY <2>0, <2>1, <1>1
    <2>2. CASE u = t
        <3>1. "exclusive" \in Locks(t, s, d) \/ Free(s, d, "exclusive")
            BY <2>2, <1>1
        <3>2. Locks(v, s, d) = {}
            BY <2>0, <2>2, <3>1 DEF Free
        <3> QED BY <2>0, <2>2, <3>2, <1>1
    <2>3. CASE v = t /\ u # t
        <3>1. "exclusive" \in Locks(u, s, d)
            BY <2>0, <2>3, <1>1
        <3>2. \A m \in {"shared", "exclusive"} : ~Free(s, d, m)
            BY <3>1 DEF Free
        <3>3. Locks(t, s, d) = {}
            BY <2>0, <2>3, <3>1
        <3>4. LocksOf(t, q, s, d) \subseteq {"shared", "exclusive"}
            BY DEF LocksOf
        <3> QED BY <2>3, <3>2, <3>3, <3>4, <1>1
    <2> QED BY <2>1, <2>2, <2>3
<1>10. Turning'
    BY <1>3, <1>5, <1>6, <1>7, <1>8, <1>9 DEF Turning
<1>11. runq' # {}
    BY <1>4 DEF runq
<1> QED BY <1>2, <1>10, <1>11, Built DEF IInv

(* What Parts(t, f) assigns.                                               *)
Merged(t, f) == [s \in System |-> IF s \in Sys[t] THEN f[s] ELSE part[t][s]]

LEMMA PartsIs ==
    ASSUME Typed, NEW t \in TC, NEW f, Parts(t, f), \A s \in Sys[t] : f[s] \in GoodPart
    PROVE  /\ Merged(t, f) \in [System -> GoodPart]
           /\ part' = [part EXCEPT ![t] = Merged(t, f)]
           /\ \A s \in System : Merged(t, f)[s] = IF s \in Sys[t] THEN f[s] ELSE part[t][s]
           /\ \A s \in Sys[t] : Merged(t, f)[s] = f[s]
<1>1. part[t] \in [System -> GoodPart]
    BY DEF Typed
<1>2. Merged(t, f) \in [System -> GoodPart]
    BY <1>1 DEF Merged
<1>3. part' = [part EXCEPT ![t] = Merged(t, f)]
    BY DEF Parts, Merged
<1>4. Sys[t] \subseteq System
    BY SysIsSubset
<1> QED BY <1>2, <1>3, <1>4 DEF Merged

LEMMA Unchanged ==
    ASSUME Typed, NEW t \in TC, part' = part
    PROVE  part' = [part EXCEPT ![t] = part[t]] /\ part[t] \in [System -> GoodPart]
BY DEF Typed

(* What is known of a test case that is serviced in a state of a mode.     *)
LEMMA Inside ==
    ASSUME IInv, NEW t \in TC, NEW tcs, In(t, tcs)
    PROVE  /\ phase = "engine" /\ Typed /\ Turning
           /\ prp[t] \in Proctab /\ part[t] \in [System -> GoodPart]
           /\ prp[t].state = "PROCESS" /\ prp[t].state # "IDLE"
           /\ prp[t].currmode \in Mode /\ prp[t].tcstate \in tcs
           /\ pass' \in SUBSET TC
           /\ CaseOK(t, prp[t], part[t])
           /\ InMode(t, prp[t], part[t])
           /\ Quiet(part[t])
           /\ prp[t].currmode = par.currmode
           /\ prp[t].abort = tcc_abort
           /\ prp[t].currmode = "EXEC" /\ t \in skip =>
                 prp[t].tcstate = "END" /\ Bare(prp[t], part[t])
<1>1. phase = "engine" /\ Typed /\ Turning /\ prp[t].state = "PROCESS"
    BY DEF In, Serviced, IInv
<1>2. /\ prp[t] \in Proctab /\ part[t] \in [System -> GoodPart]
      /\ prp[t].currmode \in Mode /\ prp[t].tcstate \in tcs
      /\ pass' \in SUBSET TC
    BY <1>1 DEF In, Serviced, Typed
<1>3. CaseOK(t, prp[t], part[t])
    BY <1>1 DEF Turning, Cases
<1>4. InMode(t, prp[t], part[t]) /\ Quiet(part[t])
    BY <1>1, <1>2, <1>3 DEF CaseOK, Shape
<1> QED BY <1>1, <1>2, <1>3, <1>4 DEF Turning, Queue, Aborted, Skips

(* Locks that are kept or given up are nobody else's.                      *)
LEMMA LocksShrink ==
    ASSUME NEW t \in TC, NEW q \in [System -> GoodPart],
           \A s \in System : /\ q[s].srclock \in {part[t][s].srclock, "none"}
                             /\ q[s].execlock \in {part[t][s].execlock, "none"}
    PROVE  \A s \in System, d \in Dirs :
               \A m \in LocksOf(t, q, s, d) : m \in Locks(t, s, d) \/ Free(s, d, m)
BY DEF LocksOf, Locks

LEMMA ProceedIs ==
    ASSUME NEW p \in Proctab, NEW rc \in {0, -1}, p.currmode \in Mode, p.tcstate # "END"
    PROVE  LET r == Proceed(p, rc)
           IN  /\ r.state = "PROCESS" /\ r.attn = TRUE /\ r.tcstate = nexttcstate(p, rc)
               /\ r.currmode = p.currmode /\ r.abort = p.abort /\ r.ids = p.ids
               /\ r.armed = p.armed /\ r.children = p.children /\ r.jnlchild = p.jnlchild
               /\ r \in Proctab
<1>1. nexttcstate(p, rc) \in Tcs
    <2>1. p.tcstate \in Tcs \ {"END"}
        BY DEF Proctab
    <2> QED BY <2>1 DEF nexttcstate, EndsEarly, AfterSuccess, AfterFailure, AfterLock, Mode, Proctab, Tcs
<1> HIDE DEF Tcs
<1> QED BY <1>1 DEF Proceed, Proctab, Prs

LEMMA WaitIs ==
    ASSUME NEW p \in Proctab
    PROVE  LET r == Wait(p)
           IN  /\ r.state = "WAIT" /\ r.attn = FALSE /\ r.armed = TRUE /\ r.tcstate = p.tcstate
               /\ r.currmode = p.currmode /\ r.abort = p.abort /\ r.ids = p.ids
               /\ r.children = p.children /\ r.jnlchild = p.jnlchild
               /\ r \in Proctab
BY DEF Wait, Proctab, Prs

LEMMA FailIs ==
    ASSUME Typed, NEW F, IsFiniteSet(F), NEW op, Fail(op, F)
    PROVE  fails' \in Nat /\ fails <= fails' /\ fails' <= MaxFails
<1>1. Cardinality(F) \in Nat
    BY FS_CardinalityType
<1> QED BY <1>1 DEF Typed, Fail

LEMMA SkipIs ==
    ASSUME Typed, NEW t \in TC, NEW failed, SkipIf(t, failed)
    PROVE  /\ skip' \in SUBSET TC /\ skip \subseteq skip' /\ skip' \subseteq skip \cup {t}
           /\ prp[t].currmode # "BUILD" => skip' = skip
           /\ failed /\ prp[t].currmode = "BUILD" => t \in skip'
BY DEF Typed, SkipIf

(* The test case t goes on, or waits for its tools, within its mode.       *)
LEMMA StepOn ==
    ASSUME IInv, phase = "engine", NEW t \in TC,
           prp[t].state \in {"PROCESS", "WAIT"}, prp[t].currmode \in Mode,
           prp[t].tcstate # "END",
           NEW p \in Proctab, NEW q \in [System -> GoodPart],
           prp' = [prp EXCEPT ![t] = p], part' = [part EXCEPT ![t] = q],
           par' = par, tcc_abort' = tcc_abort, phase' = phase,
           skip' \in SUBSET TC, skip \subseteq skip', skip' \subseteq skip \cup {t},
           prp[t].currmode # "BUILD" => skip' = skip,
           unbuilt' \in SUBSET TC, unbuilt' \subseteq unbuilt \cup {t},
           pass' \in SUBSET TC, fails' \in Nat, fails <= fails', fails' <= MaxFails,
           p.currmode = prp[t].currmode, p.abort = prp[t].abort,
           \/ p.state = "PROCESS" /\ p.attn /\ Quiet(q)
           \/ /\ p.state = "WAIT" /\ p.armed /\ p.tcstate \in ToolState
              /\ \E s \in Sys[t] : q[s].tool \in Active,
           InMode(t, p, q),
           \A s \in System : q[s].outfile => q[s].tool \in Active,
           \A s \in System : s \notin Sys[t] => q[s] = part[t][s],
           t \in unbuilt' => \/ t \in skip'
                             \/ par.abort /\ par.currmode # "EXEC"
                             \/ Pending(p),
           \A s \in System, d \in Dirs :
               \A m \in LocksOf(t, q, s, d) : m \in Locks(t, s, d) \/ Free(s, d, m)
    PROVE  IInv' /\ runq' # {}
<1>0. Typed /\ Turning /\ CaseOK(t, prp[t], part[t])
    BY DEF IInv, Turning, Cases
<1>1. p.state # "IDLE" /\ prp[t].state # "IDLE"
    OBVIOUS
<1>2. CaseOK(t, p, q)
    <2>1. Shape(t, p, q)
        BY DEF Shape
    <2>2. \A s \in System : s \notin Sys[t] => q[s] = NoPart
        BY <1>0 DEF CaseOK
    <2> QED BY <2>1, <2>2 DEF CaseOK
<1>3. p.currmode \in Mode => p.currmode = par.currmode
    BY <1>0 DEF Turning, Queue
<1>4. ~(p.currmode = "EXEC" /\ t \in skip')
    BY <1>0 DEF Turning, Skips
<1> QED BY <1>1, <1>2, <1>3, <1>4, One

-----------------------------------------------------------------------------
LEMMA LockStep ==
    ASSUME IInv, NEW t \in TC, tcs_lock(t)
    PROVE  IInv' /\ runq' # {}
<1>1. In(t, {"LOCK"})
    BY DEF tcs_lock
<1>2. PICK F \in SUBSET (Sys[t] \X {"src", "exec"}) :
         /\ Fail("lock", F)
         /\ Parts(t, [s \in Sys[t] |-> tcs1_lock(t, s, F)])
         /\ SkipIf(t, \E s \in Sys[t] : ~LockSucceeds(t, s, F))
         /\ Become(t, Proceed(prp[t], Rc(\E s \in Sys[t] : ~LockSucceeds(t, s, F))))
    BY DEF tcs_lock
<1> DEFINE failed == \E s \in Sys[t] : ~LockSucceeds(t, s, F)
           f == [s \in Sys[t] |-> tcs1_lock(t, s, F)]
           rc == Rc(failed)
           p == Proceed(prp[t], rc)
           q == Merged(t, f)
<1>3. /\ phase = "engine" /\ Typed /\ Turning
      /\ prp[t] \in Proctab /\ part[t] \in [System -> GoodPart]
      /\ prp[t].state = "PROCESS" /\ prp[t].currmode \in Mode /\ prp[t].tcstate = "LOCK"
      /\ pass' \in SUBSET TC
      /\ CaseOK(t, prp[t], part[t]) /\ InMode(t, prp[t], part[t]) /\ Quiet(part[t])
      /\ prp[t].currmode = par.currmode /\ prp[t].abort = tcc_abort
    BY <1>1, Inside
<1>4. Sys[t] \subseteq System /\ IsFiniteSet(Sys[t])
    BY SysIsSubset
<1>5. Lockless(part[t])
    BY <1>3 DEF InMode
<1>6. LockModeFor(t) = ModeFor(prp[t]) /\ LockModeFor(t) \in {"shared", "exclusive"}
    BY DEF LockModeFor, ModeFor
<1> DEFINE src(s) == /\ WantsSrclock(t) /\ GetsSrclock(t, s, F)
                     /\ <<s, Dir[t]>> \notin ReadOnly
           exec(s) == /\ WantsExeclock(t) /\ GetsExeclock(t, s, F)
                      /\ <<s, ExecDir[t]>> \notin ReadOnly
<1>7. \A s \in Sys[t] :
         /\ f[s] \in GoodPart
         /\ f[s].tool = part[t][s].tool /\ f[s].outfile = part[t][s].outfile
         /\ f[s].srclock = IF src(s) THEN LockModeFor(t) ELSE "none"
         /\ f[s].execlock = IF exec(s) THEN LockModeFor(t) ELSE "none"
    <2> SUFFICES ASSUME NEW s \in Sys[t]
                 PROVE  /\ f[s] \in GoodPart
                        /\ f[s].tool = part[t][s].tool /\ f[s].outfile = part[t][s].outfile
                        /\ f[s].srclock = IF src(s) THEN LockModeFor(t) ELSE "none"
                        /\ f[s].execlock = IF exec(s) THEN LockModeFor(t) ELSE "none"
        OBVIOUS
    <2> DEFINE m == IF src(s) THEN LockModeFor(t) ELSE "none"
               n == IF exec(s) THEN LockModeFor(t) ELSE "none"
    <2>1. part[t][s] \in GoodPart /\ part[t][s].srclock = "none" /\ part[t][s].execlock = "none"
        BY <1>3, <1>4, <1>5 DEF Lockless
    <2>2. f[s] = [part[t][s] EXCEPT !.srclock = m, !.execlock = n]
        BY <2>1 DEF tcs1_lock
    <2>3. m \in LockMode /\ n \in LockMode
        BY <1>6 DEF LockMode
    <2> HIDE DEF f, m, n
    <2>4. f[s] \in GoodPart
        <3>1. [part[t][s] EXCEPT !.srclock = m, !.execlock = n] \in GoodPart
            BY <2>1, <2>3, PartsAreGood
        <3> QED BY <2>2, <3>1
    <2>5. /\ f[s].tool = part[t][s].tool /\ f[s].outfile = part[t][s].outfile
          /\ f[s].srclock = m /\ f[s].execlock = n
        BY <2>1, <2>2 DEF GoodPart, Part
    <2> QED BY <2>4, <2>5 DEF m, n
<1>8. /\ q \in [System -> GoodPart] /\ part' = [part EXCEPT ![t] = q]
      /\ \A s \in System : q[s] = IF s \in Sys[t] THEN f[s] ELSE part[t][s]
    <2>1. Parts(t, f) /\ \A s \in Sys[t] : f[s] \in GoodPart
        BY <1>2, <1>7
    <2> HIDE DEF f
    <2> QED BY <2>1, <1>3, PartsIs
<1>9. fails' \in Nat /\ fails <= fails' /\ fails' <= MaxFails
    <2>1. IsFiniteSet(Sys[t] \X {"src", "exec"})
        <3>1. IsFiniteSet({"src", "exec"})
            <4> DEFINE A == {"src"}
                       B == {"exec"}
            <4>1. IsFiniteSet(A) /\ IsFiniteSet(B)
                BY FS_Singleton
            <4>2. {"src", "exec"} = A \cup B
                OBVIOUS
            <4> HIDE DEF A, B
            <4>3. IsFiniteSet(A \cup B)
                BY <4>1, FS_Union
            <4> QED BY <4>2, <4>3
        <3> QED BY <1>4, <3>1, FS_Product
    <2>2. IsFiniteSet(F)
        BY <2>1, FS_Subset
    <2> QED BY <1>2, <1>3, <2>2, FailIs
<1>10. rc \in {0, -1} /\ (rc = 0 => ~failed)
    BY DEF Rc
<1>11. /\ skip' \in SUBSET TC /\ skip \subseteq skip' /\ skip' \subseteq skip \cup {t}
       /\ prp[t].currmode # "BUILD" => skip' = skip
       /\ failed /\ prp[t].currmode = "BUILD" => t \in skip'
    <2>1. SkipIf(t, failed)
        BY <1>2
    <2> HIDE DEF failed
    <2> QED BY <1>3, <2>1, SkipIs
<1>12. \A s \in System, d \in Dirs :
          \A m \in LocksOf(t, q, s, d) : m \in Locks(t, s, d) \/ Free(s, d, m)
    <2> SUFFICES ASSUME NEW s \in System, NEW d \in Dirs, NEW m \in LocksOf(t, q, s, d)
                 PROVE  Free(s, d, m)
        OBVIOUS
    <2> HIDE DEF f, q
    <2>1. s \in Sys[t] /\ q[s] = f[s]
        BY <1>3, <1>5, <1>8 DEF LocksOf, Lockless
    <2>2. m \in {"shared", "exclusive"}
        BY DEF LocksOf
    <2>3. CASE Dir[t] = d /\ q[s].srclock = m
        BY <1>7, <2>1, <2>2, <2>3 DEF GetsSrclock
    <2>4. CASE ExecDir[t] = d /\ q[s].execlock = m
        BY <1>7, <2>1, <2>2, <2>4 DEF GetsExeclock
    <2> QED BY <2>3, <2>4 DEF LocksOf
<1> HIDE DEF f, q, rc, failed
<1>13. /\ p \in Proctab /\ p.state = "PROCESS" /\ p.attn = TRUE
       /\ p.tcstate = nexttcstate(prp[t], rc)
       /\ p.currmode = prp[t].currmode /\ p.abort = prp[t].abort
    BY <1>3, <1>10, ProceedIs
<1>14. /\ p.tcstate = "END" \/ (rc = 0 /\ p.tcstate = AfterLock(p.currmode))
       /\ p.tcstate = "END" => rc = -1 \/ prp[t].abort
    <2>1. p.tcstate = "END" \/ (rc = 0 /\ p.tcstate = AfterLock(p.currmode))
        BY <1>3, <1>10, <1>13, NextsAre
    <2>2. p.tcstate = "END" => rc = -1 \/ prp[t].abort
        BY <1>3, <1>10, <1>13, EndsAre
    <2> QED BY <2>1, <2>2
<1>15. prp' = [prp EXCEPT ![t] = p]
    BY <1>2 DEF Become, rc, failed
<1> HIDE DEF p
<1>16. Quiet(q) /\ \A s \in System : q[s].outfile => q[s].tool \in Active
    BY <1>3, <1>7, <1>8 DEF Quiet, CaseOK
<1>17. ~failed => AllLocked(t, p, q)
    <2> SUFFICES ASSUME ~failed, NEW s \in Sys[t]
                 PROVE  /\ Src(t, p) /\ MayLock(p, s, Dir[t]) => q[s].srclock = ModeFor(p)
                        /\ UsesExec(t) /\ MayLock(p, s, ExecDir[t]) => q[s].execlock = ModeFor(p)
        BY DEF AllLocked
    <2>1. LockSucceeds(t, s, F)
        BY DEF failed
    <2>2. /\ ModeFor(p) = LockModeFor(t)
          /\ \A d : Src(t, p) /\ MayLock(p, s, d) => WantsSrclock(t) /\ <<s, d>> \notin ReadOnly
          /\ \A d : UsesExec(t) /\ MayLock(p, s, d) => WantsExeclock(t) /\ <<s, d>> \notin ReadOnly
        BY <1>13 DEF ModeFor, LockModeFor, Src, MayLock, UsesSrc, WantsSrclock, WantsExeclock, LocksAtAll
    <2> QED BY <1>4, <1>7, <1>8, <2>1, <2>2 DEF LockSucceeds
<1>18. InMode(t, p, q)
    BY <1>3, <1>10, <1>13, <1>14, <1>17 DEF InMode, AfterLock, Mode
<1>19. t \in unbuilt' => \/ t \in skip'
                         \/ par.abort /\ par.currmode # "EXEC"
                         \/ Pending(p)
    <2>1. CASE prp[t].currmode = "BUILD"
        <3>1. CASE failed
            BY <2>1, <3>1, <1>11
        <3>2. CASE ~failed /\ p.tcstate = "END"
            <4>1. prp[t].abort
                BY <3>2, <1>14 DEF rc, Rc
            <4> QED BY <2>1, <4>1, <1>3 DEF Turning, Aborted
        <3>3. CASE ~failed /\ p.tcstate # "END"
            BY <2>1, <3>3, <1>13, <1>14 DEF Pending, AfterLock
        <3> QED BY <3>1, <3>2, <3>3
    <2>2. CASE prp[t].currmode # "BUILD"
        <3>1. unbuilt' = unbuilt
            BY <2>2 DEF tcs_lock
        <3> QED BY <2>2, <3>1, <1>3, <1>11 DEF Turning, Unbuilts, Pending
    <2> QED BY <2>1, <2>2
<1>20. unbuilt' \in SUBSET TC /\ unbuilt' \subseteq unbuilt \cup {t}
    BY <1>3 DEF tcs_lock, Typed
<1>21. par' = par /\ tcc_abort' = tcc_abort /\ phase' = phase
    BY DEF tcs_lock
<1>22. \A s \in System : s \notin Sys[t] => q[s] = part[t][s]
    BY <1>8
<1> QED BY <1>3, <1>8, <1>9, <1>11, <1>12, <1>13, <1>15, <1>16, <1>18, <1>19, <1>20, <1>21,
           <1>22, StepOn

LEMMA UnlockStep ==
    ASSUME IInv, NEW t \in TC, tcs_unlock(t)
    PROVE  IInv' /\ runq' # {}
<1> DEFINE p == Proceed(prp[t], 0)
           f == [s \in Sys[t] |-> Unlocked(part[t][s])]
           q == Merged(t, f)
<1>1. In(t, {"UNLOCK"})
    BY DEF tcs_unlock
<1>2. /\ Parts(t, f) /\ prp' = [prp EXCEPT ![t] = p]
      /\ UNCHANGED <<par, skip, unbuilt, tcc_abort, phase, fails>>
    BY DEF tcs_unlock, Become
<1>3. /\ phase = "engine" /\ Typed /\ Turning
      /\ prp[t] \in Proctab /\ part[t] \in [System -> GoodPart]
      /\ prp[t].state = "PROCESS" /\ prp[t].currmode \in Mode /\ prp[t].tcstate = "UNLOCK"
      /\ pass' \in SUBSET TC
      /\ CaseOK(t, prp[t], part[t]) /\ InMode(t, prp[t], part[t]) /\ Quiet(part[t])
      /\ prp[t].currmode = par.currmode /\ prp[t].abort = tcc_abort
    BY <1>1, Inside
<1>4. Sys[t] \subseteq System
    BY SysIsSubset
<1>5. \A s \in Sys[t] :
         /\ f[s] \in GoodPart
         /\ f[s].tool = part[t][s].tool /\ f[s].outfile = part[t][s].outfile
         /\ f[s].tmpdir = part[t][s].tmpdir
         /\ f[s].srclock = "none" /\ f[s].execlock = "none"
    <2> SUFFICES ASSUME NEW s \in Sys[t]
                 PROVE  LET r == Unlocked(part[t][s])
                        IN  /\ r \in GoodPart
                            /\ r.tool = part[t][s].tool /\ r.outfile = part[t][s].outfile
                            /\ r.tmpdir = part[t][s].tmpdir
                            /\ r.srclock = "none" /\ r.execlock = "none"
        OBVIOUS
    <2>1. part[t][s] \in GoodPart
        BY <1>3, <1>4
    <2> QED BY <2>1, PartsAreGood DEF Unlocked, GoodPart, Part
<1>6. /\ q \in [System -> GoodPart] /\ part' = [part EXCEPT ![t] = q]
      /\ \A s \in System : q[s] = IF s \in Sys[t] THEN f[s] ELSE part[t][s]
    <2> HIDE DEF f
    <2> QED BY <1>2, <1>3, <1>5, PartsIs
<1> HIDE DEF f, q
<1>7. \A s \in System, d \in Dirs :
          \A m \in LocksOf(t, q, s, d) : m \in Locks(t, s, d) \/ Free(s, d, m)
    <2>1. \A s \in System : /\ q[s].srclock \in {part[t][s].srclock, "none"}
                            /\ q[s].execlock \in {part[t][s].execlock, "none"}
        BY <1>5, <1>6
    <2> QED BY <2>1, <1>6, LocksShrink
<1>8. /\ p \in Proctab /\ p.state = "PROCESS" /\ p.attn = TRUE
      /\ p.tcstate = nexttcstate(prp[t], 0)
      /\ p.currmode = prp[t].currmode /\ p.abort = prp[t].abort
    BY <1>3, ProceedIs
<1>9. prp[t].currmode = "EXEC" /\ ~InPlace
    BY <1>3 DEF InMode
<1>10. p.tcstate \in {"EXEC", "END"}
    BY <1>3, <1>8, <1>9, NextsAre
<1> HIDE DEF p
<1>11. Quiet(q) /\ \A s \in System : q[s].outfile => q[s].tool \in Active
    BY <1>3, <1>5, <1>6 DEF Quiet, CaseOK
<1>12. Copied(t, q) /\ Lockless(q)
    <2>1. Copied(t, part[t])
        BY <1>3 DEF InMode
    <2>2. \A s \in System : s \notin Sys[t] => q[s] = NoPart
        BY <1>3, <1>6 DEF CaseOK
    <2> QED BY <2>1, <2>2, <1>4, <1>5, <1>6 DEF Copied, Lockless, NoPart
<1>13. InMode(t, p, q)
    BY <1>8, <1>9, <1>10, <1>12 DEF InMode
<1>14. t \in unbuilt' => \/ t \in skip'
                         \/ par.abort /\ par.currmode # "EXEC"
                         \/ Pending(p)
    BY <1>2, <1>3, <1>9 DEF Turning, Unbuilts, Pending
<1>15. /\ skip' \in SUBSET TC /\ unbuilt' \in SUBSET TC
       /\ fails' \in Nat /\ fails <= fails' /\ fails' <= MaxFails
       /\ skip \subseteq skip' /\ skip' \subseteq skip \cup {t} /\ unbuilt' \subseteq unbuilt \cup {t}
    BY <1>2, <1>3 DEF Typed
<1>16. \A s \in System : s \notin Sys[t] => q[s] = part[t][s]
    BY <1>6
<1> QED BY <1>2, <1>3, <1>6, <1>7, <1>8, <1>11, <1>13, <1>14, <1>15, <1>16, StepOn

LEMMA CopyStep ==
    ASSUME IInv, NEW t \in TC, tcs_copy(t)
    PROVE  IInv' /\ runq' # {}
<1>1. In(t, {"COPY"})
    BY DEF tcs_copy
<1>0. PICK F \in SUBSET Sys[t] : \E D \in SUBSET F :
         /\ Fail("copy", F)
         /\ Parts(t, [s \in Sys[t] |-> [part[t][s] EXCEPT !.tmpdir = s \in D \/ s \notin F]])
         /\ Become(t, Proceed(prp[t], Rc(F # {})))
    BY DEF tcs_copy
<1>2. PICK D \in SUBSET F :
         /\ Fail("copy", F)
         /\ Parts(t, [s \in Sys[t] |-> [part[t][s] EXCEPT !.tmpdir = s \in D \/ s \notin F]])
         /\ Become(t, Proceed(prp[t], Rc(F # {})))
    BY <1>0
<1> DEFINE rc == Rc(F # {})
           p == Proceed(prp[t], rc)
           f == [s \in Sys[t] |-> [part[t][s] EXCEPT !.tmpdir = s \in D \/ s \notin F]]
           q == Merged(t, f)
<1>3. /\ phase = "engine" /\ Typed /\ Turning
      /\ prp[t] \in Proctab /\ part[t] \in [System -> GoodPart]
      /\ prp[t].state = "PROCESS" /\ prp[t].currmode \in Mode /\ prp[t].tcstate = "COPY"
      /\ pass' \in SUBSET TC
      /\ CaseOK(t, prp[t], part[t]) /\ InMode(t, prp[t], part[t]) /\ Quiet(part[t])
      /\ prp[t].currmode = par.currmode /\ prp[t].abort = tcc_abort
    BY <1>1, Inside
<1>4. Sys[t] \subseteq System /\ IsFiniteSet(Sys[t])
    BY SysIsSubset
<1>5. \A s \in Sys[t] :
         /\ f[s] \in GoodPart
         /\ f[s].tool = part[t][s].tool /\ f[s].outfile = part[t][s].outfile
         /\ f[s].srclock = part[t][s].srclock /\ f[s].execlock = part[t][s].execlock
         /\ F = {} => f[s].tmpdir = TRUE
    <2> SUFFICES ASSUME NEW s \in Sys[t]
                 PROVE  LET r == [part[t][s] EXCEPT !.tmpdir = s \in D \/ s \notin F]
                        IN  /\ r \in GoodPart
                            /\ r.tool = part[t][s].tool /\ r.outfile = part[t][s].outfile
                            /\ r.srclock = part[t][s].srclock /\ r.execlock = part[t][s].execlock
                            /\ F = {} => r.tmpdir = TRUE
        OBVIOUS
    <2>1. part[t][s] \in GoodPart
        BY <1>3, <1>4
    <2>2. PICK b \in BOOLEAN : b = (s \in D \/ s \notin F)
        OBVIOUS
    <2>3. F = {} => b = TRUE
        BY <2>2
    <2>4. [part[t][s] EXCEPT !.tmpdir = b] \in GoodPart
        BY <2>1, PartsAreGood
    <2> QED BY <2>1, <2>2, <2>3, <2>4 DEF GoodPart, Part
<1>6. /\ q \in [System -> GoodPart] /\ part' = [part EXCEPT ![t] = q]
      /\ \A s \in System : q[s] = IF s \in Sys[t] THEN f[s] ELSE part[t][s]
    <2>1. Parts(t, f)
        BY <1>2
    <2> HIDE DEF f
    <2> QED BY <2>1, <1>3, <1>5, PartsIs
<1>7. fails' \in Nat /\ fails <= fails' /\ fails' <= MaxFails
    <2>1. IsFiniteSet(F)
        BY <1>4, FS_Subset
    <2> QED BY <1>2, <1>3, <2>1, FailIs
<1> HIDE DEF f, q
<1>8. \A s \in System, d \in Dirs :
          \A m \in LocksOf(t, q, s, d) : m \in Locks(t, s, d) \/ Free(s, d, m)
    <2>1. \A s \in System : /\ q[s].srclock \in {part[t][s].srclock, "none"}
                            /\ q[s].execlock \in {part[t][s].execlock, "none"}
        BY <1>5, <1>6
    <2> QED BY <2>1, <1>6, LocksShrink
<1>9. rc \in {0, -1} /\ (rc = 0 => F = {})
    BY DEF Rc
<1>10. prp' = [prp EXCEPT ![t] = p]
    BY <1>2 DEF Become
<1> HIDE DEF rc
<1>11. /\ p \in Proctab /\ p.state = "PROCESS" /\ p.attn = TRUE
       /\ p.tcstate = nexttcstate(prp[t], rc)
       /\ p.currmode = prp[t].currmode /\ p.abort = prp[t].abort
    BY <1>3, <1>9, ProceedIs
<1>12. prp[t].currmode = "EXEC" /\ ~InPlace
    BY <1>3 DEF InMode
<1>13. p.tcstate = "END" \/ (p.tcstate = "UNLOCK" /\ F = {})
    BY <1>3, <1>9, <1>11, NextsAre
<1> HIDE DEF p
<1>14. Quiet(q) /\ \A s \in System : q[s].outfile => q[s].tool \in Active
    BY <1>3, <1>5, <1>6 DEF Quiet, CaseOK
<1>15. F = {} => Copied(t, q)
    BY <1>4, <1>5, <1>6 DEF Copied
<1>16. InMode(t, p, q)
    BY <1>11, <1>12, <1>13, <1>15 DEF InMode
<1>17. UNCHANGED <<par, skip, unbuilt, tcc_abort, phase>>
    BY DEF tcs_copy
<1>18. t \in unbuilt' => \/ t \in skip'
                         \/ par.abort /\ par.currmode # "EXEC"
                         \/ Pending(p)
    BY <1>17, <1>3, <1>12 DEF Turning, Unbuilts, Pending
<1>19. /\ skip' \in SUBSET TC /\ unbuilt' \in SUBSET TC
       /\ skip \subseteq skip' /\ skip' \subseteq skip \cup {t} /\ unbuilt' \subseteq unbuilt \cup {t}
    BY <1>17, <1>3 DEF Typed
<1>20. \A s \in System : s \notin Sys[t] => q[s] = part[t][s]
    BY <1>6
<1> QED BY <1>3, <1>6, <1>7, <1>8, <1>10, <1>11, <1>14, <1>16, <1>17, <1>18, <1>19, <1>20, StepOn

(* Within a mode, the states after the lock and the copy rely on what they *)
(* found.                                                                  *)
LEMMA InModeKeeps ==
    ASSUME NEW t \in TC, NEW p \in Proctab, NEW r \in Proctab,
           NEW q \in [System -> GoodPart], NEW w \in [System -> GoodPart],
           p.currmode \in Mode, r.currmode = p.currmode,
           p.tcstate \in ToolState \cup {"JOURNAL", "SAVE"},
           \/ r.tcstate = p.tcstate
           \/ \E rc \in {0, -1} : r.tcstate = nexttcstate(p, rc),
           \A s \in Sys[t] : /\ w[s].srclock = q[s].srclock /\ w[s].execlock = q[s].execlock
                             /\ w[s].tmpdir = q[s].tmpdir,
           \A s \in System \ Sys[t] : w[s] = q[s],
           InMode(t, p, q)
    PROVE  InMode(t, r, w)
<1>1. ModeFor(r) = ModeFor(p) /\ (Src(t, r) <=> Src(t, p))
    BY DEF ModeFor, Src
<1>2. AllLocked(t, p, q) => AllLocked(t, r, w)
    BY <1>1 DEF AllLocked, MayLock
<1>3. Copied(t, q) => Copied(t, w)
    BY DEF Copied
<1>4. Lockless(q) => Lockless(w)
    BY SysIsSubset DEF Lockless
<1>5. CASE r.tcstate = p.tcstate
    BY <1>2, <1>3, <1>4, <1>5 DEF InMode
<1>6. CASE \E rc \in {0, -1} : r.tcstate = nexttcstate(p, rc)
    <2>1. /\ p.currmode = "BUILD" =>
                /\ p.tcstate \in {"PREBUILD", "BUILD", "BUILDFAIL", "JOURNAL"}
                /\ r.tcstate \in {"BUILD", "BUILDFAIL", "END", "JOURNAL"}
          /\ p.currmode = "EXEC" => r.tcstate \in {"JOURNAL", "SAVE", "END"}
          /\ p.currmode = "CLEAN" => r.tcstate \in {"JOURNAL", "END"}
        <3>1. PICK rc \in {0, -1} : r.tcstate = nexttcstate(p, rc)
            BY <1>6
        <3>2. CASE p.currmode = "BUILD"
            <4>1. p.tcstate \in {"PREBUILD", "BUILD", "BUILDFAIL", "JOURNAL"}
                BY <3>2 DEF InMode, ToolState
            <4> QED BY <3>1, <3>2, <4>1, NextsAre
        <3>3. CASE p.currmode = "EXEC"
            <4>1. p.tcstate \in {"EXEC", "JOURNAL", "SAVE"}
                BY <3>3 DEF InMode, ToolState
            <4> QED BY <3>1, <3>3, <4>1, NextsAre
        <3>4. CASE p.currmode = "CLEAN"
            <4>1. p.tcstate \in {"CLEAN", "JOURNAL"}
                BY <3>4 DEF InMode, ToolState
            <4> QED BY <3>1, <3>4, <4>1, NextsAre
        <3> QED BY <3>2, <3>3, <3>4 DEF Mode
    <2>2. p.currmode = "BUILD" /\ r.tcstate # "END" => AllLocked(t, p, q)
        <3>1. CASE p.tcstate = "BUILDFAIL"
            <4>1. \A rc \in {0, -1} : nexttcstate(p, rc) = "END"
                BY <3>1, NextsAre
            <4> QED BY <4>1, <1>6
        <3>2. CASE p.tcstate # "BUILDFAIL"
            BY <3>2, <2>1 DEF InMode
        <3> QED BY <3>1, <3>2
    <2> QED BY <1>2, <2>1, <2>2 DEF InMode, Mode
<1> QED BY <1>5, <1>6

(* Execute(), when it leaves no test case unbuilt that is not skipped.     *)
LEMMA ExecuteStep ==
    ASSUME IInv, NEW t \in TC, NEW tcs \in SUBSET {"BUILD", "BUILDFAIL", "EXEC", "CLEAN"},
           In(t, tcs),
           NEW R \in SUBSET Sys[t], NEW F \in SUBSET Sys[t], NEW out \in BOOLEAN,
           Execute(t, R, F, out),
           par' = par, tcc_abort' = tcc_abort, phase' = phase,
           skip' \in SUBSET TC, skip \subseteq skip', skip' \subseteq skip \cup {t},
           prp[t].currmode # "BUILD" => skip' = skip,
           unbuilt' \in SUBSET TC, unbuilt' \subseteq unbuilt \cup {t},
           t \in unbuilt' => \/ t \in skip'
                             \/ par.abort /\ par.currmode # "EXEC"
    PROVE  IInv' /\ runq' # {}
<1> DEFINE rc == Rc(F # {})
           p == IF R # {} THEN Wait(prp[t]) ELSE Proceed(prp[t], rc)
           f == [s \in Sys[t] |-> IF s \in R THEN Run(part[t][s], out) ELSE part[t][s]]
           q == Merged(t, f)
<1>1. Fail("exec", F) /\ Parts(t, f) /\ prp' = [prp EXCEPT ![t] = p]
    BY DEF Execute, Become
<1>2. /\ phase = "engine" /\ Typed /\ Turning
      /\ prp[t] \in Proctab /\ part[t] \in [System -> GoodPart]
      /\ prp[t].state = "PROCESS" /\ prp[t].currmode \in Mode /\ prp[t].tcstate \in tcs
      /\ pass' \in SUBSET TC
      /\ CaseOK(t, prp[t], part[t]) /\ InMode(t, prp[t], part[t]) /\ Quiet(part[t])
    BY Inside
<1>3. prp[t].tcstate \in ToolState /\ prp[t].tcstate # "END"
    BY <1>2 DEF ToolState
<1>4. Sys[t] \subseteq System /\ IsFiniteSet(Sys[t])
    BY SysIsSubset
<1>5. \A s \in Sys[t] :
         /\ f[s] \in GoodPart
         /\ f[s].srclock = part[t][s].srclock /\ f[s].execlock = part[t][s].execlock
         /\ f[s].tmpdir = part[t][s].tmpdir
         /\ s \in R => f[s].tool \in Active
         /\ s \notin R => f[s] = part[t][s]
    <2> SUFFICES ASSUME NEW s \in Sys[t]
                 PROVE  LET r == IF s \in R THEN Run(part[t][s], out) ELSE part[t][s]
                        IN  /\ r \in GoodPart
                            /\ r.srclock = part[t][s].srclock /\ r.execlock = part[t][s].execlock
                            /\ r.tmpdir = part[t][s].tmpdir
                            /\ s \in R => r.tool \in Active
                            /\ s \notin R => r = part[t][s]
        OBVIOUS
    <2>1. part[t][s] \in GoodPart /\ part[t][s].tool \notin Active
        BY <1>2, <1>4 DEF Quiet
    <2>2. Run(part[t][s], out) \in GoodPart
        BY <2>1, PartsAreGood
    <2>3. LET r == Run(part[t][s], out)
          IN  /\ r.srclock = part[t][s].srclock /\ r.execlock = part[t][s].execlock
              /\ r.tmpdir = part[t][s].tmpdir /\ r.tool \in Active
        BY <2>1 DEF Run, GoodPart, Part, Active
    <2> QED BY <2>1, <2>2, <2>3
<1>6. /\ q \in [System -> GoodPart] /\ part' = [part EXCEPT ![t] = q]
      /\ \A s \in System : q[s] = IF s \in Sys[t] THEN f[s] ELSE part[t][s]
    <2> HIDE DEF f
    <2> QED BY <1>1, <1>2, <1>5, PartsIs
<1>7. fails' \in Nat /\ fails <= fails' /\ fails' <= MaxFails
    <2>1. IsFiniteSet(F)
        BY <1>4, FS_Subset
    <2> QED BY <1>1, <1>2, <2>1, FailIs
<1> HIDE DEF f, q
<1>8. \A s \in System, d \in Dirs :
          \A m \in LocksOf(t, q, s, d) : m \in Locks(t, s, d) \/ Free(s, d, m)
    <2>1. \A s \in System : /\ q[s].srclock \in {part[t][s].srclock, "none"}
                            /\ q[s].execlock \in {part[t][s].execlock, "none"}
        BY <1>5, <1>6
    <2> QED BY <2>1, <1>6, LocksShrink
<1>9. rc \in {0, -1}
    BY DEF Rc
<1> HIDE DEF rc
<1>10. /\ p \in Proctab /\ p.currmode = prp[t].currmode /\ p.abort = prp[t].abort
       /\ R # {} => p.state = "WAIT" /\ p.armed = TRUE /\ p.tcstate = prp[t].tcstate
       /\ R = {} => p.state = "PROCESS" /\ p.attn = TRUE /\ p.tcstate = nexttcstate(prp[t], rc)
    <2>1. CASE R # {}
        BY <2>1, <1>2, WaitIs
    <2>2. CASE R = {}
        BY <2>2, <1>2, <1>3, <1>9, ProceedIs
    <2> QED BY <2>1, <2>2
<1> HIDE DEF p
<1>11. InMode(t, p, q)
    <2>1. \/ p.tcstate = prp[t].tcstate
          \/ \E c \in {0, -1} : p.tcstate = nexttcstate(prp[t], c)
        BY <1>9, <1>10
    <2>2. \A s \in System \ Sys[t] : q[s] = part[t][s]
        BY <1>6
    <2>3. \A s \in Sys[t] : /\ q[s].srclock = part[t][s].srclock
                            /\ q[s].execlock = part[t][s].execlock
                            /\ q[s].tmpdir = part[t][s].tmpdir
        BY <1>4, <1>5, <1>6
    <2> QED BY <1>2, <1>3, <1>6, <1>10, <2>1, <2>2, <2>3, InModeKeeps
<1>12. \/ p.state = "PROCESS" /\ p.attn /\ Quiet(q)
       \/ /\ p.state = "WAIT" /\ p.armed /\ p.tcstate \in ToolState
          /\ \E s \in Sys[t] : q[s].tool \in Active
    <2>1. CASE R # {}
        <3>1. PICK s \in R : TRUE
            BY <2>1
        <3>2. s \in Sys[t] /\ q[s].tool \in Active
            BY <3>1, <1>4, <1>5, <1>6
        <3> QED BY <2>1, <3>2, <1>3, <1>10
    <2>2. CASE R = {}
        BY <2>2, <1>2, <1>5, <1>6, <1>10 DEF Quiet
    <2> QED BY <2>1, <2>2
<1>13. \A s \in System : q[s].outfile => q[s].tool \in Active
    BY <1>2, <1>5, <1>6 DEF CaseOK
<1>14. \A s \in System : s \notin Sys[t] => q[s] = part[t][s]
    BY <1>6
<1>15. prp[t].state \in {"PROCESS", "WAIT"}
    BY <1>2
<1> QED BY <1>1, <1>2, <1>3, <1>6, <1>7, <1>8, <1>10, <1>11, <1>12, <1>13, <1>14, <1>15, StepOn

LEMMA BecStep ==
    ASSUME IInv, NEW t \in TC, tcs_bec(t)
    PROVE  IInv' /\ runq' # {}
<1>1. In(t, {"BUILD", "EXEC", "CLEAN"})
    BY DEF tcs_bec
<1>2. PICK F \in SUBSET Sys[t] :
         /\ Execute(t, Sys[t] \ F, F, Capture)
         /\ SkipIf(t, F # {})
         /\ unbuilt' = IF prp[t].tcstate = "BUILD" /\ F = {} THEN unbuilt \ {t} ELSE unbuilt
    BY DEF tcs_bec
<1>3. UNCHANGED <<par, tcc_abort, phase>>
    BY DEF tcs_bec
<1>4. /\ Typed /\ Turning /\ InMode(t, prp[t], part[t])
      /\ prp[t].tcstate \in {"BUILD", "EXEC", "CLEAN"}
    BY <1>1, Inside
<1>5. /\ skip' \in SUBSET TC /\ skip \subseteq skip' /\ skip' \subseteq skip \cup {t}
      /\ prp[t].currmode # "BUILD" => skip' = skip
      /\ F # {} /\ prp[t].currmode = "BUILD" => t \in skip'
    BY <1>2, <1>4, SkipIs
<1>6. unbuilt' \in SUBSET TC /\ unbuilt' \subseteq unbuilt \cup {t}
    BY <1>2, <1>4 DEF Typed
<1>7. t \in unbuilt' => \/ t \in skip'
                        \/ par.abort /\ par.currmode # "EXEC"
    <2>1. CASE prp[t].tcstate = "BUILD"
        BY <2>1, <1>2, <1>4, <1>5 DEF InMode
    <2>2. CASE prp[t].tcstate # "BUILD"
        <3>1. ~Pending(prp[t])
            BY <2>2, <1>4 DEF Pending
        <3> QED BY <2>2, <3>1, <1>2, <1>4, <1>5 DEF Turning, Unbuilts
    <2> QED BY <2>1, <2>2
<1>8. Capture \in BOOLEAN
    BY TccAssumption
<1>9. {"BUILD", "EXEC", "CLEAN"} \in SUBSET {"BUILD", "BUILDFAIL", "EXEC", "CLEAN"}
    OBVIOUS
<1> QED BY <1>1, <1>2, <1>3, <1>5, <1>6, <1>7, <1>8, <1>9, ExecuteStep

LEMMA BuildfailStep ==
    ASSUME IInv, NEW t \in TC, tcs_buildfail(t)
    PROVE  IInv' /\ runq' # {}
<1>1. In(t, {"BUILDFAIL"})
    BY DEF tcs_buildfail
<1>0. PICK R \in SUBSET Sys[t] : \E F \in SUBSET (Sys[t] \ R) : Execute(t, R, F, TRUE)
    BY DEF tcs_buildfail
<1>2. PICK F \in SUBSET (Sys[t] \ R) : Execute(t, R, F, TRUE)
    BY <1>0
<1>3. UNCHANGED <<par, skip, unbuilt, tcc_abort, phase>>
    BY DEF tcs_buildfail
<1>4. Typed /\ Turning /\ prp[t].tcstate = "BUILDFAIL"
    BY <1>1, Inside
<1>5. t \in unbuilt' => \/ t \in skip'
                        \/ par.abort /\ par.currmode # "EXEC"
    BY <1>3, <1>4 DEF Turning, Unbuilts, Pending
<1>6. {"BUILDFAIL"} \in SUBSET {"BUILD", "BUILDFAIL", "EXEC", "CLEAN"} /\ TRUE \in BOOLEAN
    OBVIOUS
<1>7. /\ skip' \in SUBSET TC /\ unbuilt' \in SUBSET TC /\ F \in SUBSET Sys[t]
      /\ skip \subseteq skip' /\ skip' \subseteq skip \cup {t} /\ unbuilt' \subseteq unbuilt \cup {t}
    BY <1>3, <1>4 DEF Typed
<1> QED BY <1>1, <1>2, <1>3, <1>5, <1>6, <1>7, ExecuteStep

LEMMA PrebuildStep ==
    ASSUME IInv, NEW t \in TC, tcs_prebuild(t)
    PROVE  IInv' /\ runq' # {}
<1> DEFINE others == [s \in Sys[t] |-> IF s = Master(t) THEN part[t][s]
                                       ELSE [part[t][s] EXCEPT !.tool = "IDLE", !.ok = TRUE]]
           g == [others EXCEPT ![Master(t)] = Run(@, TRUE)]
<1>1. In(t, {"PREBUILD"})
    BY DEF tcs_prebuild
<1>2. /\ phase = "engine" /\ Typed /\ Turning
      /\ prp[t] \in Proctab /\ part[t] \in [System -> GoodPart]
      /\ prp[t].state = "PROCESS" /\ prp[t].currmode \in Mode /\ prp[t].tcstate = "PREBUILD"
      /\ pass' \in SUBSET TC
      /\ CaseOK(t, prp[t], part[t]) /\ InMode(t, prp[t], part[t]) /\ Quiet(part[t])
      /\ prp[t].currmode = par.currmode /\ prp[t].abort = tcc_abort
    BY <1>1, Inside
<1>3. prp[t].currmode = "BUILD"
    BY <1>2 DEF InMode
<1>4. Sys[t] \subseteq System /\ Master(t) \in Sys[t] /\ IsFiniteSet({}) /\ IsFiniteSet({t})
    BY SysIsSubset, FS_EmptySet, FS_Singleton DEF Master
<1>5. UNCHANGED <<par, unbuilt, tcc_abort, phase>>
    BY DEF tcs_prebuild
<1>6. \A s \in Sys[t] :
         /\ others[s] \in GoodPart
         /\ others[s].srclock = part[t][s].srclock /\ others[s].execlock = part[t][s].execlock
         /\ others[s].tmpdir = part[t][s].tmpdir /\ others[s].outfile = part[t][s].outfile
         /\ others[s].tool \notin Active
    <2> SUFFICES ASSUME NEW s \in Sys[t]
                 PROVE  LET r == IF s = Master(t) THEN part[t][s]
                                 ELSE [part[t][s] EXCEPT !.tool = "IDLE", !.ok = TRUE]
                        IN  /\ r \in GoodPart
                            /\ r.srclock = part[t][s].srclock /\ r.execlock = part[t][s].execlock
                            /\ r.tmpdir = part[t][s].tmpdir /\ r.outfile = part[t][s].outfile
                            /\ r.tool \notin Active
        OBVIOUS
    <2>1. part[t][s] \in GoodPart /\ part[t][s].tool \notin Active
        BY <1>2, <1>4 DEF Quiet
    <2>2. [part[t][s] EXCEPT !.tool = "IDLE", !.ok = TRUE] \in GoodPart
        BY <2>1, PartsAreGood
    <2>3. LET r == [part[t][s] EXCEPT !.tool = "IDLE", !.ok = TRUE]
          IN  /\ r.srclock = part[t][s].srclock /\ r.execlock = part[t][s].execlock
              /\ r.tmpdir = part[t][s].tmpdir /\ r.outfile = part[t][s].outfile
              /\ r.tool \notin Active
        BY <2>1 DEF GoodPart, Part, Active
    <2> QED BY <2>1, <2>2, <2>3
<1>7. /\ \A s \in Sys[t] : g[s] = IF s = Master(t) THEN Run(part[t][s], TRUE) ELSE others[s]
      /\ Run(part[t][Master(t)], TRUE) \in GoodPart
      /\ LET r == Run(part[t][Master(t)], TRUE)
             m == part[t][Master(t)]
         IN  /\ r.srclock = m.srclock /\ r.execlock = m.execlock
             /\ r.tmpdir = m.tmpdir /\ r.tool \in Active
    <2>1. \A s \in Sys[t] : g[s] = IF s = Master(t) THEN Run(part[t][s], TRUE) ELSE others[s]
        BY <1>4
    <2>2. part[t][Master(t)] \in GoodPart /\ part[t][Master(t)].tool \notin Active
        BY <1>2, <1>4 DEF Quiet
    <2>3. Run(part[t][Master(t)], TRUE) \in GoodPart
        BY <2>2, PartsAreGood
    <2>4. LET r == Run(part[t][Master(t)], TRUE)
              m == part[t][Master(t)]
          IN  /\ r.srclock = m.srclock /\ r.execlock = m.execlock
              /\ r.tmpdir = m.tmpdir /\ r.tool \in Active
        BY <2>2 DEF Run, GoodPart, Part, Active
    <2> QED BY <2>1, <2>3, <2>4
<1>8. \/ /\ prp' = [prp EXCEPT ![t] = Proceed(prp[t], 0)]
         /\ Parts(t, others)
         /\ Fail("exec", {}) /\ skip' = skip
      \/ /\ prp' = [prp EXCEPT ![t] = Proceed(prp[t], -1)]
         /\ Parts(t, others)
         /\ Fail("exec", {t}) /\ SkipIf(t, TRUE)
      \/ /\ prp' = [prp EXCEPT ![t] = Wait(prp[t])]
         /\ Parts(t, g)
         /\ Fail("exec", {}) /\ skip' = skip
    BY DEF tcs_prebuild, Become
<1> HIDE DEF others, g
<1>9. ASSUME NEW f, f \in {others, g}, Parts(t, f),
             NEW p \in Proctab, prp' = [prp EXCEPT ![t] = p],
             p.currmode = prp[t].currmode, p.abort = prp[t].abort,
             \/ f = others /\ p.state = "PROCESS" /\ p.attn
             \/ f = g /\ p.state = "WAIT" /\ p.armed /\ p.tcstate = "PREBUILD",
             \/ p.tcstate = prp[t].tcstate
             \/ \E rc \in {0, -1} : p.tcstate = nexttcstate(prp[t], rc),
             Fail("exec", {}) \/ Fail("exec", {t}),
             skip' \in SUBSET TC, skip \subseteq skip', skip' \subseteq skip \cup {t},
             \/ t \in skip'
             \/ par.abort /\ par.currmode # "EXEC"
             \/ Pending(p)
      PROVE  IInv' /\ runq' # {}
    <2> DEFINE q == Merged(t, f)
    <2>1. \A s \in Sys[t] :
             /\ f[s] \in GoodPart
             /\ f[s].srclock = part[t][s].srclock /\ f[s].execlock = part[t][s].execlock
             /\ f[s].tmpdir = part[t][s].tmpdir
             /\ f[s].outfile => f[s].tool \in Active
        <3>1. \A s \in Sys[t] : part[t][s].outfile = FALSE
            <4>1. \A s \in Sys[t] : part[t][s].outfile \in BOOLEAN
                BY <1>2, <1>4, PartIs
            <4> QED BY <1>2, <1>4, <4>1 DEF CaseOK, Quiet
        <3>2. CASE f = others
            BY <3>1, <3>2, <1>6
        <3>3. CASE f = g
            BY <3>1, <3>3, <1>6, <1>7
        <3> QED BY <1>9, <3>2, <3>3
    <2>2. /\ q \in [System -> GoodPart] /\ part' = [part EXCEPT ![t] = q]
          /\ \A s \in System : q[s] = IF s \in Sys[t] THEN f[s] ELSE part[t][s]
        BY <1>2, <1>9, <2>1, PartsIs
    <2> HIDE DEF q
    <2>3. fails' \in Nat /\ fails <= fails' /\ fails' <= MaxFails
        BY <1>2, <1>4, <1>9, FailIs
    <2>4. \A s \in System, d \in Dirs :
              \A m \in LocksOf(t, q, s, d) : m \in Locks(t, s, d) \/ Free(s, d, m)
        <3>1. \A s \in System : /\ q[s].srclock \in {part[t][s].srclock, "none"}
                                /\ q[s].execlock \in {part[t][s].execlock, "none"}
            BY <2>1, <2>2
        <3> QED BY <3>1, <2>2, LocksShrink
    <2>5. InMode(t, p, q)
        <3>1. \A s \in System \ Sys[t] : q[s] = part[t][s]
            BY <2>2
        <3>2. \A s \in Sys[t] : /\ q[s].srclock = part[t][s].srclock
                                /\ q[s].execlock = part[t][s].execlock
                                /\ q[s].tmpdir = part[t][s].tmpdir
            BY <1>4, <2>1, <2>2
        <3>3. prp[t].tcstate \in ToolState \cup {"JOURNAL", "SAVE"}
            BY <1>2 DEF ToolState
        <3> QED BY <1>2, <1>9, <2>2, <3>1, <3>2, <3>3, InModeKeeps
    <2>6. \/ p.state = "PROCESS" /\ p.attn /\ Quiet(q)
          \/ /\ p.state = "WAIT" /\ p.armed /\ p.tcstate \in ToolState
             /\ \E s \in Sys[t] : q[s].tool \in Active
        <3>1. CASE f = others /\ p.state = "PROCESS" /\ p.attn
            BY <3>1, <1>2, <1>6, <2>2 DEF Quiet
        <3>2. CASE f = g /\ p.state = "WAIT" /\ p.armed /\ p.tcstate = "PREBUILD"
            <4>1. q[Master(t)].tool \in Active
                BY <3>2, <1>4, <1>7, <2>2
            <4> QED BY <3>2, <4>1, <1>4 DEF ToolState
        <3> QED BY <1>9, <3>1, <3>2
    <2>7. \A s \in System : q[s].outfile => q[s].tool \in Active
        BY <1>2, <2>1, <2>2 DEF CaseOK
    <2>8. \A s \in System : s \notin Sys[t] => q[s] = part[t][s]
        BY <2>2
    <2>9. unbuilt' \in SUBSET TC /\ unbuilt' \subseteq unbuilt \cup {t}
        BY <1>2, <1>5 DEF Typed
    <2> QED BY <1>2, <1>3, <1>5, <1>9, <2>2, <2>3, <2>4, <2>5, <2>6, <2>7, <2>8, <2>9, StepOn
<1>10. skip \in SUBSET TC /\ skip \subseteq skip \cup {t}
    BY <1>2 DEF Typed
<1>11. \A rc \in {0, -1} :
          LET r == Proceed(prp[t], rc)
          IN  /\ r.state = "PROCESS" /\ r.attn = TRUE /\ r.tcstate = nexttcstate(prp[t], rc)
              /\ r.currmode = prp[t].currmode /\ r.abort = prp[t].abort
              /\ r \in Proctab
    BY <1>2, ProceedIs
<1>12. CASE /\ prp' = [prp EXCEPT ![t] = Proceed(prp[t], 0)]
            /\ Parts(t, others)
            /\ Fail("exec", {}) /\ skip' = skip
    <2> DEFINE p == Proceed(prp[t], 0)
    <2>1. /\ p.state = "PROCESS" /\ p.attn = TRUE /\ p.tcstate = nexttcstate(prp[t], 0)
          /\ p.currmode = prp[t].currmode /\ p.abort = prp[t].abort /\ p \in Proctab
        BY <1>11
    <2>2. Pending(p) \/ (par.abort /\ par.currmode # "EXEC")
        <3>1. p.tcstate \in {"BUILD", "END"}
            BY <1>2, <2>1, NextsAre
        <3>2. p.tcstate = "END" => prp[t].abort
            BY <1>2, <2>1, EndsAre
        <3> QED BY <1>2, <1>3, <2>1, <3>1, <3>2 DEF Pending, Turning, Aborted
    <2>3. others \in {others, g}
        OBVIOUS
    <2> HIDE DEF p
    <2> QED BY <1>9, <1>10, <1>12, <2>1, <2>2, <2>3 DEF p
<1>13. CASE /\ prp' = [prp EXCEPT ![t] = Proceed(prp[t], -1)]
            /\ Parts(t, others)
            /\ Fail("exec", {t}) /\ SkipIf(t, TRUE)
    <2> DEFINE p == Proceed(prp[t], -1)
    <2>1. /\ p.state = "PROCESS" /\ p.attn = TRUE /\ p.tcstate = nexttcstate(prp[t], -1)
          /\ p.currmode = prp[t].currmode /\ p.abort = prp[t].abort /\ p \in Proctab
        BY <1>11
    <2>2. /\ skip' \in SUBSET TC /\ skip \subseteq skip' /\ skip' \subseteq skip \cup {t}
          /\ t \in skip'
        BY <1>2, <1>3, <1>13, SkipIs
    <2>3. others \in {others, g}
        OBVIOUS
    <2> HIDE DEF p
    <2> QED BY <1>9, <1>13, <2>1, <2>2, <2>3 DEF p
<1>14. CASE /\ prp' = [prp EXCEPT ![t] = Wait(prp[t])]
            /\ Parts(t, g)
            /\ Fail("exec", {}) /\ skip' = skip
    <2> DEFINE p == Wait(prp[t])
    <2>1. /\ p.state = "WAIT" /\ p.armed = TRUE /\ p.tcstate = prp[t].tcstate
          /\ p.currmode = prp[t].currmode /\ p.abort = prp[t].abort /\ p \in Proctab
        BY <1>2, WaitIs
    <2>2. Pending(p)
        BY <1>2, <1>3, <2>1 DEF Pending
    <2>3. g \in {others, g}
        OBVIOUS
    <2> HIDE DEF p
    <2> QED BY <1>2, <1>9, <1>10, <1>14, <2>1, <2>2, <2>3 DEF p
<1> QED BY <1>8, <1>12, <1>13, <1>14

LEMMA JournalStep ==
    ASSUME IInv, NEW t \in TC, tcs_journal(t)
    PROVE  IInv' /\ runq' # {}
<1>1. In(t, {"JOURNAL"})
    BY DEF tcs_journal
<1>2. PICK rc \in {0, -1} :
         /\ SkipIf(t, rc < 0)
         /\ unbuilt' = IF rc < 0 /\ prp[t].currmode = "BUILD" THEN unbuilt \cup {t} ELSE unbuilt
         /\ Become(t, [Proceed(prp[t], rc) EXCEPT !.ids = IF Api THEN {} ELSE @])
    BY DEF tcs_journal
<1> DEFINE p == [Proceed(prp[t], rc) EXCEPT !.ids = IF Api THEN {} ELSE @]
           q == part[t]
<1>3. /\ phase = "engine" /\ Typed /\ Turning
      /\ prp[t] \in Proctab /\ part[t] \in [System -> GoodPart]
      /\ prp[t].state = "PROCESS" /\ prp[t].currmode \in Mode /\ prp[t].tcstate = "JOURNAL"
      /\ pass' \in SUBSET TC
      /\ CaseOK(t, prp[t], part[t]) /\ InMode(t, prp[t], part[t]) /\ Quiet(part[t])
    BY <1>1, Inside
<1>4. UNCHANGED <<par, part, tcc_abort, phase, fails>> /\ prp' = [prp EXCEPT ![t] = p]
    BY <1>2 DEF tcs_journal, Become
<1>5. /\ p.state = "PROCESS" /\ p.attn = TRUE /\ p.tcstate = nexttcstate(prp[t], rc)
      /\ p.currmode = prp[t].currmode /\ p.abort = prp[t].abort /\ p \in Proctab
    <2> DEFINE r == Proceed(prp[t], rc)
    <2>1. /\ r.state = "PROCESS" /\ r.attn = TRUE /\ r.tcstate = nexttcstate(prp[t], rc)
          /\ r.currmode = prp[t].currmode /\ r.abort = prp[t].abort /\ r \in Proctab
        BY <1>3, ProceedIs
    <2> HIDE DEF r
    <2>2. p = [r EXCEPT !.ids = IF Api THEN {} ELSE @]
        BY DEF r
    <2> HIDE DEF p
    <2> QED BY <2>1, <2>2 DEF Proctab
<1> HIDE DEF p
<1>6. part' = [part EXCEPT ![t] = q]
    BY <1>3, <1>4, Unchanged
<1>7. InMode(t, p, q)
    <2>1. prp[t].tcstate \in ToolState \cup {"JOURNAL", "SAVE"}
        BY <1>3
    <2> QED BY <1>3, <1>5, <2>1, InModeKeeps
<1>8. /\ skip' \in SUBSET TC /\ skip \subseteq skip' /\ skip' \subseteq skip \cup {t}
      /\ prp[t].currmode # "BUILD" => skip' = skip
      /\ rc < 0 /\ prp[t].currmode = "BUILD" => t \in skip'
    BY <1>2, <1>3, SkipIs
<1>9. t \in unbuilt' => \/ t \in skip'
                        \/ par.abort /\ par.currmode # "EXEC"
                        \/ Pending(p)
    <2>1. CASE rc < 0 /\ prp[t].currmode = "BUILD"
        BY <2>1, <1>8
    <2>2. CASE ~(rc < 0 /\ prp[t].currmode = "BUILD")
        <3>1. unbuilt' = unbuilt
            BY <2>2, <1>2
        <3> QED BY <3>1, <1>3, <1>8 DEF Turning, Unbuilts, Pending
    <2> QED BY <2>1, <2>2
<1>10. unbuilt' \in SUBSET TC /\ unbuilt' \subseteq unbuilt \cup {t}
    BY <1>2, <1>3 DEF Typed
<1>11. \A s \in System, d \in Dirs :
          \A m \in LocksOf(t, q, s, d) : m \in Locks(t, s, d) \/ Free(s, d, m)
    BY DEF LocksOf, Locks
<1>12. fails' \in Nat /\ fails <= fails' /\ fails' <= MaxFails
    BY <1>3, <1>4 DEF Typed
<1>13. \A s \in System : q[s].outfile => q[s].tool \in Active
    BY <1>3 DEF CaseOK
<1> QED BY <1>3, <1>4, <1>5, <1>6, <1>7, <1>8, <1>9, <1>10, <1>11, <1>12, <1>13, StepOn

LEMMA SaveStep ==
    ASSUME IInv, NEW t \in TC, tcs_save(t)
    PROVE  IInv' /\ runq' # {}
<1> DEFINE p == Proceed(prp[t], 0)
           q == part[t]
<1>1. In(t, {"SAVE"})
    BY DEF tcs_save
<1>3. /\ phase = "engine" /\ Typed /\ Turning
      /\ prp[t] \in Proctab /\ part[t] \in [System -> GoodPart]
      /\ prp[t].state = "PROCESS" /\ prp[t].currmode \in Mode /\ prp[t].tcstate = "SAVE"
      /\ pass' \in SUBSET TC
      /\ CaseOK(t, prp[t], part[t]) /\ InMode(t, prp[t], part[t]) /\ Quiet(part[t])
    BY <1>1, Inside
<1>4. /\ UNCHANGED <<par, part, skip, unbuilt, tcc_abort, phase, fails>>
      /\ prp' = [prp EXCEPT ![t] = p]
    BY DEF tcs_save, Become
<1>5. /\ p.state = "PROCESS" /\ p.attn = TRUE /\ p.tcstate = nexttcstate(prp[t], 0)
      /\ p.currmode = prp[t].currmode /\ p.abort = prp[t].abort /\ p \in Proctab
    BY <1>3, ProceedIs
<1> HIDE DEF p
<1>6. part' = [part EXCEPT ![t] = q]
    BY <1>3, <1>4, Unchanged
<1>7. InMode(t, p, q)
    <2>1. prp[t].tcstate \in ToolState \cup {"JOURNAL", "SAVE"}
        BY <1>3
    <2> QED BY <1>3, <1>5, <2>1, InModeKeeps
<1>8. /\ skip' \in SUBSET TC /\ skip \subseteq skip' /\ skip' \subseteq skip \cup {t}
      /\ unbuilt' \in SUBSET TC /\ unbuilt' \subseteq unbuilt \cup {t}
      /\ fails' \in Nat /\ fails <= fails' /\ fails' <= MaxFails
    BY <1>3, <1>4 DEF Typed
<1>9. t \in unbuilt' => \/ t \in skip'
                        \/ par.abort /\ par.currmode # "EXEC"
                        \/ Pending(p)
    BY <1>3, <1>4 DEF Turning, Unbuilts, Pending
<1>11. \A s \in System, d \in Dirs :
          \A m \in LocksOf(t, q, s, d) : m \in Locks(t, s, d) \/ Free(s, d, m)
    BY DEF LocksOf, Locks
<1>13. \A s \in System : q[s].outfile => q[s].tool \in Active
    BY <1>3 DEF CaseOK
<1> QED BY <1>3, <1>4, <1>5, <1>6, <1>7, <1>8, <1>9, <1>11, <1>13, StepOn

LEMMA WaitStep ==
    ASSUME IInv, NEW t \in TC, proc_tcwait(t)
    PROVE  IInv' /\ runq' # {}
<1>0. PICK F \in SUBSET {s \in Sys[t] : part[t][s].tool \in Active /\ part[t][s].alive},
           O \in SUBSET {s \in Sys[t] : part[t][s].tool \in Active /\ ~part[t][s].alive} :
         LET now == [s \in Sys[t] |-> toolwait(part[t][s], s \in F, s \in O)]
             rc == Rc(\E s \in Sys[t] : now[s].tool = "EXITED" /\ ~now[s].ok)
         IN  /\ Fail("wait", F)
             /\ Parts(t, now)
             /\ IF \E s \in Sys[t] : now[s].tool \in Active
                THEN Become(t, Wait(prp[t])) /\ UNCHANGED skip
                ELSE /\ SkipIf(t, prp[t].tcstate = "PREBUILD" /\ rc < 0)
                     /\ Become(t, Proceed(prp[t],
                            IF prp[t].tcstate \in {"BUILD", "EXEC", "CLEAN"} THEN 0 ELSE rc))
    BY DEF proc_tcwait
<1> DEFINE f == [s \in Sys[t] |-> toolwait(part[t][s], s \in F, s \in O)]
           bad == \E s \in Sys[t] : f[s].tool = "EXITED" /\ ~f[s].ok
           waits == \E s \in Sys[t] : f[s].tool \in Active
           q == Merged(t, f)
<1>1. PICK rc \in {0, -1} : rc = Rc(bad)
    BY DEF Rc
<1> DEFINE c == IF prp[t].tcstate \in {"BUILD", "EXEC", "CLEAN"} THEN 0 ELSE rc
           p == IF waits THEN Wait(prp[t]) ELSE Proceed(prp[t], c)
<1>2. /\ Fail("wait", F)
      /\ Parts(t, f)
      /\ prp' = [prp EXCEPT ![t] = p]
      /\ waits => skip' = skip
      /\ ~waits => SkipIf(t, prp[t].tcstate = "PREBUILD" /\ rc < 0)
    BY <1>0, <1>1 DEF Become
<1>3. /\ phase = "engine" /\ Typed /\ Turning
      /\ prp[t] \in Proctab /\ part[t] \in [System -> GoodPart]
      /\ prp[t].state = "WAIT" /\ pass' \in SUBSET TC
    BY DEF proc_tcwait, Serviced, IInv, Typed
<1>4. /\ CaseOK(t, prp[t], part[t])
      /\ prp[t].currmode \in Mode /\ prp[t].tcstate \in ToolState /\ prp[t].tcstate # "END"
      /\ InMode(t, prp[t], part[t])
    BY <1>3 DEF Turning, Cases, CaseOK, Shape, ToolState
<1>5. prp[t].currmode = par.currmode /\ prp[t].abort = tcc_abort /\ par.abort = tcc_abort
    BY <1>3, <1>4 DEF Turning, Queue, Aborted
<1>6. Sys[t] \subseteq System /\ IsFiniteSet(Sys[t])
    BY SysIsSubset
<1>7. \A s \in Sys[t] :
         /\ f[s] \in GoodPart
         /\ f[s].srclock = part[t][s].srclock /\ f[s].execlock = part[t][s].execlock
         /\ f[s].tmpdir = part[t][s].tmpdir
         /\ f[s].outfile => f[s].tool \in Active
    <2> SUFFICES ASSUME NEW s \in Sys[t]
                 PROVE  LET r == toolwait(part[t][s], s \in F, s \in O)
                        IN  /\ r \in GoodPart
                            /\ r.srclock = part[t][s].srclock
                            /\ r.execlock = part[t][s].execlock
                            /\ r.tmpdir = part[t][s].tmpdir
                            /\ r.outfile => r.tool \in Active
        OBVIOUS
    <2>1. part[t][s] \in GoodPart /\ (part[t][s].outfile => part[t][s].tool \in Active)
        BY <1>3, <1>4, <1>6 DEF CaseOK
    <2>2. PICK a \in BOOLEAN : a <=> (s \in F)
        OBVIOUS
    <2>3. PICK b \in BOOLEAN : b <=> (s \in O)
        OBVIOUS
    <2>4. toolwait(part[t][s], s \in F, s \in O) = toolwait(part[t][s], a, b)
        BY <2>2, <2>3
    <2>5. LET r == toolwait(part[t][s], a, b)
          IN  /\ r \in GoodPart
              /\ r.srclock = part[t][s].srclock
              /\ r.execlock = part[t][s].execlock
              /\ r.tmpdir = part[t][s].tmpdir
              /\ r.outfile => r.tool \in Active
        BY <2>1, ToolwaitIs
    <2> QED BY <2>4, <2>5
<1>8. /\ q \in [System -> GoodPart] /\ part' = [part EXCEPT ![t] = q]
      /\ \A s \in System : q[s] = IF s \in Sys[t] THEN f[s] ELSE part[t][s]
    <2> HIDE DEF f
    <2> QED BY <1>2, <1>3, <1>7, PartsIs
<1>9. fails' \in Nat /\ fails <= fails' /\ fails' <= MaxFails
    <2>1. IsFiniteSet(F)
        <3>1. F \subseteq Sys[t]
            OBVIOUS
        <3> QED BY <3>1, <1>6, FS_Subset
    <2> QED BY <1>2, <1>3, <2>1, FailIs
<1> HIDE DEF f, q
<1>10. \A s \in System, d \in Dirs :
          \A m \in LocksOf(t, q, s, d) : m \in Locks(t, s, d) \/ Free(s, d, m)
    <2>1. \A s \in System : /\ q[s].srclock \in {part[t][s].srclock, "none"}
                            /\ q[s].execlock \in {part[t][s].execlock, "none"}
        BY <1>7, <1>8
    <2> QED BY <2>1, <1>8, LocksShrink
<1>11. c \in {0, -1}
    OBVIOUS
<1>12. /\ p \in Proctab /\ p.currmode = prp[t].currmode /\ p.abort = prp[t].abort
       /\ waits => p.state = "WAIT" /\ p.armed = TRUE /\ p.tcstate = prp[t].tcstate
       /\ ~waits => p.state = "PROCESS" /\ p.attn = TRUE /\ p.tcstate = nexttcstate(prp[t], c)
    <2> HIDE DEF c, waits
    <2>1. CASE waits
        BY <2>1, <1>3, WaitIs
    <2>2. CASE ~waits
        BY <2>2, <1>3, <1>4, <1>11, ProceedIs
    <2> QED BY <2>1, <2>2
<1> HIDE DEF p, c
<1>13. InMode(t, p, q)
    <2>1. \/ p.tcstate = prp[t].tcstate
          \/ \E x \in {0, -1} : p.tcstate = nexttcstate(prp[t], x)
        BY <1>11, <1>12
    <2>2. \A s \in System \ Sys[t] : q[s] = part[t][s]
        BY <1>8
    <2>3. \A s \in Sys[t] : /\ q[s].srclock = part[t][s].srclock
                            /\ q[s].execlock = part[t][s].execlock
                            /\ q[s].tmpdir = part[t][s].tmpdir
        BY <1>6, <1>7, <1>8
    <2> QED BY <1>3, <1>4, <1>8, <1>12, <2>1, <2>2, <2>3, InModeKeeps
<1>14. \/ p.state = "PROCESS" /\ p.attn /\ Quiet(q)
       \/ /\ p.state = "WAIT" /\ p.armed /\ p.tcstate \in ToolState
          /\ \E s \in Sys[t] : q[s].tool \in Active
    <2>1. CASE waits
        BY <2>1, <1>4, <1>6, <1>8, <1>12
    <2>2. CASE ~waits
        <3>1. \A s \in System : s \notin Sys[t] => q[s] = NoPart
            BY <1>4, <1>8 DEF CaseOK
        <3>2. NoPart.tool \notin Active
            BY DEF NoPart, Active
        <3> QED BY <2>2, <3>1, <3>2, <1>6, <1>8, <1>12 DEF Quiet
    <2> QED BY <2>1, <2>2
<1>15. /\ skip' \in SUBSET TC /\ skip \subseteq skip' /\ skip' \subseteq skip \cup {t}
       /\ prp[t].currmode # "BUILD" => skip' = skip
       /\ ~waits /\ prp[t].tcstate = "PREBUILD" /\ rc < 0 => t \in skip'
    <2> HIDE DEF waits
    <2>1. CASE waits
        BY <2>1, <1>2, <1>3 DEF Typed
    <2>2. CASE ~waits
        <3>1. prp[t].tcstate = "PREBUILD" => prp[t].currmode = "BUILD"
            BY <1>4 DEF InMode
        <3> QED BY <2>2, <3>1, <1>2, <1>3, SkipIs
    <2> QED BY <2>1, <2>2
<1> HIDE DEF waits
<1>16. unbuilt' = unbuilt /\ UNCHANGED <<par, tcc_abort, phase>>
    BY DEF proc_tcwait
<1>17. t \in unbuilt' => \/ t \in skip'
                         \/ par.abort /\ par.currmode # "EXEC"
                         \/ Pending(p)
    <2> SUFFICES ASSUME t \in unbuilt, t \notin skip', ~(par.abort /\ par.currmode # "EXEC")
                 PROVE  Pending(p)
        BY <1>16
    <2>1. prp[t].currmode = "BUILD" /\ prp[t].tcstate = "PREBUILD"
        BY <1>3, <1>15 DEF Turning, Unbuilts, Pending
    <2>2. CASE waits
        BY <2>1, <2>2, <1>12 DEF Pending
    <2>3. CASE ~waits
        <3>1. rc = 0 /\ c = 0
            BY <2>1, <2>3, <1>15 DEF c
        <3>2. p.tcstate \in {"BUILD", "END"}
            BY <2>1, <2>3, <3>1, <1>3, <1>12, NextsAre
        <3>3. p.tcstate # "END"
            <4>1. ~prp[t].abort
                BY <2>1, <1>5
            <4>2. p.tcstate = "END" => c = -1 \/ prp[t].abort
                BY <2>1, <2>3, <1>3, <1>11, <1>12, EndsAre DEF Mode
            <4> QED BY <3>1, <4>1, <4>2
        <3> QED BY <2>1, <2>3, <3>2, <3>3, <1>12 DEF Pending
    <2> QED BY <2>2, <2>3
<1>18. unbuilt' \in SUBSET TC /\ unbuilt' \subseteq unbuilt \cup {t}
    BY <1>3, <1>16 DEF Typed
<1>19. \A s \in System : q[s].outfile => q[s].tool \in Active
    BY <1>4, <1>7, <1>8 DEF CaseOK
<1>20. \A s \in System : s \notin Sys[t] => q[s] = part[t][s]
    BY <1>8
<1>21. prp[t].state \in {"PROCESS", "WAIT"}
    BY <1>3
<1> QED BY <1>2, <1>3, <1>4, <1>8, <1>9, <1>10, <1>12, <1>13, <1>14, <1>15, <1>16, <1>17, <1>18,
           <1>19, <1>20, <1>21, StepOn

LEMMA EndStep ==
    ASSUME IInv, NEW t \in TC, tcs_end(t)
    PROVE  IInv' /\ runq' # {}
<1>1. In(t, {"END"})
    BY DEF tcs_end
<1>2. /\ phase = "engine" /\ Typed /\ Turning
      /\ prp[t] \in Proctab /\ part[t] \in [System -> GoodPart]
      /\ prp[t].state = "PROCESS" /\ prp[t].state # "IDLE" /\ prp[t].currmode \in Mode
      /\ prp[t].tcstate = "END"
      /\ pass' \in SUBSET TC
      /\ CaseOK(t, prp[t], part[t]) /\ Quiet(part[t])
      /\ prp[t].currmode = par.currmode
      /\ prp[t].currmode = "EXEC" /\ t \in skip => Bare(prp[t], part[t])
    BY <1>1, Inside
<1>3. UNCHANGED <<par, skip, unbuilt, tcc_abort, phase, fails>>
    BY DEF tcs_end
<1>4. Sys[t] \subseteq System
    BY SysIsSubset
<1>5. ASSUME NEW x \in Proctab, x.abort = prp[t].abort,
             NEW q \in [System -> GoodPart],
             prp' = [prp EXCEPT ![t] = LeaveMode(x)], part' = [part EXCEPT ![t] = q],
             Bare(LeaveMode(x), q),
             \A s \in System : s \notin Sys[t] => q[s] = NoPart
      PROVE  IInv' /\ runq' # {}
    <2> DEFINE p == LeaveMode(x)
    <2>1. /\ p \in Proctab /\ p.state = "NEXT" /\ p.attn = TRUE /\ p.currmode = "END"
          /\ p.abort = prp[t].abort
        BY <1>5 DEF LeaveMode, Proctab, Prs, Tcs
    <2>2. prp' = [prp EXCEPT ![t] = p] /\ Bare(p, q)
        BY <1>5
    <2> HIDE DEF p
    <2>3. "END" \notin Mode
        BY DEF Mode
    <2>4. CaseOK(t, p, q)
        <3>1. \A s \in System : q[s].outfile => q[s].tool \in Active
            BY <2>2 DEF Bare
        <3>2. Quiet(q)
            BY <2>2 DEF Bare
        <3> QED BY <1>5, <2>1, <2>2, <2>3, <3>1, <3>2 DEF CaseOK, Shape
    <2>5. /\ skip' \in SUBSET TC /\ skip \subseteq skip' /\ skip' \subseteq skip \cup {t}
          /\ unbuilt' \in SUBSET TC /\ unbuilt' \subseteq unbuilt \cup {t}
          /\ fails' \in Nat /\ fails <= fails' /\ fails' <= MaxFails
        BY <1>2, <1>3 DEF Typed
    <2>6. t \in unbuilt' => \/ t \in skip'
                            \/ par.abort /\ par.currmode # "EXEC"
                            \/ Pending(p)
        BY <1>2, <1>3 DEF Turning, Unbuilts, Pending
    <2>7. \A s \in System, d \in Dirs :
              \A m \in LocksOf(t, q, s, d) : m \in Locks(t, s, d) \/ Free(s, d, m)
        <3>1. Lockless(q)
            BY <2>2 DEF Bare
        <3> QED BY <3>1 DEF Lockless, LocksOf
    <2>8. p.currmode # "EXEC" /\ p.state # "IDLE" /\ p.currmode \notin Mode
        BY <2>1, <2>3
    <2> QED BY <1>2, <1>3, <1>5, <2>1, <2>2, <2>4, <2>5, <2>6, <2>7, <2>8, One
<1>6. CASE Skipped(t)
    <2>1. prp' = [prp EXCEPT ![t] = LeaveMode(prp[t])] /\ part' = part
        BY <1>6 DEF tcs_end, tcs_endproc, Become
    <2>2. Bare(prp[t], part[t])
        BY <1>2, <1>6 DEF Skipped
    <2>3. Bare(LeaveMode(prp[t]), part[t])
        <3>1. /\ LeaveMode(prp[t]).ids = prp[t].ids
              /\ LeaveMode(prp[t]).children = prp[t].children
            BY <1>2 DEF LeaveMode, Proctab
        <3> QED BY <2>2, <3>1 DEF Bare
    <2>4. part' = [part EXCEPT ![t] = part[t]]
        BY <1>2, <2>1, Unchanged
    <2>5. \A s \in System : s \notin Sys[t] => part[t][s] = NoPart
        BY <1>2 DEF CaseOK
    <2> QED BY <1>2, <1>5, <2>1, <2>3, <2>4, <2>5
<1>7. CASE ~Skipped(t)
    <2> DEFINE x == EndedProc(prp[t])
               f == [s \in Sys[t] |-> EndedPart(part[t][s])]
               q == Merged(t, f)
    <2>1. prp' = [prp EXCEPT ![t] = LeaveMode(x)] /\ Parts(t, f)
        BY <1>7 DEF tcs_end, tcs_endproc, Become
    <2>2. \A s \in Sys[t] :
             /\ f[s] \in GoodPart
             /\ f[s].tool \notin Active /\ ~f[s].outfile /\ ~f[s].tmpdir
             /\ f[s].srclock = "none" /\ f[s].execlock = "none"
        <3> SUFFICES ASSUME NEW s \in Sys[t]
                     PROVE  LET r == EndedPart(part[t][s])
                            IN  /\ r \in GoodPart
                                /\ r.tool \notin Active /\ ~r.outfile /\ ~r.tmpdir
                                /\ r.srclock = "none" /\ r.execlock = "none"
            OBVIOUS
        <3>1. /\ part[t][s] \in GoodPart /\ part[t][s].tool \notin Active
              /\ part[t][s].outfile = FALSE
            <4>1. part[t][s] \in GoodPart /\ part[t][s].tool \notin Active
                BY <1>2, <1>4 DEF Quiet
            <4>2. part[t][s].outfile \in BOOLEAN
                BY <4>1, PartIs
            <4> QED BY <1>2, <1>4, <4>1, <4>2 DEF CaseOK
        <3>2. EndedPart(part[t][s]) \in GoodPart
            BY <3>1, PartsAreGood
        <3>3. LET r == EndedPart(part[t][s])
              IN  /\ r.tool = part[t][s].tool /\ r.outfile = part[t][s].outfile
                  /\ r.tmpdir = FALSE /\ r.srclock = "none" /\ r.execlock = "none"
            BY <3>1 DEF EndedPart, Unlocked, GoodPart, Part
        <3> QED BY <3>1, <3>2, <3>3
    <2>3. /\ q \in [System -> GoodPart] /\ part' = [part EXCEPT ![t] = q]
          /\ \A s \in System : q[s] = IF s \in Sys[t] THEN f[s] ELSE part[t][s]
        <3> HIDE DEF f
        <3> QED BY <1>2, <2>1, <2>2, PartsIs
    <2>4. x \in Proctab /\ x.abort = prp[t].abort /\ x.ids = {} /\ x.children = FALSE
        BY <1>2 DEF EndedProc, Proctab
    <2> HIDE DEF x, f, q
    <2>5. LeaveMode(x).ids = {} /\ LeaveMode(x).children = FALSE
        BY <2>4 DEF LeaveMode, Proctab
    <2>6. \A s \in System : s \notin Sys[t] => q[s] = NoPart
        BY <1>2, <2>3 DEF CaseOK
    <2>7. Bare(LeaveMode(x), q)
        <3>1. /\ NoPart.tool \notin Active /\ ~NoPart.outfile /\ ~NoPart.tmpdir
              /\ NoPart.srclock = "none" /\ NoPart.execlock = "none"
            BY DEF NoPart, Active
        <3>2. \A s \in System :
                 /\ q[s].tool \notin Active /\ ~q[s].outfile /\ ~q[s].tmpdir
                 /\ q[s].srclock = "none" /\ q[s].execlock = "none"
            BY <2>2, <2>3, <2>6, <3>1
        <3> QED BY <2>5, <3>2 DEF Bare, Quiet, Lockless
    <2> QED BY <1>5, <2>1, <2>3, <2>4, <2>6, <2>7
<1> QED BY <1>6, <1>7

(* The first time: nextmode() is the directive's mode or, after an abort,  *)
(* the end.                                                                *)
LEMMA StartStep ==
    ASSUME IInv, NEW t \in TC, tcs_start(t)
    PROVE  IInv' /\ runq' # {} /\ (prp[t].abort => prp'[t].currmode \notin Mode)
<1> DEFINE q == part[t]
           m == nextmode(prp[t].abort, {par.currmode}, "START")
           x == [prp[t] EXCEPT !.currmode = m, !.tcstate = "START"]
<1>1. /\ phase = "engine" /\ Typed /\ Turning
      /\ prp[t] \in Proctab /\ part[t] \in [System -> GoodPart]
      /\ prp[t].state = "PROCESS" /\ prp[t].currmode = "START"
      /\ pass' \in SUBSET TC
    BY DEF tcs_start, Serviced, IInv, Typed
<1>2. CaseOK(t, prp[t], part[t])
    BY <1>1 DEF Turning, Cases
<1>3. "START" \notin Mode /\ "END" \notin Mode
    BY DEF Mode
<1>4. Bare(prp[t], part[t])
    BY <1>1, <1>2, <1>3 DEF CaseOK
<1>5. par.currmode \in Mode
    <2>1. t \in runq
        BY <1>1 DEF runq
    <2> QED BY <1>1, <2>1 DEF Turning, Queue
<1>6. m = IF prp[t].abort THEN "END" ELSE par.currmode
    <2>1. prp[t].abort \in BOOLEAN
        BY <1>1 DEF Proctab
    <2> QED BY <1>5, <2>1, ChildMode
<1> HIDE DEF m
<1>7. /\ x \in Proctab /\ x.currmode = m /\ x.tcstate = "START" /\ x.state = "PROCESS"
      /\ x.abort = prp[t].abort /\ x.ids = prp[t].ids /\ x.children = prp[t].children
      /\ x.attn = prp[t].attn
    <2>1. m \in Mode \cup {"START", "END"}
        BY <1>5, <1>6
    <2> QED BY <1>1, <2>1 DEF Proctab, Tcs
<1>8. /\ UNCHANGED <<par, part, skip, unbuilt, tcc_abort, phase>>
      /\ part' = [part EXCEPT ![t] = q]
    BY <1>1, Unchanged DEF tcs_start
<1>9. ASSUME NEW p \in Proctab, prp' = [prp EXCEPT ![t] = p],
             p.abort = prp[t].abort, p.currmode = m,
             \/ /\ m = "END" /\ p.state = "NEXT" /\ p.attn
                /\ p.ids = prp[t].ids /\ p.children = prp[t].children
             \/ /\ m = "EXEC" /\ t \in skip /\ p.state = "PROCESS" /\ p.tcstate = "END" /\ p.attn
                /\ p.ids = prp[t].ids /\ p.children = prp[t].children
             \/ /\ ~(m = "EXEC" /\ t \in skip) /\ m # "END"
                /\ p.state = "PROCESS" /\ p.tcstate \in {"LOCK", "END"} /\ p.attn,
             fails' \in Nat, fails <= fails', fails' <= MaxFails
      PROVE  IInv' /\ runq' # {}
    <2>1. m \in Mode => m = par.currmode
        BY <1>3, <1>6
    <2>2. m \notin Mode => m = "END"
        BY <1>5, <1>6
    <2>3. Quiet(q) /\ Lockless(q)
        BY <1>4 DEF Bare
    <2>4. \A s \in System : (q[s].outfile => q[s].tool \in Active)
                            /\ (s \notin Sys[t] => q[s] = NoPart)
        BY <1>2 DEF CaseOK
    <2>5. p.ids = prp[t].ids /\ p.children = prp[t].children => Bare(p, q)
        BY <1>4 DEF Bare
    <2>6. p.tcstate \in {"LOCK", "END"} => InMode(t, p, q)
        BY <2>3 DEF InMode
    <2>7. Shape(t, p, q)
        BY <1>9, <2>2, <2>3 DEF Shape
    <2>8. CaseOK(t, p, q)
        BY <1>3, <1>9, <2>2, <2>4, <2>5, <2>6, <2>7 DEF CaseOK
    <2>9. p.currmode = "EXEC" /\ t \in skip' =>
              p.state = "PROCESS" /\ p.tcstate = "END" /\ Bare(p, q)
        BY <1>8, <1>9, <2>5
    <2>10. t \in unbuilt' => \/ t \in skip'
                             \/ par.abort /\ par.currmode # "EXEC"
                             \/ Pending(p)
        BY <1>1, <1>8 DEF Turning, Unbuilts, Pending
    <2>11. \A s \in System, d \in Dirs :
              \A n \in LocksOf(t, q, s, d) : n \in Locks(t, s, d) \/ Free(s, d, n)
        BY DEF LocksOf, Locks
    <2>12. /\ skip' \in SUBSET TC /\ skip \subseteq skip' /\ skip' \subseteq skip \cup {t}
           /\ unbuilt' \in SUBSET TC /\ unbuilt' \subseteq unbuilt \cup {t}
        BY <1>1, <1>8 DEF Typed
    <2>13. p.state # "IDLE" /\ prp[t].state # "IDLE"
        BY <1>1, <1>9
    <2> QED BY <1>1, <1>8, <1>9, <2>1, <2>8, <2>9, <2>10, <2>11, <2>12, <2>13, One
<1>10. IsFiniteSet({}) /\ IsFiniteSet({t})
    BY FS_EmptySet, FS_Singleton
<1>11. Fail("start", {}) \/ Fail("start", {t}) =>
           fails' \in Nat /\ fails <= fails' /\ fails' <= MaxFails
    BY <1>1, <1>10, FailIs
<1>12. \A rc \in {0, -1}, y \in Proctab : y.currmode \in Mode /\ y.tcstate = "START" =>
          LET r == Proceed(y, rc)
          IN  /\ r.state = "PROCESS" /\ r.attn = TRUE /\ r.tcstate \in {"LOCK", "END"}
              /\ rc = -1 => r.tcstate = "END"
              /\ r.currmode = y.currmode /\ r.abort = y.abort /\ r.ids = y.ids
              /\ r.children = y.children
              /\ r \in Proctab
    <2> SUFFICES ASSUME NEW rc \in {0, -1}, NEW y \in Proctab, y.currmode \in Mode,
                        y.tcstate = "START"
                 PROVE  LET r == Proceed(y, rc)
                        IN  /\ r.state = "PROCESS" /\ r.attn = TRUE
                            /\ r.tcstate \in {"LOCK", "END"}
                            /\ rc = -1 => r.tcstate = "END"
                            /\ r.currmode = y.currmode /\ r.abort = y.abort /\ r.ids = y.ids
                            /\ r.children = y.children
                            /\ r \in Proctab
        OBVIOUS
    <2>1. LET r == Proceed(y, rc)
          IN  /\ r.state = "PROCESS" /\ r.attn = TRUE /\ r.tcstate = nexttcstate(y, rc)
              /\ r.currmode = y.currmode /\ r.abort = y.abort /\ r.ids = y.ids
              /\ r.children = y.children
              /\ r \in Proctab
        BY ProceedIs
    <2>2. /\ nexttcstate(y, rc) \in {"LOCK", "END"}
          /\ rc = -1 => nexttcstate(y, rc) = "END"
        BY NextsAre
    <2> QED BY <2>1, <2>2
<1>13. prp \in [TC -> Proctab]
    BY <1>1 DEF Typed
<1>14. CASE m = "END"
    <2>1. prp' = [prp EXCEPT ![t] = [x EXCEPT !.state = "NEXT"]] /\ Fail("start", {})
        BY <1>14 DEF tcs_start, Become, m
    <2> DEFINE p == [x EXCEPT !.state = "NEXT"]
    <2>2. prp[t].attn
        BY <1>1, <1>2 DEF CaseOK, Shape
    <2>3. /\ p \in Proctab /\ p.abort = prp[t].abort /\ p.currmode = m
          /\ p.state = "NEXT" /\ p.attn
          /\ p.ids = prp[t].ids /\ p.children = prp[t].children
        <3> HIDE DEF x
        <3> QED BY <1>7, <2>2 DEF Proctab, Prs
    <2> HIDE DEF p
    <2>4. prp' = [prp EXCEPT ![t] = p]
        BY <2>1 DEF p
    <2> QED BY <1>3, <1>9, <1>11, <1>13, <1>14, <2>1, <2>3, <2>4
<1>15. CASE m = "EXEC" /\ t \in skip
    <2> DEFINE p == Proceed(x, -1)
    <2>1. prp' = [prp EXCEPT ![t] = p] /\ Fail("start", {})
        BY <1>15 DEF tcs_start, Become, m
    <2>2. /\ p \in Proctab /\ p.abort = prp[t].abort /\ p.currmode = m
          /\ p.state = "PROCESS" /\ p.attn = TRUE /\ p.tcstate = "END"
          /\ p.ids = prp[t].ids /\ p.children = prp[t].children
        <3>1. x.currmode \in Mode
            BY <1>7, <1>15 DEF Mode
        <3> HIDE DEF x
        <3> QED BY <1>7, <1>12, <3>1
    <2> HIDE DEF p
    <2>3. ~prp[t].abort
        BY <1>6, <1>15
    <2> QED BY <1>3, <1>9, <1>11, <1>13, <1>15, <2>1, <2>2, <2>3
<1>16. CASE m # "END" /\ ~(m = "EXEC" /\ t \in skip)
    <2>1. Startproc(t, x)
        BY <1>16 DEF tcs_start, m
    <2>2. \E I \in SUBSET System, rc \in {0, -1}, ch \in BOOLEAN, jn \in BOOLEAN :
             /\ prp' = [prp EXCEPT ![t] =
                            Proceed([[x EXCEPT !.children = ch, !.jnlchild = jn] EXCEPT !.ids = I], rc)]
             /\ Fail("start", {}) \/ Fail("start", {t})
        <3> DEFINE ch == Cardinality(Sys[t]) > 1
                   jn == ch /\ ~OneJournal[t]
                   y == [x EXCEPT !.children = ch, !.jnlchild = jn]
        <3>1. Sys[t] \in SUBSET System /\ {} \in SUBSET System /\ SUBSET Sys[t] \subseteq SUBSET System
            BY SysIsSubset
        <3>2. ch \in BOOLEAN /\ jn \in BOOLEAN
            OBVIOUS
        <3>3. \/ prp' = [prp EXCEPT ![t] = Proceed([y EXCEPT !.ids = Sys[t]], 0)] /\ Fail("start", {})
              \/ /\ \E I \in IF y.jnlchild THEN SUBSET Sys[t] ELSE {{}, Sys[t]} :
                       prp' = [prp EXCEPT ![t] = Proceed([y EXCEPT !.ids = I], -1)]
                 /\ Fail("start", {t})
            BY <2>1 DEF Startproc, Become
        <3> HIDE DEF x, ch, jn
        <3>4. CASE prp' = [prp EXCEPT ![t] = Proceed([y EXCEPT !.ids = Sys[t]], 0)] /\ Fail("start", {})
            BY <3>1, <3>2, <3>4
        <3>5. CASE /\ \E I \in IF y.jnlchild THEN SUBSET Sys[t] ELSE {{}, Sys[t]} :
                         prp' = [prp EXCEPT ![t] = Proceed([y EXCEPT !.ids = I], -1)]
                   /\ Fail("start", {t})
            <4>1. PICK I \in SUBSET System : prp' = [prp EXCEPT ![t] = Proceed([y EXCEPT !.ids = I], -1)]
                BY <3>1, <3>5
            <4> QED BY <3>2, <3>5, <4>1
        <3> QED BY <3>3, <3>4, <3>5
    <2>3. PICK I \in SUBSET System, rc \in {0, -1}, ch \in BOOLEAN, jn \in BOOLEAN :
             /\ prp' = [prp EXCEPT ![t] =
                            Proceed([[x EXCEPT !.children = ch, !.jnlchild = jn] EXCEPT !.ids = I], rc)]
             /\ Fail("start", {}) \/ Fail("start", {t})
        BY <2>2
    <2> DEFINE y == [[x EXCEPT !.children = ch, !.jnlchild = jn] EXCEPT !.ids = I]
               p == Proceed(y, rc)
    <2>4. m \in Mode /\ ~prp[t].abort
        BY <1>5, <1>6, <1>16
    <2>5. /\ y \in Proctab /\ y.currmode = m /\ y.tcstate = "START"
          /\ y.abort = prp[t].abort
        <3> HIDE DEF x
        <3> QED BY <1>7 DEF Proctab
    <2>6. prp' = [prp EXCEPT ![t] = p]
        BY <2>3
    <2> HIDE DEF y
    <2>7. /\ p.state = "PROCESS" /\ p.attn = TRUE /\ p.tcstate \in {"LOCK", "END"}
          /\ p.currmode = m /\ p.abort = prp[t].abort /\ p \in Proctab
        BY <1>12, <2>4, <2>5
    <2> HIDE DEF p
    <2> QED BY <1>9, <1>11, <1>16, <2>3, <2>4, <2>6, <2>7
<1> QED BY <1>14, <1>15, <1>16

(* The test case comes off the run queue.                                  *)
LEMMA NextStep ==
    ASSUME IInv, NEW t \in TC, TcNext(t)
    PROVE  IInv' /\ Awake'
<1>1. /\ phase = "engine" /\ Typed /\ Turning /\ prp[t].state = "NEXT"
      /\ pass' \in SUBSET TC
    BY DEF TcNext, Serviced, IInv, Typed
<1>2. /\ prp' = [prp EXCEPT ![t] = NoProctab]
      /\ UNCHANGED <<part, skip, unbuilt, tcc_abort, phase, fails>>
      /\ par' = IF runq = {t} THEN [par EXCEPT !.state = "NEXT", !.attn = TRUE] ELSE par
    BY DEF TcNext, Become
<1>3. "START" \notin Mode /\ "END" \notin Mode
    BY DEF Mode
<1>4. CaseOK(t, prp[t], part[t]) /\ prp[t].currmode = "END" /\ Bare(prp[t], part[t])
    BY <1>1, <1>3 DEF Turning, Cases, CaseOK, Shape
<1>5. t \in runq /\ par.state = "SLEEP" /\ par.currmode \in Mode /\ par \in Directory
    BY <1>1 DEF Turning, Queue, runq, Typed
<1>6. /\ NoProctab \in Proctab /\ NoProctab.state = "IDLE" /\ NoProctab.currmode = "START"
      /\ NoProctab.ids = {} /\ NoProctab.children = FALSE
    BY DEF NoProctab, Proctab, Prs, Tcs
<1>7. /\ prp' \in [TC -> Proctab] /\ prp'[t] = NoProctab
      /\ \A u \in TC : u # t => prp'[u] = prp[u]
    BY <1>1, <1>2, <1>6 DEF Typed
<1>8. runq' = runq \ {t}
    BY <1>6, <1>7 DEF runq
<1>9. /\ par' \in Directory /\ par'.currmode = par.currmode /\ par'.abort = par.abort
      /\ runq = {t} => par'.state = "NEXT" /\ par'.attn = TRUE
      /\ runq # {t} => par'.state = "SLEEP"
    BY <1>2, <1>5 DEF Directory, Prs
<1>10. Typed'
    BY <1>1, <1>2, <1>7, <1>9 DEF Typed
<1>11. CaseOK(t, NoProctab, part[t])
    BY <1>3, <1>4, <1>6 DEF CaseOK, Shape, Bare
<1>12. Cases'
    <2>1. \A u \in TC : CaseOK(u, prp'[u], part[u])
        BY <1>1, <1>7, <1>11 DEF Turning, Cases
    <2> QED BY <1>2, <2>1 DEF Cases, CaseOK, Shape, InMode, Bare, Quiet, Lockless, AllLocked, Copied
<1>13. Queue'
    <2>1. \A u \in TC : prp'[u].currmode \in Mode => prp'[u].currmode = par'.currmode
        BY <1>1, <1>3, <1>6, <1>7, <1>9 DEF Turning, Queue
    <2>2. CASE runq = {t}
        BY <2>1, <2>2, <1>5, <1>8, <1>9 DEF Queue
    <2>3. CASE runq # {t}
        BY <2>1, <2>3, <1>5, <1>9 DEF Queue
    <2> QED BY <2>2, <2>3
<1>14. Aborted'
    <2>1. \A u \in TC : prp'[u].state # "IDLE" => prp'[u].abort = tcc_abort
        BY <1>1, <1>6, <1>7 DEF Turning, Aborted
    <2> QED BY <1>1, <1>2, <1>9, <2>1 DEF Turning, Aborted
<1>15. Skips'
    <2> SUFFICES ASSUME NEW u \in TC, prp'[u].currmode = "EXEC", u \in skip'
                 PROVE  prp'[u].state = "PROCESS" /\ prp'[u].tcstate = "END" /\ Bare(prp'[u], part'[u])
        BY DEF Skips, Bare, Quiet, Lockless
    <2>1. u # t
        BY <1>6, <1>7
    <2> QED BY <2>1, <1>1, <1>2, <1>7 DEF Turning, Skips
<1>16. Unbuilts'
    <2> SUFFICES ASSUME NEW u \in unbuilt
                 PROVE  \/ u \in skip
                        \/ par.abort /\ par.currmode # "EXEC"
                        \/ Pending(prp'[u])
        BY <1>2, <1>9 DEF Unbuilts, Pending
    <2>1. CASE u = t
        BY <2>1, <1>1, <1>4 DEF Turning, Unbuilts, Pending
    <2>2. CASE u # t
        <3>1. u \in TC
            BY <1>1 DEF Typed
        <3> QED BY <2>2, <3>1, <1>1, <1>7 DEF Turning, Unbuilts
    <2> QED BY <2>1, <2>2
<1>17. Exclusive'
    BY <1>1, <1>2 DEF Turning, Exclusive, Locks, Dirs
<1>18. Turning'
    BY <1>12, <1>13, <1>14, <1>15, <1>16, <1>17 DEF Turning
<1>19. Awake'
    BY <1>5, <1>8, <1>9 DEF Awake
<1> QED BY <1>10, <1>18, <1>19, Built DEF IInv

(* What neither moves a test case on nor changes what it holds: timers,    *)
(* the tools' exits, and the call for an abort.                            *)
LEMMA Soft ==
    ASSUME IInv, phase' = phase,
           UNCHANGED <<skip, unbuilt, fails>>, pass' \in SUBSET TC,
           par' \in Directory, par'.state = par.state, par'.currmode = par.currmode,
           par'.attn = par.attn,
           prp' \in [TC -> Proctab], part' \in [TC -> [System -> GoodPart]],
           tcc_abort' \in BOOLEAN,
           \A u \in TC : /\ prp'[u].state = prp[u].state /\ prp'[u].currmode = prp[u].currmode
                         /\ prp'[u].tcstate = prp[u].tcstate /\ prp'[u].ids = prp[u].ids
                         /\ prp'[u].children = prp[u].children
                         /\ prp[u].state = "IDLE" => prp'[u] = prp[u]
                         /\ prp[u].attn => prp'[u].attn
                         /\ prp[u].armed => prp'[u].attn \/ prp'[u].armed,
           phase = "engine" =>
               /\ par'.abort = tcc_abort' /\ (par.abort => par'.abort)
               /\ \A u \in TC : prp'[u].state # "IDLE" => prp'[u].abort = tcc_abort',
           \A u \in TC, s \in System :
               /\ part'[u][s].tool \in Active <=> part[u][s].tool \in Active
               /\ part'[u][s].outfile = part[u][s].outfile
               /\ part'[u][s].tmpdir = part[u][s].tmpdir
               /\ part'[u][s].srclock = part[u][s].srclock
               /\ part'[u][s].execlock = part[u][s].execlock
               /\ part[u][s] = NoPart => part'[u][s] = NoPart
    PROVE  IInv' /\ (Awake => Awake')
<1>1. Typed'
    BY DEF IInv, Typed
<1>2. runq' = runq
    BY DEF runq
<1>3. NotExecutedUnbuilt'
    <2>1. \A u \in TC : Working(u)' => Working(u)
        <3> SUFFICES ASSUME NEW u \in TC, Working(u)'
                     PROVE  Working(u)
            OBVIOUS
        <3>1. PICK s \in Sys[u] : part'[u][s].tool \in Active
            BY DEF Working
        <3>2. s \in System
            BY SysIsSubset
        <3> QED BY <3>1, <3>2, <1>2 DEF Working
    <2> QED BY <2>1 DEF IInv, NotExecutedUnbuilt
<1>4. ASSUME phase = "engine"
      PROVE  Turning'
    <2>0. Turning
        BY <1>4 DEF IInv
    <2>1. ASSUME NEW u \in TC
          PROVE  CaseOK(u, prp'[u], part'[u])
        <3> DEFINE p == prp[u]
                   r == prp'[u]
                   q == part[u]
                   w == part'[u]
        <3>1. CaseOK(u, p, q)
            BY <2>0 DEF Turning, Cases
        <3>2. /\ r.state = p.state /\ r.currmode = p.currmode /\ r.tcstate = p.tcstate
              /\ r.ids = p.ids /\ r.children = p.children
              /\ p.state = "IDLE" => r = p
              /\ p.attn => r.attn
              /\ p.armed => r.attn \/ r.armed
            OBVIOUS
        <3>3. \A s \in System :
                 /\ w[s].tool \in Active <=> q[s].tool \in Active
                 /\ w[s].outfile = q[s].outfile /\ w[s].tmpdir = q[s].tmpdir
                 /\ w[s].srclock = q[s].srclock /\ w[s].execlock = q[s].execlock
                 /\ q[s] = NoPart => w[s] = NoPart
            OBVIOUS
        <3>4. Sys[u] \subseteq System
            BY SysIsSubset
        <3> HIDE DEF p, r, q, w
        <3>5. /\ Quiet(q) => Quiet(w)
              /\ Lockless(q) => Lockless(w)
              /\ Bare(p, q) => Bare(r, w)
              /\ Copied(u, q) => Copied(u, w)
            <4>1. Quiet(q) => Quiet(w)
                BY <3>3 DEF Quiet
            <4>2. Lockless(q) => Lockless(w)
                BY <3>3 DEF Lockless
            <4>3. ASSUME Bare(p, q)
                  PROVE  Bare(r, w)
                <5>1. r.ids = {} /\ ~r.children
                    BY <3>2, <4>3 DEF Bare
                <5>2. ASSUME NEW s \in System
                      PROVE  ~w[s].outfile /\ ~w[s].tmpdir
                    <6>1. ~q[s].outfile /\ ~q[s].tmpdir
                        BY <4>3 DEF Bare
                    <6>2. w[s].outfile = q[s].outfile /\ w[s].tmpdir = q[s].tmpdir
                        BY <3>3
                    <6> QED BY <6>1, <6>2
                <5> QED BY <4>1, <4>2, <4>3, <5>1, <5>2 DEF Bare
            <4>4. ASSUME Copied(u, q), NEW s \in Sys[u]
                  PROVE  w[s].tmpdir
                <5>1. q[s].tmpdir /\ w[s].tmpdir = q[s].tmpdir
                    BY <3>3, <3>4, <4>4 DEF Copied
                <5> QED BY <5>1
            <4> QED BY <4>1, <4>2, <4>3, <4>4 DEF Copied
        <3>6. AllLocked(u, p, q) => AllLocked(u, r, w)
            BY <3>2, <3>3, <3>4 DEF AllLocked, MayLock, ModeFor, Src
        <3>7. InMode(u, p, q) => InMode(u, r, w)
            BY <3>2, <3>5, <3>6 DEF InMode
        <3>8. Shape(u, p, q) => Shape(u, r, w)
            <4>1. (\E s \in Sys[u] : q[s].tool \in Active) => \E s \in Sys[u] : w[s].tool \in Active
                BY <3>3, <3>4
            <4> QED BY <3>2, <3>5, <4>1 DEF Shape
        <3>9. CaseOK(u, r, w)
            BY <3>1, <3>2, <3>3, <3>5, <3>7, <3>8 DEF CaseOK
        <3> QED BY <3>9 DEF r, w
    <2>2. Cases'
        BY <2>1 DEF Cases, CaseOK, Shape, InMode, Bare, Quiet, Lockless, AllLocked, Copied
    <2>3. Queue'
        BY <2>0, <1>2 DEF Turning, Queue
    <2>4. Aborted'
        BY <1>4 DEF Aborted
    <2>5. Skips'
        <3> SUFFICES ASSUME NEW u \in TC, prp'[u].currmode = "EXEC", u \in skip
                     PROVE  /\ prp'[u].state = "PROCESS" /\ prp'[u].tcstate = "END"
                            /\ Bare(prp'[u], part'[u])
            BY DEF Skips, Bare, Quiet, Lockless
        <3>1. prp[u].state = "PROCESS" /\ prp[u].tcstate = "END" /\ Bare(prp[u], part[u])
            BY <2>0 DEF Turning, Skips
        <3>2. /\ prp'[u].ids = {} /\ ~prp'[u].children
              /\ Quiet(part'[u]) /\ Lockless(part'[u])
            <4>1. /\ prp[u].ids = {} /\ ~prp[u].children
                  /\ Quiet(part[u]) /\ Lockless(part[u])
                BY <3>1 DEF Bare
            <4>2. prp'[u].ids = prp[u].ids /\ prp'[u].children = prp[u].children
                OBVIOUS
            <4>3. prp'[u].ids = {} /\ ~prp'[u].children
                BY <4>1, <4>2
            <4>4. Quiet(part'[u])
                BY <4>1 DEF Quiet
            <4>5. Lockless(part'[u])
                BY <4>1 DEF Lockless
            <4> QED BY <4>3, <4>4, <4>5
        <3>3. ASSUME NEW s \in System
              PROVE  ~part'[u][s].outfile /\ ~part'[u][s].tmpdir
            <4>1. ~part[u][s].outfile /\ ~part[u][s].tmpdir
                BY <3>1 DEF Bare
            <4>2. part'[u][s].outfile = part[u][s].outfile /\ part'[u][s].tmpdir = part[u][s].tmpdir
                OBVIOUS
            <4> QED BY <4>1, <4>2
        <3> QED BY <3>1, <3>2, <3>3 DEF Bare
    <2>6. Unbuilts'
        BY <2>0, <1>4 DEF Turning, Unbuilts, Pending, IInv, Typed
    <2>7. Exclusive'
        <3>1. \A u \in TC, s \in System, d \in Dirs :
                 LocksOf(u, part'[u], s, d) = LocksOf(u, part[u], s, d)
            BY DEF LocksOf
        <3>2. \A u, v \in TC : \A s \in System, d \in Dirs :
                 u # v /\ "exclusive" \in LocksOf(u, part[u], s, d) => LocksOf(v, part[v], s, d) = {}
            BY <2>0 DEF Turning, Exclusive, Locks, LocksOf
        <3>3. \A u, v \in TC : \A s \in System, d \in Dirs :
                 u # v /\ "exclusive" \in LocksOf(u, part'[u], s, d) => LocksOf(v, part'[v], s, d) = {}
            <4> SUFFICES ASSUME NEW u \in TC, NEW v \in TC, NEW s \in System, NEW d \in Dirs,
                                u # v, "exclusive" \in LocksOf(u, part'[u], s, d)
                         PROVE  LocksOf(v, part'[v], s, d) = {}
                OBVIOUS
            <4>1. /\ LocksOf(u, part'[u], s, d) = LocksOf(u, part[u], s, d)
                  /\ LocksOf(v, part'[v], s, d) = LocksOf(v, part[v], s, d)
                BY <3>1
            <4> QED BY <3>2, <4>1
        <3> QED BY <3>3 DEF Exclusive, Locks, LocksOf, Dirs
    <2> QED BY <2>2, <2>3, <2>4, <2>5, <2>6, <2>7 DEF Turning
<1>5. Awake => Awake'
    BY <1>2 DEF Awake
<1> QED BY <1>1, <1>3, <1>4, <1>5 DEF IInv

(* A step that leaves all but the pass as it is.                           *)
LEMMA Still ==
    ASSUME IInv, UNCHANGED <<par, prp, part, skip, unbuilt, tcc_abort, phase, fails>>,
           pass' \in SUBSET TC
    PROVE  IInv' /\ (Awake => Awake')
<1>1. Typed /\ (phase = "engine" => Aborted)
    BY DEF IInv, Turning
<1> QED BY <1>1, Soft DEF Typed, Aborted

LEMMA ToolStep ==
    ASSUME IInv, NEW t \in TC, NEW s \in System, ToolExits(t, s) \/ TimeIsUp(t, s)
    PROVE  IInv' /\ (Awake => Awake')
<1>1. Typed /\ (phase = "engine" => Aborted)
    BY DEF IInv, Turning
<1>2. part \in [TC -> [System -> GoodPart]] /\ part[t][s] \in GoodPart
    BY <1>1 DEF Typed
<1>3. UNCHANGED <<par, prp, skip, unbuilt, pass, tcc_abort, phase, fails>>
    BY DEF ToolExits, TimeIsUp
<1>4. \E r \in {[part[t][s] EXCEPT !.alive = FALSE], [part[t][s] EXCEPT !.late = TRUE]} :
         part' = [part EXCEPT ![t] = [part[t] EXCEPT ![s] = r]]
    BY <1>2 DEF ToolExits, TimeIsUp
<1>5. PICK r : /\ r \in {[part[t][s] EXCEPT !.alive = FALSE], [part[t][s] EXCEPT !.late = TRUE]}
               /\ part' = [part EXCEPT ![t] = [part[t] EXCEPT ![s] = r]]
    BY <1>4
<1>6. /\ r \in GoodPart
      /\ r.tool = part[t][s].tool /\ r.outfile = part[t][s].outfile
      /\ r.tmpdir = part[t][s].tmpdir
      /\ r.srclock = part[t][s].srclock /\ r.execlock = part[t][s].execlock
    <2>1. r \in GoodPart
        BY <1>2, <1>5, PartsAreGood
    <2> QED BY <2>1, <1>2, <1>5 DEF GoodPart, Part
<1>7. part[t][s] # NoPart
    BY DEF ToolExits, TimeIsUp, NoPart
<1>8. /\ part' \in [TC -> [System -> GoodPart]]
      /\ \A u \in TC, x \in System : part'[u][x] = IF u = t /\ x = s THEN r ELSE part[u][x]
    BY <1>2, <1>5, <1>6
<1>9. \A u \in TC, x \in System :
         /\ part'[u][x].tool \in Active <=> part[u][x].tool \in Active
         /\ part'[u][x].outfile = part[u][x].outfile
         /\ part'[u][x].tmpdir = part[u][x].tmpdir
         /\ part'[u][x].srclock = part[u][x].srclock
         /\ part'[u][x].execlock = part[u][x].execlock
         /\ part[u][x] = NoPart => part'[u][x] = NoPart
    BY <1>6, <1>7, <1>8
<1> QED BY <1>1, <1>3, <1>8, <1>9, Soft DEF Typed, Aborted

LEMMA AttendStep ==
    ASSUME IInv, NEW T \in SUBSET TC, Attend(T)
    PROVE  IInv' /\ (Awake => Awake') /\ \A t \in TC : prp'[t].currmode = prp[t].currmode
<1>1. Typed /\ phase = "engine" /\ Aborted
    BY DEF Attend, IInv, Turning
<1>2. /\ UNCHANGED <<par, part, skip, unbuilt, pass, tcc_abort, phase, fails>>
      /\ prp' = [t \in TC |-> IF t \in T THEN [prp[t] EXCEPT !.armed = FALSE, !.attn = TRUE]
                                         ELSE prp[t]]
      /\ \A t \in T : prp[t].state # "IDLE"
    BY DEF Attend, runq
<1>3. \A t \in TC : LET r == IF t \in T THEN [prp[t] EXCEPT !.armed = FALSE, !.attn = TRUE]
                                        ELSE prp[t]
                    IN  /\ r \in Proctab
                        /\ r.state = prp[t].state /\ r.currmode = prp[t].currmode
                        /\ r.tcstate = prp[t].tcstate /\ r.ids = prp[t].ids
                        /\ r.children = prp[t].children /\ r.abort = prp[t].abort
                        /\ prp[t].state = "IDLE" => r = prp[t]
                        /\ prp[t].attn => r.attn
                        /\ prp[t].armed => r.attn \/ r.armed
    <2> SUFFICES ASSUME NEW t \in TC
                 PROVE  LET r == IF t \in T THEN [prp[t] EXCEPT !.armed = FALSE, !.attn = TRUE]
                                            ELSE prp[t]
                        IN  /\ r \in Proctab
                            /\ r.state = prp[t].state /\ r.currmode = prp[t].currmode
                            /\ r.tcstate = prp[t].tcstate /\ r.ids = prp[t].ids
                            /\ r.children = prp[t].children /\ r.abort = prp[t].abort
                            /\ prp[t].state = "IDLE" => r = prp[t]
                            /\ prp[t].attn => r.attn
                            /\ prp[t].armed => r.attn \/ r.armed
        OBVIOUS
    <2>1. prp[t] \in Proctab
        BY <1>1 DEF Typed
    <2>2. CASE t \in T
        BY <2>1, <2>2, <1>2 DEF Proctab
    <2>3. CASE t \notin T
        BY <2>1, <2>3
    <2> QED BY <2>2, <2>3
<1>4. /\ prp' \in [TC -> Proctab]
      /\ \A u \in TC : /\ prp'[u].state = prp[u].state /\ prp'[u].currmode = prp[u].currmode
                       /\ prp'[u].tcstate = prp[u].tcstate /\ prp'[u].ids = prp[u].ids
                       /\ prp'[u].children = prp[u].children /\ prp'[u].abort = prp[u].abort
                       /\ prp[u].state = "IDLE" => prp'[u] = prp[u]
                       /\ prp[u].attn => prp'[u].attn
                       /\ prp[u].armed => prp'[u].attn \/ prp'[u].armed
    BY <1>2, <1>3
<1>5. \A u \in TC : prp'[u].state # "IDLE" => prp'[u].abort = tcc_abort
    BY <1>1, <1>4 DEF Aborted
<1> QED BY <1>1, <1>2, <1>4, <1>5, Soft DEF Typed, Aborted

LEMMA AbortStep ==
    ASSUME IInv, engine_abort
    PROVE  IInv' /\ (Awake => Awake') /\ \A t \in TC : prp'[t].currmode = prp[t].currmode
<1>1. Typed /\ phase = "engine" /\ Cases /\ Aborted
    BY DEF engine_abort, IInv, Turning
<1>2. /\ UNCHANGED <<skip, unbuilt, pass, phase, fails>>
      /\ tcc_abort' = TRUE
      /\ par' = [par EXCEPT !.abort = TRUE]
      /\ prp' = [t \in TC |-> IF t \notin runq THEN prp[t]
                              ELSE [prp[t] EXCEPT !.abort = TRUE,
                                                  !.attn = @ \/ prp[t].state = "WAIT"]]
      /\ part' = [t \in TC |-> [s \in System |->
                      IF t \in runq /\ prp[t].state = "WAIT" THEN Interrupted(part[t][s])
                                                             ELSE part[t][s]]]
    BY DEF engine_abort
<1>3. /\ par' \in Directory /\ par'.state = par.state /\ par'.currmode = par.currmode
      /\ par'.attn = par.attn /\ par'.abort = TRUE
    BY <1>1, <1>2 DEF Typed, Directory
<1>4. \A t \in TC : /\ prp'[t] \in Proctab
                    /\ prp'[t].state = prp[t].state /\ prp'[t].currmode = prp[t].currmode
                    /\ prp'[t].tcstate = prp[t].tcstate /\ prp'[t].ids = prp[t].ids
                    /\ prp'[t].children = prp[t].children
                    /\ prp[t].state # "IDLE" => prp'[t].abort = TRUE
                    /\ prp[t].state = "IDLE" => prp'[t] = prp[t]
                    /\ prp[t].attn => prp'[t].attn
                    /\ prp[t].armed => prp'[t].attn \/ prp'[t].armed
    <2> TAKE t \in TC
    <2>1. prp[t] \in Proctab
        BY <1>1 DEF Typed
    <2>2. CASE t \in runq
        <3>1. PICK b \in BOOLEAN : b = (prp[t].attn \/ prp[t].state = "WAIT")
            OBVIOUS
        <3>2. prp'[t] = [prp[t] EXCEPT !.abort = TRUE, !.attn = b]
            BY <2>2, <3>1, <1>2
        <3>3. prp[t].attn => b
            BY <3>1
        <3>4. prp[t].state # "IDLE"
            BY <2>2 DEF runq
        <3> HIDE <3>1
        <3> QED BY <2>1, <3>2, <3>3, <3>4 DEF Proctab
    <2>3. CASE t \notin runq
        BY <2>1, <2>3, <1>2 DEF runq
    <2> QED BY <2>2, <2>3
<1>5. prp' \in [TC -> Proctab]
    BY <1>2, <1>4
<1>6. \A u \in TC, s \in System :
         /\ part'[u][s] \in GoodPart
         /\ part'[u][s].tool \in Active <=> part[u][s].tool \in Active
         /\ part'[u][s].outfile = part[u][s].outfile
         /\ part'[u][s].tmpdir = part[u][s].tmpdir
         /\ part'[u][s].srclock = part[u][s].srclock
         /\ part'[u][s].execlock = part[u][s].execlock
         /\ part[u][s] = NoPart => part'[u][s] = NoPart
    <2> TAKE u \in TC, s \in System
    <2>1. part[u][s] \in GoodPart
        BY <1>1 DEF Typed
    <2>2. part'[u][s] = Interrupted(part[u][s]) \/ part'[u][s] = part[u][s]
        BY <1>2
    <2>3. CASE part'[u][s] = Interrupted(part[u][s])
        <3>1. part'[u][s] \in GoodPart
            BY <2>1, <2>3, PartsAreGood
        <3>2. \/ part'[u][s] = [part[u][s] EXCEPT !.tool = "ABORT"] /\ part[u][s].tool = "RUNNING"
              \/ part'[u][s] = part[u][s]
            BY <2>1, <2>3 DEF Interrupted, GoodPart, Part
        <3> QED BY <2>1, <3>1, <3>2 DEF GoodPart, Part, Active, NoPart
    <2>4. CASE part'[u][s] = part[u][s]
        BY <2>1, <2>4
    <2> QED BY <2>2, <2>3, <2>4
<1>7. part' \in [TC -> [System -> GoodPart]]
    BY <1>2, <1>6
<1>8. pass' \in SUBSET TC /\ tcc_abort' \in BOOLEAN
    BY <1>1, <1>2 DEF Typed
<1>9. /\ par'.abort = tcc_abort' /\ (par.abort => par'.abort)
      /\ \A u \in TC : prp'[u].state # "IDLE" => prp'[u].abort = tcc_abort'
    <2>1. tcc_abort' = TRUE
        BY <1>2
    <2>2. par'.abort = tcc_abort' /\ (par.abort => par'.abort)
        BY <1>3, <2>1
    <2>3. \A u \in TC : prp'[u].state # "IDLE" => prp'[u].abort = tcc_abort'
        BY <1>4, <2>1
    <2> QED BY <2>2, <2>3
<1>10. \A u \in TC : /\ prp'[u].state = prp[u].state /\ prp'[u].currmode = prp[u].currmode
                     /\ prp'[u].tcstate = prp[u].tcstate /\ prp'[u].ids = prp[u].ids
                     /\ prp'[u].children = prp[u].children
                     /\ prp[u].state = "IDLE" => prp'[u] = prp[u]
                     /\ prp[u].attn => prp'[u].attn
                     /\ prp[u].armed => prp'[u].attn \/ prp'[u].armed
    BY <1>4
<1>11. /\ phase' = phase /\ UNCHANGED <<skip, unbuilt, fails>>
       /\ par' \in Directory /\ par'.state = par.state /\ par'.currmode = par.currmode
       /\ par'.attn = par.attn
    BY <1>2, <1>3
<1>12. \A u \in TC, s \in System :
          /\ part'[u][s].tool \in Active <=> part[u][s].tool \in Active
          /\ part'[u][s].outfile = part[u][s].outfile
          /\ part'[u][s].tmpdir = part[u][s].tmpdir
          /\ part'[u][s].srclock = part[u][s].srclock
          /\ part'[u][s].execlock = part[u][s].execlock
          /\ part[u][s] = NoPart => part'[u][s] = NoPart
    BY <1>6
<1>13. phase = "engine" =>
           /\ par'.abort = tcc_abort' /\ (par.abort => par'.abort)
           /\ \A u \in TC : prp'[u].state # "IDLE" => prp'[u].abort = tcc_abort'
    BY ONLY <1>9
<1> QED BY <1>5, <1>7, <1>8, <1>10, <1>11, <1>12, <1>13, Soft

(* After a fatal signal.                                                   *)
LEMMA SigtermStep ==
    ASSUME IInv, engine_sigterm
    PROVE  IInv' /\ Awake'
<1>1. Typed
    BY DEF IInv
<1>2. /\ UNCHANGED <<par, prp, skip, unbuilt, tcc_abort, fails>>
      /\ phase' = "shutdown"
      /\ part' = [t \in TC |-> [s \in System |->
                      IF t \in runq THEN quick_killtc(part[t][s]) ELSE part[t][s]]]
      /\ pass' = {t \in runq : prp[t].currmode \in Mode}
    BY DEF engine_sigterm
<1>3. \A t \in TC, s \in System :
         /\ part'[t][s] \in GoodPart
         /\ part'[t][s].tool \in Active => part[t][s].tool \in Active
    <2> TAKE t \in TC, s \in System
    <2>1. part[t][s] \in GoodPart
        BY <1>1 DEF Typed
    <2>2. part'[t][s] = quick_killtc(part[t][s]) \/ part'[t][s] = part[t][s]
        BY <1>2
    <2>3. quick_killtc(part[t][s]) \in GoodPart
        BY <2>1, PartsAreGood
    <2>4. quick_killtc(part[t][s]).tool \in Active => part[t][s].tool \in Active
        BY <2>1 DEF quick_killtc, GoodPart, Part, Active
    <2> QED BY <2>1, <2>2, <2>3, <2>4
<1>4. part' \in [TC -> [System -> GoodPart]]
    BY <1>2, <1>3
<1>5. pass' \in SUBSET TC
    BY <1>2 DEF runq
<1>6. Typed'
    BY <1>1, <1>2, <1>4, <1>5 DEF Typed
<1>7. NotExecutedUnbuilt'
    <2>1. \A t \in TC : Working(t)' => Working(t)
        BY <1>2, <1>3, SysIsSubset DEF Working, runq
    <2> QED BY <2>1, <1>2 DEF IInv, NotExecutedUnbuilt
<1> QED BY <1>2, <1>6, <1>7 DEF IInv, Awake

LEMMA ShutdownStep ==
    ASSUME IInv, NEW t \in TC, ShutdownTestcase(t)
    PROVE  IInv' /\ Awake' /\ prp'[t].currmode = "END" /\ \A u \in TC : u # t => prp'[u] = prp[u]
<1>1. Typed /\ phase = "shutdown"
    BY DEF IInv, ShutdownTestcase
<1>2. /\ UNCHANGED <<par, skip, unbuilt, tcc_abort, fails>> /\ tcs_endproc(t)
      /\ phase' \in {"shutdown", "exit"} /\ pass' \in SUBSET TC
    BY <1>1 DEF ShutdownTestcase, Typed
<1>3. PICK x \in Proctab : prp' = [prp EXCEPT ![t] = LeaveMode(x)]
    <2>1. prp[t] \in Proctab
        BY <1>1 DEF Typed
    <2>2. EndedProc(prp[t]) \in Proctab
        BY <2>1 DEF EndedProc, Proctab
    <2> QED BY <1>2, <2>1, <2>2 DEF tcs_endproc, Become
<1>4. LeaveMode(x) \in Proctab /\ LeaveMode(x).currmode = "END"
    BY DEF LeaveMode, Proctab, Prs, Tcs
<1>5. /\ prp' \in [TC -> Proctab] /\ prp'[t].currmode = "END"
      /\ \A u \in TC : u # t => prp'[u] = prp[u]
    BY <1>1, <1>3, <1>4 DEF Typed
<1>6. /\ part' \in [TC -> [System -> GoodPart]]
      /\ \A u \in TC : u # t => part'[u] = part[u]
    <2>1. CASE Skipped(t)
        BY <2>1, <1>1, <1>2 DEF tcs_endproc, Typed
    <2>2. CASE ~Skipped(t)
        <3> DEFINE f == [s \in Sys[t] |-> EndedPart(part[t][s])]
        <3>1. Parts(t, f)
            BY <2>2, <1>2 DEF tcs_endproc
        <3>2. \A s \in Sys[t] : f[s] \in GoodPart
            <4>1. \A s \in Sys[t] : part[t][s] \in GoodPart
                BY <1>1, SysIsSubset DEF Typed
            <4> QED BY <4>1, PartsAreGood
        <3> HIDE DEF f
        <3>3. Merged(t, f) \in [System -> GoodPart] /\ part' = [part EXCEPT ![t] = Merged(t, f)]
            BY <1>1, <3>1, <3>2, PartsIs
        <3> QED BY <1>1, <3>3 DEF Typed
    <2> QED BY <2>1, <2>2
<1>7. Typed'
    BY <1>1, <1>2, <1>5, <1>6 DEF Typed
<1>8. NotExecutedUnbuilt'
    <2> SUFFICES ASSUME NEW u \in TC, prp'[u].currmode = "EXEC", Working(u)'
                 PROVE  u \notin unbuilt
        BY <1>2 DEF NotExecutedUnbuilt
    <2>1. u # t
        BY <1>5
    <2>2. Working(u) /\ prp[u].currmode = "EXEC"
        BY <2>1, <1>5, <1>6 DEF Working, runq
    <2> QED BY <2>2 DEF IInv, NotExecutedUnbuilt
<1> QED BY <1>2, <1>5, <1>7, <1>8 DEF IInv, Awake

LEMMA ExitStep ==
    ASSUME IInv, Exit
    PROVE  IInv' /\ Awake'
<1>1. UNCHANGED <<par, prp, part, skip, unbuilt, pass, tcc_abort, fails>> /\ phase' = "exit"
    BY DEF Exit
<1>2. Typed'
    BY <1>1 DEF IInv, Typed
<1>3. NotExecutedUnbuilt'
    BY <1>1 DEF IInv, NotExecutedUnbuilt, Working, runq
<1> QED BY <1>1, <1>2, <1>3 DEF IInv, Awake

(* The directive: the next of its modes.                                   *)
LEMMA ParallelStep ==
    ASSUME IInv, NEW F \in SUBSET TC, proc_parallel(F)
    PROVE  /\ IInv' /\ (F # TC => Awake')
           /\ \A t \in TC : prp[t].currmode = "START" => prp'[t].currmode = "START"
<1> DEFINE m == nextmode(par.abort, Modes, par.currmode)
<1>1. /\ phase = "engine" /\ Typed /\ Turning /\ par.state = "PROCESS" /\ par \in Directory
    BY DEF proc_parallel, IInv, Typed
<1>2. /\ UNCHANGED <<skip, unbuilt, pass, tcc_abort, phase>>
      /\ Fail("jnl", F)
    BY DEF proc_parallel
<1>3. /\ par.currmode \in Mode \cup {"START"} /\ par.abort \in BOOLEAN /\ runq = {}
      /\ par.abort = tcc_abort
    BY <1>1 DEF Turning, Queue, Aborted, Directory
<1>4. m \in Mode \cup {"END"} /\ (par.abort => m = "END")
    <2>1. Modes \in SUBSET Mode
        BY TccAssumption
    <2> QED BY <1>3, <2>1, NextmodeIs
<1>5. "START" \notin Mode /\ "END" \notin Mode /\ "IDLE" # "PROCESS"
    BY DEF Mode
<1>6. \A t \in TC : prp[t] = NoProctab /\ prp[t].currmode = "START" /\ prp[t].state = "IDLE"
    <2>1. \A t \in TC : prp[t].state = "IDLE"
        BY <1>3 DEF runq
    <2>2. \A t \in TC : prp[t] = NoProctab
        BY <1>1, <2>1 DEF Turning, Cases, CaseOK, Shape
    <2> QED BY <2>1, <2>2 DEF NoProctab
<1>7. IsFiniteSet(F)
    BY TccAssumption, FS_Subset
<1>8. fails' \in Nat /\ fails <= fails' /\ fails' <= MaxFails
    BY <1>1, <1>2, <1>7, FailIs
<1>9. \A t \in unbuilt : t \in skip \/ (par.abort /\ par.currmode # "EXEC")
    BY <1>1, <1>6 DEF Turning, Unbuilts, Pending, Typed
<1>10. CASE m = "END"
    <2>1. /\ par' = [par EXCEPT !.currmode = m, !.state = "NEXT"]
          /\ UNCHANGED <<prp, part>>
        BY <1>10 DEF proc_parallel
    <2> HIDE DEF m
    <2>2. /\ par' \in Directory /\ par'.state = "NEXT" /\ par'.currmode = "END"
          /\ par'.attn = par.attn /\ par'.abort = par.abort
        BY <1>1, <1>10, <2>1 DEF Directory, Prs
    <2>3. Typed'
        BY <1>1, <1>2, <1>8, <2>1, <2>2 DEF Typed
    <2>4. par.attn
        BY <1>1 DEF Turning, Queue
    <2>5. Cases'
        BY <1>1, <2>1 DEF Turning, Cases, CaseOK, Shape, InMode, Bare, Quiet, Lockless,
                          AllLocked, Copied
    <2>6. Queue'
        BY <1>3, <1>5, <1>6, <2>1, <2>2, <2>4 DEF Queue, runq
    <2>7. Aborted' /\ Skips' /\ Exclusive'
        <3>1. Aborted'
            BY <1>1, <1>2, <2>1, <2>2 DEF Turning, Aborted
        <3>2. Skips'
            BY <1>1, <1>2, <2>1 DEF Turning, Skips, Bare, Quiet, Lockless
        <3>3. Exclusive'
            BY <1>1, <1>2, <2>1 DEF Turning, Exclusive, Locks, Dirs
        <3> QED BY <3>1, <3>2, <3>3
    <2>8. Unbuilts'
        BY <1>2, <1>9, <2>2 DEF Unbuilts
    <2>9. Turning'
        BY <2>5, <2>6, <2>7, <2>8 DEF Turning
    <2>10. Awake'
        BY <2>2 DEF Awake
    <2> QED BY <2>1, <2>3, <2>9, <2>10, Built DEF IInv
<1>11. CASE m # "END"
    <2>1. /\ par' = [par EXCEPT !.currmode = m, !.state = "SLEEP", !.attn = FALSE]
          /\ prp' = [t \in TC |-> IF t \in F THEN NoProctab ELSE NewChild]
          /\ part' = [t \in TC |-> [s \in System |-> NoPart]]
        BY <1>11 DEF proc_parallel
    <2> HIDE DEF m
    <2>2. /\ par' \in Directory /\ par'.state = "SLEEP" /\ par'.currmode = m
          /\ par'.attn = FALSE /\ par'.abort = par.abort
        BY <1>1, <1>4, <2>1 DEF Directory, Prs
    <2>3. /\ NoProctab \in Proctab /\ NewChild \in Proctab
          /\ NewChild.state = "PROCESS" /\ NewChild.attn = TRUE /\ NewChild.currmode = "START"
          /\ NewChild.abort = FALSE /\ NewChild.ids = {} /\ NewChild.children = FALSE
          /\ NoProctab.state = "IDLE" /\ NoProctab.currmode = "START"
          /\ NoProctab.ids = {} /\ NoProctab.children = FALSE
        BY DEF NoProctab, NewChild, Proctab, Prs, Tcs
    <2>4. \A t \in TC : prp'[t] = IF t \in F THEN NoProctab ELSE NewChild
        BY <2>1
    <2>5. /\ prp' \in [TC -> Proctab]
          /\ \A t \in TC : prp'[t].currmode = "START"
        BY <2>1, <2>3
    <2>6. part' \in [TC -> [System -> GoodPart]]
        BY <2>1, NoPartIsGood
    <2>7. Typed'
        BY <1>1, <1>2, <1>8, <2>2, <2>5, <2>6 DEF Typed
    <2>8. Cases'
        <3> SUFFICES ASSUME NEW t \in TC
                     PROVE  CaseOK(t, prp'[t], part'[t])
            BY DEF Cases, CaseOK, Shape, InMode, Bare, Quiet, Lockless, AllLocked, Copied
        <3> DEFINE q == [s \in System |-> NoPart]
        <3>1. part'[t] = q /\ \A s \in System : q[s] = NoPart
            BY <2>1
        <3> HIDE DEF q
        <3>2. /\ NoPart.tool \notin Active /\ NoPart.outfile = FALSE /\ NoPart.tmpdir = FALSE
              /\ NoPart.srclock = "none" /\ NoPart.execlock = "none"
            BY DEF NoPart, Active
        <3>3. Quiet(q) /\ Lockless(q) /\ \A s \in System : ~q[s].outfile /\ ~q[s].tmpdir
            BY <3>1, <3>2 DEF Quiet, Lockless
        <3>4. Bare(NoProctab, q) /\ Bare(NewChild, q)
            BY <2>3, <3>3 DEF Bare
        <3>5. CaseOK(t, NoProctab, q)
            BY <1>5, <2>3, <3>1, <3>3, <3>4 DEF CaseOK, Shape
        <3>6. CaseOK(t, NewChild, q)
            BY <1>5, <2>3, <3>1, <3>3, <3>4 DEF CaseOK, Shape
        <3> QED BY <2>4, <3>1, <3>5, <3>6
    <2>9. Queue'
        BY <1>4, <1>5, <1>11, <2>2, <2>5 DEF Queue
    <2>10. Aborted'
        <3>1. tcc_abort = FALSE
            BY <1>3, <1>4, <1>11
        <3>2. \A t \in TC : prp'[t].state # "IDLE" => prp'[t].abort = FALSE
            BY <2>3, <2>4
        <3> QED BY <1>2, <1>3, <2>2, <3>1, <3>2 DEF Aborted
    <2>11. Skips'
        BY <2>5 DEF Skips
    <2>12. Unbuilts'
        BY <1>2, <1>4, <1>9, <1>11 DEF Unbuilts
    <2>13. Exclusive'
        <3>1. NoPart.srclock = "none" /\ NoPart.execlock = "none"
            BY DEF NoPart
        <3>2. \A t \in TC, s \in System : part'[t][s] = NoPart
            BY <2>1
        <3> QED BY <3>1, <3>2 DEF Exclusive, Locks
    <2>14. Turning'
        BY <2>8, <2>9, <2>10, <2>11, <2>12, <2>13 DEF Turning
    <2>15. F # TC => Awake'
        <3>1. runq' = TC \ F
            BY <2>3, <2>4 DEF runq
        <3> QED BY <3>1 DEF Awake
    <2> QED BY <2>5, <2>7, <2>14, <2>15, Built DEF IInv
<1> QED BY <1>10, <1>11

LEMMA ParNextStep ==
    ASSUME IInv, ParNext
    PROVE  IInv' /\ Awake'
<1>1. /\ phase = "engine" /\ Typed /\ Turning /\ par.state = "NEXT" /\ par \in Directory
    BY DEF ParNext, IInv, Typed
<1>2. /\ UNCHANGED <<prp, part, skip, unbuilt, pass, tcc_abort, phase, fails>>
      /\ par' = IF par.currmode = "END" THEN [par EXCEPT !.state = "IDLE", !.attn = FALSE]
                                        ELSE [par EXCEPT !.state = "PROCESS"]
    BY DEF ParNext
<1>3. /\ par' \in Directory /\ par'.currmode = par.currmode /\ par'.abort = par.abort
      /\ \/ par'.state = "IDLE"
         \/ par'.state = "PROCESS" /\ par'.attn = par.attn /\ par.currmode # "END"
    BY <1>1, <1>2 DEF Directory, Prs
<1>4. Typed'
    BY <1>1, <1>2, <1>3 DEF Typed
<1>5. Cases'
    BY <1>1, <1>2 DEF Turning, Cases, CaseOK, Shape, InMode, Bare, Quiet, Lockless,
                      AllLocked, Copied
<1>6. Queue'
    <2>1. runq = {} /\ par.attn /\ par.currmode \in Mode \cup {"START", "END"}
        BY <1>1 DEF Turning, Queue, Directory
    <2>2. runq' = runq
        BY <1>2 DEF runq
    <2> QED BY <1>1, <1>2, <1>3, <2>1, <2>2 DEF Turning, Queue
<1>7. Aborted' /\ Skips' /\ Exclusive'
    <2>1. Aborted'
        BY <1>1, <1>2, <1>3 DEF Turning, Aborted
    <2>2. Skips'
        BY <1>1, <1>2 DEF Turning, Skips, Bare, Quiet, Lockless
    <2>3. Exclusive'
        BY <1>1, <1>2 DEF Turning, Exclusive, Locks, Dirs
    <2> QED BY <2>1, <2>2, <2>3
<1>8. Unbuilts'
    BY <1>1, <1>2, <1>3 DEF Turning, Unbuilts, Pending
<1>9. Turning'
    BY <1>5, <1>6, <1>7, <1>8 DEF Turning
<1>10. Awake'
    BY <1>3 DEF Awake
<1> QED BY <1>4, <1>9, <1>10, Built DEF IInv

-----------------------------------------------------------------------------
(***************************************************************************)
(* The inductive invariant                                                 *)
(***************************************************************************)
LEMMA ServiceStep ==
    ASSUME IInv, NEW t \in TC, Service(t)
    PROVE  IInv' /\ Awake'
<1>1. CASE tcs_start(t)
    BY <1>1, StartStep DEF Awake
<1>2. CASE tcs_lock(t)
    BY <1>2, LockStep DEF Awake
<1>3. CASE tcs_unlock(t)
    BY <1>3, UnlockStep DEF Awake
<1>4. CASE tcs_copy(t)
    BY <1>4, CopyStep DEF Awake
<1>5. CASE tcs_prebuild(t)
    BY <1>5, PrebuildStep DEF Awake
<1>6. CASE tcs_bec(t)
    BY <1>6, BecStep DEF Awake
<1>7. CASE tcs_buildfail(t)
    BY <1>7, BuildfailStep DEF Awake
<1>8. CASE proc_tcwait(t)
    BY <1>8, WaitStep DEF Awake
<1>9. CASE tcs_journal(t)
    BY <1>9, JournalStep DEF Awake
<1>10. CASE tcs_save(t)
    BY <1>10, SaveStep DEF Awake
<1>11. CASE tcs_end(t)
    BY <1>11, EndStep DEF Awake
<1>12. CASE TcNext(t)
    BY <1>12, NextStep
<1> QED BY <1>1, <1>2, <1>3, <1>4, <1>5, <1>6, <1>7, <1>8, <1>9, <1>10, <1>11, <1>12 DEF Service

LEMMA InitIInv ==
    ASSUME Init
    PROVE  IInv
<1>1. /\ par = [state |-> "PROCESS", attn |-> TRUE, abort |-> FALSE, currmode |-> "START"]
      /\ prp = [t \in TC |-> NoProctab]
      /\ part = [t \in TC |-> [s \in System |-> NoPart]]
      /\ skip = {} /\ unbuilt = {} /\ pass = {} /\ tcc_abort = FALSE
      /\ phase = "engine" /\ fails = 0
    BY DEF Init
<1>2. /\ NoProctab \in Proctab /\ NoProctab.state = "IDLE" /\ NoProctab.currmode = "START"
      /\ NoProctab.ids = {} /\ NoProctab.children = FALSE
    BY DEF NoProctab, Proctab, Prs, Tcs
<1>3. /\ par \in Directory /\ par.state = "PROCESS" /\ par.attn = TRUE /\ par.abort = FALSE
      /\ par.currmode = "START"
    BY <1>1 DEF Directory, Prs
<1>4. Typed
    <2>1. MaxFails \in Nat
        BY TccAssumption
    <2>2. prp \in [TC -> Proctab]
        BY <1>1, <1>2
    <2>3. part \in [TC -> [System -> GoodPart]]
        BY <1>1, NoPartIsGood
    <2>4. fails \in Nat /\ fails <= MaxFails
        BY <1>1, <2>1
    <2>5. /\ skip \in SUBSET TC /\ unbuilt \in SUBSET TC /\ pass \in SUBSET TC
          /\ tcc_abort \in BOOLEAN /\ phase \in {"engine", "shutdown", "exit"}
        BY <1>1
    <2> QED BY ONLY <1>3, <2>2, <2>3, <2>4, <2>5 DEF Typed
<1>5. "START" \notin Mode
    BY DEF Mode
<1>6. \A t \in TC : prp[t] = NoProctab
    BY <1>1
<1>7. runq = {}
    BY <1>2, <1>6 DEF runq
<1>8. /\ NoPart.tool \notin Active /\ NoPart.outfile = FALSE /\ NoPart.tmpdir = FALSE
      /\ NoPart.srclock = "none" /\ NoPart.execlock = "none"
    BY DEF NoPart, Active
<1>9. \A t \in TC, s \in System : part[t][s] = NoPart
    BY <1>1
<1>10. Cases
    <2> SUFFICES ASSUME NEW t \in TC
                 PROVE  CaseOK(t, prp[t], part[t])
        BY DEF Cases
    <2>1. Quiet(part[t]) /\ Lockless(part[t])
          /\ \A s \in System : ~part[t][s].outfile /\ ~part[t][s].tmpdir
        BY <1>8, <1>9 DEF Quiet, Lockless
    <2>2. Bare(prp[t], part[t])
        BY <1>2, <1>6, <2>1 DEF Bare
    <2> QED BY <1>2, <1>5, <1>6, <1>9, <2>1, <2>2 DEF CaseOK, Shape
<1>11. Queue /\ Aborted /\ Skips /\ Unbuilts
    BY <1>1, <1>2, <1>3, <1>5, <1>6, <1>7 DEF Queue, Aborted, Skips, Unbuilts
<1>12. Exclusive
    BY <1>8, <1>9 DEF Exclusive, Locks
<1>13. NotExecutedUnbuilt
    BY <1>1 DEF NotExecutedUnbuilt
<1> QED BY <1>4, <1>10, <1>11, <1>12, <1>13 DEF IInv, Turning

LEMMA NextIInv ==
    ASSUME IInv, [Next]_vars
    PROVE  IInv'
<1>0. Typed /\ pass \in SUBSET TC
    BY DEF IInv, Typed
<1>1. CASE Directive
    BY <1>1, ParallelStep, ParNextStep DEF Directive
<1>2. CASE BeginPass
    <2>1. pass' \in SUBSET TC
        BY <1>2 DEF BeginPass, runq
    <2> QED BY <1>2, <2>1, Still DEF BeginPass
<1>3. CASE Exit
    BY <1>3, ExitStep
<1>4. ASSUME NEW t \in TC, Service(t) \/ ShutdownTestcase(t)
      PROVE  IInv'
    BY <1>4, ServiceStep, ShutdownStep
<1>5. ASSUME NEW T \in SUBSET TC, Attend(T)
      PROVE  IInv'
    BY <1>5, AttendStep
<1>6. CASE engine_abort
    BY <1>6, AbortStep
<1>7. CASE engine_sigterm
    BY <1>7, SigtermStep
<1>8. CASE UNCHANGED vars
    BY <1>0, <1>8, Still DEF vars
<1>9. ASSUME NEW t \in TC, NEW s \in System, ToolExits(t, s) \/ TimeIsUp(t, s)
      PROVE  IInv'
    BY <1>9, ToolStep
<1>10. CASE Engine
    BY <1>1, <1>2, <1>3, <1>4, <1>5, <1>10 DEF Engine
<1>11. CASE Finished
    BY <1>8, <1>11 DEF Finished
<1> QED BY <1>6, <1>7, <1>8, <1>9, <1>10, <1>11 DEF Next

THEOREM Invariant == Spec => []IInv
<1>1. Init => IInv
    BY InitIInv
<1>2. IInv /\ [Next]_vars => IInv'
    BY NextIInv
<1> QED BY <1>1, <1>2, PTL DEF Spec

-----------------------------------------------------------------------------
(***************************************************************************)
(* Type correctness: every proctab is of its type, and no tool that is     *)
(* being killed is given more checks than there are (toolrun2()).          *)
(***************************************************************************)
LEMMA TypesAre ==
    ASSUME Typed
    PROVE  TypeOK
<1>1. /\ par \in [state : Prs, attn : BOOLEAN, abort : BOOLEAN,
                  currmode : Mode \cup {"START", "END"}]
      /\ prp \in [TC -> [state : Prs, attn : BOOLEAN, armed : BOOLEAN, abort : BOOLEAN,
                         currmode : Mode \cup {"START", "END"}, tcstate : Tcs,
                         children : BOOLEAN, jnlchild : BOOLEAN, ids : SUBSET System]]
    BY DEF Typed, Directory, Proctab
<1>2. part \in [TC -> [System -> Part]]
    <2>1. GoodPart \subseteq Part
        BY DEF GoodPart
    <2> QED BY <2>1 DEF Typed
<1>3. ASSUME NEW t \in TC, NEW s \in System
      PROVE  part[t][s].waitcount <= IF part[t][s].tool = "SIGTERM" THEN TERMWAIT ELSE KILLWAIT
    <2> DEFINE p == part[t][s]
    <2>1. p \in GoodPart
        BY DEF Typed
    <2> HIDE DEF p
    <2>2. /\ p.waitcount \in Nat
          /\ p.tool = "SIGTERM" => p.waitcount <= TERMWAIT
          /\ p.tool = "SIGKILL" => p.waitcount <= KILLWAIT
          /\ p.tool \notin {"SIGTERM", "SIGKILL"} => p.waitcount = 0
        BY <2>1, PartIs
    <2>3. KILLWAIT \in Nat
        BY TccAssumption
    <2>4. p.waitcount <= IF p.tool = "SIGTERM" THEN TERMWAIT ELSE KILLWAIT
        BY <2>2, <2>3
    <2> QED BY <2>4 DEF p
<1>4. /\ skip \subseteq TC /\ unbuilt \subseteq TC /\ pass \subseteq TC
      /\ tcc_abort \in BOOLEAN
      /\ phase \in {"engine", "shutdown", "exit"}
    BY DEF Typed
<1>5. fails \in 0..MaxFails
    BY TccAssumption DEF Typed
<1> QED BY <1>1, <1>2, <1>3, <1>4, <1>5 DEF TypeOK

(* tcc's proctabs are always of their types, and the checks after SIGTERM  *)
(* and SIGKILL are counted down from TERMWAIT and KILLWAIT (toolrun2()).   *)
THEOREM TypeCorrect == Spec => []TypeOK
<1>1. IInv => TypeOK
    BY TypesAre DEF IInv
<1> QED BY <1>1, Invariant, PTL

LEMMA NextAwake ==
    ASSUME IInv, Awake, [Next]_vars, ~proc_parallel(TC)
    PROVE  Awake'
<1>0. Typed /\ pass \in SUBSET TC
    BY DEF IInv, Typed
<1>1. CASE Directive
    <2>1. ASSUME NEW F \in SUBSET TC, proc_parallel(F)
          PROVE  Awake'
        <3>1. F # TC
            BY <2>1
        <3> QED BY <2>1, <3>1, ParallelStep
    <2> QED BY <1>1, <2>1, ParNextStep DEF Directive
<1>2. CASE BeginPass
    <2>1. pass' \in SUBSET TC
        BY <1>2 DEF BeginPass, runq
    <2> QED BY <1>2, <2>1, Still DEF BeginPass
<1>3. CASE UNCHANGED vars
    BY <1>0, <1>3, Still DEF vars
<1>4. CASE Engine
    BY <1>1, <1>2, <1>4, ExitStep, ServiceStep, ShutdownStep, AttendStep DEF Engine
<1> QED BY <1>3, <1>4, AbortStep, SigtermStep, ToolStep DEF Next, Finished

(* While the engine is at work, every entry of the run queue has its       *)
(* attention, or a timer and a tool to wait for, and the directive sleeps  *)
(* only while there is a test case to wake it up.  This is so as long as   *)
(* jnl_tmpfile() does not fail for all the test cases at a time:           *)
(* proc_par_s2() then puts none of them on the run queue, and the          *)
(* directive goes to sleep all the same.                                   *)
THEOREM NobodyIsStuck == Spec /\ [][~proc_parallel(TC)]_vars => []NobodyStuck
<1>1. IInv /\ Awake => NobodyStuck
    <2> SUFFICES ASSUME IInv, Awake, phase = "engine"
                 PROVE  /\ \A t \in runq :
                              \/ prp[t].attn \/ t \in pass
                              \/ /\ prp[t].state = "WAIT" /\ prp[t].armed
                                 /\ \E s \in Sys[t] : part[t][s].tool \in Active
                        /\ \/ par.attn \/ par.state = "IDLE"
                           \/ par.state = "SLEEP" /\ runq # {}
        BY DEF NobodyStuck
    <2>1. Typed /\ Cases /\ Queue
        BY DEF IInv, Turning
    <2>2. ASSUME NEW t \in runq
          PROVE  \/ prp[t].attn
                 \/ /\ prp[t].state = "WAIT" /\ prp[t].armed
                    /\ \E s \in Sys[t] : part[t][s].tool \in Active
        <3>1. t \in TC /\ prp[t].state # "IDLE"
            BY <2>2 DEF runq
        <3>2. Shape(t, prp[t], part[t])
            BY <2>1, <3>1 DEF Cases, CaseOK
        <3> QED BY <3>1, <3>2 DEF Shape
    <2>3. \/ par.attn \/ par.state = "IDLE"
          \/ par.state = "SLEEP" /\ runq # {}
        BY <2>1 DEF Queue, Awake
    <2> QED BY <2>2, <2>3
<1>2. Init => Awake
    BY DEF Init, Awake
<1>3. IInv /\ Awake /\ [Next]_vars /\ [~proc_parallel(TC)]_vars => Awake'
    <2>1. CASE vars' = vars
        BY <2>1 DEF vars, Awake, runq
    <2> QED BY <2>1, NextAwake
<1> QED BY <1>1, <1>2, <1>3, Invariant, PTL DEF Spec

(* A tool that works in a source or TET_EXECUTE directory does so under    *)
(* its test case's exclusive locks on all the systems (tcs_lock()), and    *)
(* two test cases' never in a directory of the same system, wherever the   *)
(* mode's configuration asks for locks (TET_EXEC_LOCK) and the file system *)
(* is not read-only; any other execution is in a temporary directory, all  *)
(* locks being given up.                                                   *)
THEOREM ToolsIsolated == Spec => []ToolsAreIsolated
<1>1. IInv => ToolsAreIsolated
    <2> SUFFICES ASSUME IInv, phase = "engine"
                 PROVE  ToolsAreIsolated
        BY DEF ToolsAreIsolated
    <2>1. Typed /\ Cases /\ Queue /\ Exclusive
        BY DEF IInv, Turning
    <2>2. ASSUME NEW t \in TC, Working(t)
          PROVE  /\ prp[t].state = "WAIT" /\ prp[t].currmode \in Mode
                 /\ prp[t].tcstate \in ToolState
                 /\ InMode(t, prp[t], part[t])
        <3>1. CaseOK(t, prp[t], part[t])
            BY <2>1 DEF Cases
        <3>2. prp[t].currmode \in Mode
            BY <2>2 DEF Working
        <3>3. ~Quiet(part[t])
            BY <2>2, SysIsSubset DEF Working, Quiet
        <3> QED BY <3>1, <3>2, <3>3 DEF CaseOK, Shape
    <2>3. ASSUME NEW t \in TC, InTree(t)
          PROVE  /\ ModeFor(prp[t]) = "exclusive"
                 /\ AllLocked(t, prp[t], part[t])
        <3>1. Working(t) /\ (prp[t].currmode # "EXEC" \/ InPlace)
            BY <2>3 DEF InTree
        <3>2. prp[t].tcstate \in {"PREBUILD", "BUILD", "BUILDFAIL", "CLEAN"}
              \/ (prp[t].tcstate = "EXEC" /\ InPlace)
            BY <2>2, <3>1 DEF ToolState, InMode
        <3> QED BY <2>2, <3>1, <3>2 DEF ModeFor, InMode
    <2>4. ASSUME NEW t \in TC, InTree(t), NEW s \in Sys[t]
          PROVE  /\ UsesSrc(t) /\ Lockable(t, s, Dir[t]) => part[t][s].srclock = "exclusive"
                 /\ UsesExec(t) /\ Lockable(t, s, ExecDir[t]) => part[t][s].execlock = "exclusive"
        BY <2>3, <2>4 DEF AllLocked, UsesSrc, Src, Lockable, LocksAtAll, MayLock
    <2>5. ASSUME NEW t \in TC, Working(t), ~InTree(t), NEW s \in Sys[t]
          PROVE  /\ part[t][s].tmpdir
                 /\ part[t][s].srclock = "none" /\ part[t][s].execlock = "none"
        <3>1. prp[t].currmode = "EXEC" /\ ~InPlace
            BY <2>5 DEF InTree
        <3>2. prp[t].tcstate = "EXEC"
            BY <2>2, <2>5, <3>1 DEF ToolState, InMode
        <3>3. Copied(t, part[t]) /\ Lockless(part[t])
            BY <2>2, <2>5, <3>1, <3>2 DEF InMode
        <3> QED BY <3>3, SysIsSubset DEF Copied, Lockless
    <2>6. ASSUME NEW t \in TC, NEW u \in TC \ {t}, InTree(t), InTree(u),
                 NEW s \in Sys[t] \cap Sys[u], NEW d \in Trees(t) \cap Trees(u)
          PROVE  ~Lockable(t, s, d)
        <3> SUFFICES ASSUME Lockable(t, s, d)
                     PROVE  FALSE
            OBVIOUS
        <3>1. s \in System /\ d \in Dirs
            BY SysIsSubset DEF Dirs, Trees
        <3>2. Lockable(u, s, d)
            <4>1. prp[t].currmode = par.currmode /\ prp[u].currmode = par.currmode
                BY <2>1, <2>2, <2>6 DEF InTree, Queue
            <4> QED BY <4>1 DEF Lockable, LocksAtAll
        <3>3. "exclusive" \in Locks(t, s, d)
            BY <2>4, <2>6 DEF Trees, Locks
        <3>4. "exclusive" \in Locks(u, s, d)
            BY <2>4, <2>6, <3>2 DEF Trees, Locks
        <3> QED BY <2>1, <3>1, <3>3, <3>4 DEF Exclusive
    <2> QED BY <2>4, <2>5, <2>6 DEF ToolsAreIsolated
<1> QED BY <1>1, Invariant, PTL

(* A test case whose build began and has not succeeded on all systems is   *)
(* not executed in this run of tcc: SCF_SKIP_EXEC is set wherever its      *)
(* locks, prebuild or build tools fail.                                    *)
THEOREM BuiltFirst == Spec => []NotExecutedUnbuilt
<1>1. IInv => NotExecutedUnbuilt
    BY DEF IInv
<1> QED BY <1>1, Invariant, PTL

(* Between two modes and off the run queue a test case holds no lock,      *)
(* temporary directory, output file, ID or child proctab, and no tool of   *)
(* it is waited for: tcs_endproc() gives all of it up, whatever failed.    *)
THEOREM NothingLeft == Spec => []NothingLeftBehind
<1>1. IInv => NothingLeftBehind
    <2> SUFFICES ASSUME IInv, phase = "engine",
                        NEW t \in TC, prp[t].currmode \notin Mode \/ t \notin runq
                 PROVE  HoldsNothing(t)
        BY DEF NothingLeftBehind
    <2>1. CaseOK(t, prp[t], part[t])
        BY DEF IInv, Turning, Cases
    <2>2. prp[t].currmode \notin Mode
        <3>1. CASE t \notin runq
            <4>1. prp[t] = NoProctab
                BY <2>1, <3>1 DEF runq, CaseOK, Shape
            <4> QED BY <4>1 DEF NoProctab, Mode
        <3> QED BY <3>1
    <2>3. Bare(prp[t], part[t])
        BY <2>1, <2>2 DEF CaseOK
    <2> QED BY <2>3 DEF Bare, Quiet, Lockless, HoldsNothing
<1> QED BY <1>1, Invariant, PTL

(* Once the user has called for an abort, the engine does not let another  *)
(* test case enter a mode: engine_abort() has marked all that are on the   *)
(* run queue, nextmode() sends those to END, and the directive starts no   *)
(* other ones (sigtrap.c:193-196).                                         *)
LEMMA Stays ==
    ASSUME Typed, NEW t \in TC, NEW u \in TC, NEW p, prp' = [prp EXCEPT ![u] = p],
           prp[t].currmode = "START",
           u # t \/ p.currmode \notin Mode
    PROVE  prp'[t].currmode \notin Mode
BY DEF Typed, Mode

LEMMA StartBecomes ==
    ASSUME NEW u \in TC, tcs_start(u)
    PROVE  \E p : Become(u, p)
<1> DEFINE m == nextmode(prp[u].abort, {par.currmode}, "START")
           x == [prp[u] EXCEPT !.currmode = m, !.tcstate = "START"]
<1>1. \/ Become(u, [x EXCEPT !.state = "NEXT"])
      \/ Become(u, Proceed(x, -1))
      \/ Startproc(u, x)
    BY DEF tcs_start
<1> HIDE DEF x
<1>2. ASSUME Startproc(u, x)
      PROVE  \E p : Become(u, p)
    <2> DEFINE many == Cardinality(Sys[u]) > 1
               q == [x EXCEPT !.children = many, !.jnlchild = many /\ ~OneJournal[u]]
    <2>1. \/ Become(u, Proceed([q EXCEPT !.ids = Sys[u]], 0))
          \/ \E I \in IF q.jnlchild THEN SUBSET Sys[u] ELSE {{}, Sys[u]} :
                Become(u, Proceed([q EXCEPT !.ids = I], -1))
        BY <1>2 DEF Startproc
    <2> HIDE DEF q
    <2> QED BY <2>1
<1> QED BY <1>1, <1>2

LEMMA PrebuildBecomes ==
    ASSUME NEW u \in TC, tcs_prebuild(u)
    PROVE  In(u, {"PREBUILD"}) /\ \E p : Become(u, p)
<1>1. In(u, {"PREBUILD"})
    BY DEF tcs_prebuild
<1>2. \/ prp' = [prp EXCEPT ![u] = Proceed(prp[u], 0)]
      \/ prp' = [prp EXCEPT ![u] = Proceed(prp[u], -1)]
      \/ prp' = [prp EXCEPT ![u] = Wait(prp[u])]
    BY DEF tcs_prebuild, Become
<1> QED BY <1>1, <1>2 DEF Become

LEMMA NoneStarts ==
    ASSUME IInv, [Next]_vars, tcc_abort, NEW t \in TC, prp[t].currmode = "START"
    PROVE  prp'[t].currmode \notin Mode
<1>0. Typed /\ prp \in [TC -> Proctab] /\ "START" \notin Mode
    BY DEF IInv, Typed, Mode
<1>1. ASSUME prp' = prp
      PROVE  prp'[t].currmode \notin Mode
    BY <1>0, <1>1
<1>2. CASE Directive
    <2>1. CASE ParNext
        BY <1>1, <2>1 DEF ParNext
    <2>2. CASE \E F \in SUBSET TC : proc_parallel(F)
        BY <1>0, <2>2, ParallelStep
    <2> QED BY <1>2, <2>1, <2>2 DEF Directive
<1>3. ASSUME NEW u \in TC, NEW tcs, In(u, tcs), NEW p, Become(u, p)
      PROVE  prp'[t].currmode \notin Mode
    <2>1. u # t
        BY <1>0, <1>3 DEF In
    <2> QED BY <1>0, <1>3, <2>1, Stays DEF Become
<1>4. ASSUME NEW u \in TC, Service(u)
      PROVE  prp'[t].currmode \notin Mode
    <2>1. CASE tcs_start(u)
        <3>1. CASE u = t
            <4>1. phase = "engine" /\ prp[t].state = "PROCESS"
                BY <2>1, <3>1 DEF tcs_start, Serviced
            <4>2. prp[t].abort
                BY <4>1 DEF IInv, Turning, Aborted
            <4> QED BY <2>1, <3>1, <4>2, StartStep
        <3>2. CASE u # t
            <4>1. \E p : Become(u, p)
                BY <2>1, StartBecomes
            <4> QED BY <1>0, <3>2, <4>1, Stays DEF Become
        <3> QED BY <3>1, <3>2
    <2>2. CASE tcs_lock(u)
        BY <1>3, <2>2 DEF tcs_lock
    <2>3. CASE tcs_unlock(u)
        BY <1>3, <2>3 DEF tcs_unlock
    <2>4. CASE tcs_copy(u)
        BY <1>3, <2>4 DEF tcs_copy
    <2>5. CASE tcs_prebuild(u)
        BY <1>3, <2>5, PrebuildBecomes
    <2>6. CASE tcs_bec(u)
        BY <1>3, <2>6 DEF tcs_bec, Execute
    <2>7. CASE tcs_buildfail(u)
        BY <1>3, <2>7 DEF tcs_buildfail, Execute
    <2>8. CASE proc_tcwait(u)
        <3>1. phase = "engine" /\ prp[u].state = "WAIT"
            BY <2>8 DEF proc_tcwait, Serviced
        <3>2. prp[u].currmode \in Mode
            BY <3>1 DEF IInv, Turning, Cases, CaseOK, Shape
        <3>3. \E p : Become(u, p)
            BY <2>8 DEF proc_tcwait
        <3> QED BY <1>0, <3>2, <3>3, Stays DEF Become
    <2>9. CASE tcs_journal(u)
        BY <1>3, <2>9 DEF tcs_journal
    <2>10. CASE tcs_save(u)
        BY <1>3, <2>10 DEF tcs_save
    <2>11. CASE tcs_end(u)
        BY <1>3, <2>11 DEF tcs_end, tcs_endproc
    <2>12. CASE TcNext(u)
        <3>1. NoProctab.currmode \notin Mode
            BY DEF NoProctab, Mode
        <3> QED BY <1>0, <2>12, <3>1, Stays DEF TcNext, Become
    <2> QED BY <1>4, <2>1, <2>2, <2>3, <2>4, <2>5, <2>6, <2>7, <2>8, <2>9, <2>10,
               <2>11, <2>12 DEF Service
<1>5. ASSUME NEW u \in TC, ShutdownTestcase(u)
      PROVE  prp'[t].currmode \notin Mode
    <2>1. CASE u = t
        BY <1>5, <2>1, ShutdownStep DEF Mode
    <2>2. CASE u # t
        BY <1>1, <1>5, <2>2, ShutdownStep, <1>0
    <2> QED BY <2>1, <2>2
<1>6. ASSUME NEW T \in SUBSET TC, Attend(T)
      PROVE  prp'[t].currmode \notin Mode
    BY <1>0, <1>6, AttendStep
<1>7. CASE engine_abort
    BY <1>0, <1>7, AbortStep
<1>8. CASE engine_sigterm
    BY <1>1, <1>8 DEF engine_sigterm
<1>9. CASE UNCHANGED vars
    BY <1>1, <1>9 DEF vars
<1>10. ASSUME NEW u \in TC, NEW s \in System, ToolExits(u, s) \/ TimeIsUp(u, s)
       PROVE  prp'[t].currmode \notin Mode
    BY <1>1, <1>10 DEF ToolExits, TimeIsUp
<1>11. CASE Engine
    <2>1. CASE BeginPass \/ Exit
        BY <1>1, <2>1 DEF BeginPass, Exit
    <2> QED BY <1>2, <1>4, <1>5, <1>6, <1>11, <2>1 DEF Engine
<1>12. CASE Finished
    BY <1>9, <1>12 DEF Finished
<1> QED BY <1>7, <1>8, <1>9, <1>10, <1>11, <1>12 DEF Next

(* No test case enters a mode once the user has called for an abort.       *)
THEOREM NoStartAfterAbort == Spec => NothingStartsAfterAbort
<1>1. IInv /\ [Next]_vars =>
          [tcc_abort => \A t \in TC : prp[t].currmode = "START" => prp'[t].currmode \notin Mode]_vars
    BY NoneStarts
<1> QED BY <1>1, Invariant, PTL DEF Spec, NothingStartsAfterAbort
=============================================================================
