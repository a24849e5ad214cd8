-------------------------------- MODULE Tcc --------------------------------
(***************************************************************************)
(* The execution engine of the test case controller, tcc, at work on a     *)
(* PARALLEL directive (src/tet3/tcc: proctc.c, tool.c, service.c, ...).    *)
(*                                                                         *)
(* The engine is one thread.  It turns over in passes: a pass services     *)
(* each entry of the run queue whose ATTENTION flag is set, and signals    *)
(* are blocked while it lasts.  A test case goes through the states TCS_*  *)
(* of one mode (BUILD, EXEC or CLEAN), on all its systems at a time: it    *)
(* gets a sync ID and results file, locks, tools are executed and waited   *)
(* for, and everything is given up again in the state END.                 *)
(*                                                                         *)
(* A lock is RWLock's: what tcc_lock() does for it is in module Locks.     *)
(***************************************************************************)
EXTENDS Integers, FiniteSets

CONSTANTS
    TC,             \* the test cases below the PARALLEL directive
    System,         \* the systems
    Sys,            \* the systems each test case runs on
    Dir,            \* the source directory of each test case
    ExecDir,        \* TET_EXECUTE's directory for it, or NoDir
    NoDir,
    OneJournal,     \* distributed, API-conforming: all parts use one journal
    Api,            \* the journal result is the test's own, not an exit code
    Modes,          \* the modes of operation tcc was started with
    ExecLock,       \* the modes whose configuration has TET_EXEC_LOCK
    ReadOnly,       \* <<system, directory>>: on a read-only file system
    InPlace,        \* TET_EXEC_IN_PLACE
    Capture,        \* TET_OUTPUT_CAPTURE in the build, exec and clean tools
    Timed,          \* was tcc started with a timeout?
    MayFail,        \* the operations that may fail ...
    MaxFails,       \* ... bound: how often
    TERMWAIT,       \* checks after SIGTERM (5) and after SIGKILL (2)
    KILLWAIT,
    Signals         \* the signals that tcc may get

Mode == {"BUILD", "EXEC", "CLEAN"}
Op == {"jnl", "start", "lock", "copy", "exec", "wait"}

ASSUME TccAssumption ==
    /\ IsFiniteSet(TC) /\ IsFiniteSet(System)
    /\ Sys \in [TC -> (SUBSET System) \ {{}}]
    /\ DOMAIN Dir = TC /\ DOMAIN ExecDir = TC
    /\ OneJournal \in [TC -> BOOLEAN]
    /\ Api \/ \A t \in TC : ~OneJournal[t]
    /\ Modes \subseteq Mode /\ ExecLock \subseteq Mode
    /\ InPlace \in BOOLEAN /\ Api \in BOOLEAN /\ Capture \in BOOLEAN /\ Timed \in BOOLEAN
    /\ MayFail \subseteq Op
    /\ MaxFails \in Nat
    /\ TERMWAIT \in Nat \ {0} /\ KILLWAIT \in Nat \ {0}
    /\ Signals \subseteq {"SIGQUIT", "SIGTERM"}

VARIABLES
    par,            \* the proctab of the PARALLEL directive
    prp,            \* the proctab of each test case
    part,           \* its part on each system: a child proctab, or itself
    skip,           \* scenario elements with SCF_SKIP_EXEC
    unbuilt,        \* history: test cases whose build began and has not succeeded
    pass,           \* the entries still to be serviced in this pass
    tcc_abort,      \* TCC_ABORT in tcc_modes
    phase,          \* "engine", "shutdown" or "exit"
    fails           \* bound: failures so far

vars == <<par, prp, part, skip, unbuilt, pass, tcc_abort, phase, fails>>

-----------------------------------------------------------------------------
Tcs == {"START", "LOCK", "UNLOCK", "COPY", "PREBUILD", "BUILD", "BUILDFAIL",
        "EXEC", "CLEAN", "JOURNAL", "SAVE", "END"}
Prs == {"IDLE", "PROCESS", "NEXT", "SLEEP", "WAIT"}
Pts == {"IDLE", "RUNNING", "EXITED", "ABORT", "SIGTERM", "SIGKILL"}
LockMode == {"none", "shared", "exclusive"}

Active == {"RUNNING", "ABORT", "SIGTERM", "SIGKILL"}    \* tools to wait for

(* A part: alive is the tool's process, late that its timeout is over.     *)
Part == [tool : Pts, alive : BOOLEAN, late : BOOLEAN, ok : BOOLEAN,
         waitcount : Nat, outfile : BOOLEAN,
         srclock : LockMode, execlock : LockMode, tmpdir : BOOLEAN]
NoPart == [tool |-> "IDLE", alive |-> FALSE, late |-> FALSE, ok |-> TRUE,
           waitcount |-> 0, outfile |-> FALSE,
           srclock |-> "none", execlock |-> "none", tmpdir |-> FALSE]

(* A proctab; it is on the run queue unless its state is IDLE.  children:  *)
(* one proctab for each system has been allocated below it.  ids are the   *)
(* parts that have (or share) a sync ID and an execution results file.     *)
NoProctab == [state |-> "IDLE", attn |-> FALSE, armed |-> FALSE, abort |-> FALSE,
              currmode |-> "START", tcstate |-> "START", children |-> FALSE,
              jnlchild |-> FALSE, ids |-> {}]

runq == {t \in TC : prp[t].state # "IDLE"}

order == [START |-> 0, BUILD |-> 1, EXEC |-> 2, CLEAN |-> 3, END |-> 4]

\* mutant: an abort is not looked at
nextmodeAnyway(abort, modes, m) ==
    LET later == {n \in modes \cup {"END"} : order[n] > order[m]}
    IN  CHOOSE n \in later : \A o \in later : order[n] <= order[o]
nextmode(abort, modes, m) ==
    LET later == {n \in modes \cup {"END"} : order[n] > order[m]}
    IN  IF abort THEN "END" ELSE CHOOSE n \in later : \A o \in later : order[n] <= order[o]

Init ==
    /\ par = [state |-> "PROCESS", attn |-> TRUE, abort |-> FALSE, currmode |-> "START"]
    /\ prp = [t \in TC |-> NoProctab]
    /\ part = [t \in TC |-> [s \in System |-> NoPart]]
    /\ skip = {}
    /\ unbuilt = {}
    /\ pass = {}
    /\ tcc_abort = FALSE
    /\ phase = "engine"
    /\ fails = 0

(* The operation op fails for the members of F.                            *)
Fail(op, F) ==
    /\ F # {} => op \in MayFail
    /\ fails' = fails + Cardinality(F)
    /\ fails' <= MaxFails

-----------------------------------------------------------------------------
(***************************************************************************)
(* nexttcstate(): the next state of a test case, given that the current    *)
(* one has succeeded (rc = 0) or not.                                      *)
(***************************************************************************)
EndsEarly(p, rc) ==
    /\ p.abort
    /\ \/ p.tcstate \in {"START", "LOCK", "PREBUILD", "COPY", "UNLOCK"}
       \/ p.tcstate \in {"BUILD", "CLEAN"} /\ rc # 0

AfterLock(m) == CASE m = "BUILD" -> "PREBUILD"
                  [] m = "CLEAN" -> "CLEAN"
                  [] m = "EXEC" -> IF InPlace THEN "EXEC" ELSE "COPY"

AfterSuccess(p) ==
    CASE p.tcstate = "START" -> "LOCK"
      [] p.tcstate = "LOCK" -> AfterLock(p.currmode)
      [] p.tcstate = "COPY" -> "UNLOCK"
      [] p.tcstate = "UNLOCK" -> IF p.currmode = "EXEC" /\ ~InPlace THEN "EXEC" ELSE "END"
      [] p.tcstate = "PREBUILD" -> "BUILD"
      [] p.tcstate \in {"BUILD", "EXEC", "CLEAN"} -> "JOURNAL"
      [] p.tcstate = "JOURNAL" -> IF p.currmode = "EXEC" THEN "SAVE" ELSE "END"
      [] p.tcstate \in {"BUILDFAIL", "SAVE"} -> "END"

AfterFailure(p) ==
    CASE p.tcstate \in {"PREBUILD", "BUILD"} -> "BUILDFAIL"
      [] p.tcstate = "JOURNAL" /\ p.currmode = "BUILD" -> "BUILDFAIL"
      [] p.tcstate = "JOURNAL" /\ p.currmode = "EXEC" -> "SAVE"
      [] OTHER -> "END"

nexttcstate(p, rc) ==
    IF EndsEarly(p, rc) THEN "END"
    ELSE IF rc = 0 THEN AfterSuccess(p) ELSE AfterFailure(p)

(* The proctab p goes on with its next state, or waits for its tools.      *)
Proceed(p, rc) == [p EXCEPT !.state = "PROCESS", !.attn = TRUE, !.tcstate = nexttcstate(p, rc)]
\* mutant: the time of the next check is not set
WaitOff(p) == [p EXCEPT !.state = "WAIT", !.attn = FALSE]
Wait(p) == [p EXCEPT !.state = "WAIT", !.attn = FALSE, !.armed = TRUE]

(* t is serviced in this pass, in the state tcs of a mode.                 *)
Serviced(t) == /\ phase = "engine"
               /\ t \in pass
               /\ pass' = pass \ {t}

In(t, tcs) == /\ Serviced(t)
              /\ prp[t].state = "PROCESS"
              /\ prp[t].currmode \in Mode
              /\ prp[t].tcstate \in tcs

Become(t, p) == prp' = [prp EXCEPT ![t] = p]
Parts(t, f) == part' = [part EXCEPT ![t] = [s \in System |-> IF s \in Sys[t] THEN f[s] ELSE @[s]]]

Rc(b) == IF b THEN -1 ELSE 0

-----------------------------------------------------------------------------
(***************************************************************************)
(* proc_parallel(): each mode starts with a child for every test case, and *)
(* its journal file; the children process this mode only.                  *)
(***************************************************************************)
NewChild == [NoProctab EXCEPT !.state = "PROCESS", !.attn = TRUE]

proc_parallel(F) ==
    /\ phase = "engine" /\ par.attn
    /\ pass = {}                            \* it is first in the run queue
    /\ par.state = "PROCESS"
    /\ LET m == nextmode(par.abort, Modes, par.currmode)
       IN  IF m = "END"
           THEN /\ par' = [par EXCEPT !.currmode = m, !.state = "NEXT"]
                /\ F = {} /\ UNCHANGED <<prp, part>>
           ELSE /\ par' = [par EXCEPT !.currmode = m, !.state = "SLEEP", !.attn = FALSE]
                /\ prp' = [t \in TC |-> IF t \in F THEN NoProctab ELSE NewChild]
                /\ part' = [t \in TC |-> [s \in System |-> NoPart]]
    /\ Fail("jnl", F)
    /\ UNCHANGED <<skip, unbuilt, pass, tcc_abort, phase>>

(* proc_n2() for the directive: the next mode, or off the run queue.       *)
ParNext ==
    /\ phase = "engine" /\ par.attn
    /\ pass = {}
    /\ par.state = "NEXT"
    /\ par' = IF par.currmode = "END" THEN [par EXCEPT !.state = "IDLE", !.attn = FALSE]
                                      ELSE [par EXCEPT !.state = "PROCESS"]
    /\ UNCHANGED <<prp, part, skip, unbuilt, pass, tcc_abort, phase, fails>>

BeginPass ==
    /\ phase = "engine" /\ pass = {}
    /\ \E t \in runq : prp[t].attn
    /\ pass' = {t \in runq : prp[t].attn}
    /\ UNCHANGED <<par, prp, part, skip, unbuilt, tcc_abort, phase, fails>>

(***************************************************************************)
(* proc_testcase(), the first time: the mode is entered and started.       *)
(***************************************************************************)
Skipped(t) == prp[t].currmode = "EXEC" /\ t \in skip

(* tcs_startproc() on p: child proctabs, journals, sync and results IDs.   *)
(* When it fails it may have got any of them.                              *)
Startproc(t, p) ==
    LET many == Cardinality(Sys[t]) > 1
        q == [p EXCEPT !.children = many, !.jnlchild = many /\ ~OneJournal[t]]
    IN  \/ /\ Become(t, Proceed([q EXCEPT !.ids = Sys[t]], 0))
           /\ Fail("start", {})
        \/ /\ \E I \in IF q.jnlchild THEN SUBSET Sys[t] ELSE {{}, Sys[t]} :
                 Become(t, Proceed([q EXCEPT !.ids = I], -1))
           /\ Fail("start", {t})

tcs_start(t) ==
    /\ Serviced(t)
    /\ prp[t].state = "PROCESS" /\ prp[t].currmode = "START"
    /\ LET m == nextmode(prp[t].abort, {par.currmode}, "START")
           p == [prp[t] EXCEPT !.currmode = m, !.tcstate = "START"]
       IN  CASE m = "END" -> Become(t, [p EXCEPT !.state = "NEXT"]) /\ Fail("start", {})
             [] m = "EXEC" /\ t \in skip -> Become(t, Proceed(p, -1)) /\ Fail("start", {})
             [] OTHER -> Startproc(t, p)
    /\ UNCHANGED <<par, part, skip, unbuilt, tcc_abort, phase>>

(***************************************************************************)
(* tcs_lock(), tcs_unlock()                                                *)
(***************************************************************************)
Locks(u, s, d) == {m \in {"shared", "exclusive"} :
                      \/ Dir[u] = d /\ part[u][s].srclock = m
                      \/ ExecDir[u] = d /\ part[u][s].execlock = m}

\* mutant: an exclusive lock shuts out nobody
FreeAnyway(s, d, m) == TRUE
Free(s, d, m) == \A u \in TC : IF m = "shared" THEN "exclusive" \notin Locks(u, s, d)
                                              ELSE Locks(u, s, d) = {}

LockModeFor(t) == IF prp[t].currmode = "EXEC" /\ ~InPlace THEN "shared" ELSE "exclusive"
UsesSrc(t) == prp[t].currmode # "EXEC" \/ ExecDir[t] = NoDir
UsesExec(t) == ExecDir[t] # NoDir

LocksAtAll(t) == prp[t].currmode \in ExecLock
WantsSrclock(t) == LocksAtAll(t) /\ UsesSrc(t)
WantsExeclock(t) == LocksAtAll(t) /\ UsesExec(t)

(* The requests of part s, of which those in F fail for a reason outside   *)
(* this tcc; the second is not made if the first has failed, and fails if  *)
(* the first has locked the same directory.  On a read-only file system    *)
(* nobody has a lock, and tcc_lock() succeeds without one.  A lock that is *)
(* not free is waited for until the timeout, at once if there is none: no  *)
(* other test case is serviced meanwhile, and the request fails.           *)
GetsSrclock(t, s, F) ==
    /\ <<s, "src">> \notin F
    /\ <<s, Dir[t]>> \in ReadOnly \/ Free(s, Dir[t], LockModeFor(t))
GetsExeclock(t, s, F) ==
    /\ WantsSrclock(t) => GetsSrclock(t, s, F)
    /\ <<s, "exec">> \notin F
    /\ \/ <<s, ExecDir[t]>> \in ReadOnly
       \/ Free(s, ExecDir[t], LockModeFor(t)) /\ ~(WantsSrclock(t) /\ ExecDir[t] = Dir[t])

tcs1_lock(t, s, F) ==
    LET lock(d, old) == IF <<s, d>> \in ReadOnly THEN old ELSE LockModeFor(t)
    IN  [part[t][s] EXCEPT
            !.srclock = IF WantsSrclock(t) /\ GetsSrclock(t, s, F) THEN lock(Dir[t], @) ELSE @,
            !.execlock = IF WantsExeclock(t) /\ GetsExeclock(t, s, F) THEN lock(ExecDir[t], @) ELSE @]

LockSucceeds(t, s, F) == /\ WantsSrclock(t) => GetsSrclock(t, s, F)
                         /\ WantsExeclock(t) => GetsExeclock(t, s, F)

\* mutant: a test case that cannot be built is executed
SkipNever(t, failed) == skip' = skip
SkipIf(t, failed) ==
    skip' = IF failed /\ prp[t].currmode = "BUILD" THEN skip \cup {t} ELSE skip

tcs_lock(t) ==
    /\ In(t, {"LOCK"})
    /\ \E F \in SUBSET (Sys[t] \X {"src", "exec"}) :
         LET failed == \E s \in Sys[t] : ~LockSucceeds(t, s, F)
         IN  /\ Fail("lock", F)
             /\ Parts(t, [s \in Sys[t] |-> tcs1_lock(t, s, F)])
             /\ SkipIf(t, failed)
             /\ Become(t, Proceed(prp[t], Rc(failed)))
    /\ unbuilt' = IF prp[t].currmode = "BUILD" THEN unbuilt \cup {t} ELSE unbuilt
    /\ UNCHANGED <<par, tcc_abort, phase>>

Unlocked(p) == [p EXCEPT !.srclock = "none", !.execlock = "none"]

tcs_unlock(t) ==
    /\ In(t, {"UNLOCK"})
    /\ Parts(t, [s \in Sys[t] |-> Unlocked(part[t][s])])
    /\ Become(t, Proceed(prp[t], 0))
    /\ UNCHANGED <<par, skip, unbuilt, tcc_abort, phase, fails>>

(* tcs_copy(): when it fails for the systems in F, the temporary directory *)
(* may have been made (D) or not.                                          *)
tcs_copy(t) ==
    /\ In(t, {"COPY"})
    /\ \E F \in SUBSET Sys[t] : \E D \in SUBSET F :
         /\ Fail("copy", F)
         /\ Parts(t, [s \in Sys[t] |-> [part[t][s] EXCEPT !.tmpdir = s \in D \/ s \notin F]])
         /\ Become(t, Proceed(prp[t], Rc(F # {})))
    /\ UNCHANGED <<par, skip, unbuilt, tcc_abort, phase>>

(***************************************************************************)
(* Tools.  exec makes the part's tool run; out: its output is captured.    *)
(***************************************************************************)
Run(p, out) == [p EXCEPT !.tool = "RUNNING", !.alive = TRUE, !.late = FALSE, !.outfile = out]

(* The prebuild tool runs on the first system; there may be none.          *)
Master(t) == CHOOSE s \in Sys[t] : TRUE

tcs_prebuild(t) ==
    LET others == [s \in Sys[t] |-> IF s = Master(t) THEN part[t][s]
                                    ELSE [part[t][s] EXCEPT !.tool = "IDLE", !.ok = TRUE]]
    IN  /\ In(t, {"PREBUILD"})
        /\ \/ /\ Become(t, Proceed(prp[t], 0))
              /\ Parts(t, others)
              /\ Fail("exec", {}) /\ UNCHANGED skip
           \/ /\ Become(t, Proceed(prp[t], -1))
              /\ Parts(t, others)
              /\ Fail("exec", {t}) /\ SkipIf(t, TRUE)
           \/ /\ Become(t, Wait(prp[t]))
              /\ Parts(t, [others EXCEPT ![Master(t)] = Run(@, TRUE)])
              /\ Fail("exec", {}) /\ UNCHANGED skip
        /\ UNCHANGED <<par, unbuilt, tcc_abort, phase>>

(* The tools in R run, those in F cannot be executed.                      *)
Execute(t, R, F, out) ==
    /\ Fail("exec", F)
    /\ Parts(t, [s \in Sys[t] |-> IF s \in R THEN Run(part[t][s], out) ELSE part[t][s]])
    /\ Become(t, IF R # {} THEN Wait(prp[t]) ELSE Proceed(prp[t], Rc(F # {})))

(* The build, exec or clean tool on each system.                           *)
tcs_bec(t) ==
    /\ In(t, {"BUILD", "EXEC", "CLEAN"})
    /\ \E F \in SUBSET Sys[t] :
         /\ Execute(t, Sys[t] \ F, F, Capture)
         /\ SkipIf(t, F # {})
         /\ unbuilt' = IF prp[t].tcstate = "BUILD" /\ F = {} THEN unbuilt \ {t} ELSE unbuilt
    /\ UNCHANGED <<par, tcc_abort, phase>>

(* The build fail tool on the systems that have one.                       *)
tcs_buildfail(t) ==
    /\ In(t, {"BUILDFAIL"})
    /\ \E R \in SUBSET Sys[t] : \E F \in SUBSET (Sys[t] \ R) : Execute(t, R, F, TRUE)
    /\ UNCHANGED <<par, skip, unbuilt, tcc_abort, phase>>

(* toolrun2(): a tool that is still running is left alone, or signalled.   *)
\* mutant: the checks are not counted
CountNot(p) == p.waitcount
Count(p) == IF p.waitcount > 0 THEN p.waitcount - 1 ELSE 0

\* mutant: the checks still left are added to the new ones
SignalledAgain(p, sig, n) == [p EXCEPT !.tool = sig, !.waitcount = @ + n]
Signalled(p, sig, n) == [p EXCEPT !.tool = sig, !.waitcount = n]
Exited(p, ok) == [p EXCEPT !.tool = "EXITED", !.ok = ok, !.outfile = FALSE, !.waitcount = 0]

toolrun2(p) ==
    CASE p.tool = "RUNNING" /\ ~p.late -> p
      [] p.tool = "ABORT" \/ (p.tool = "RUNNING" /\ p.late) ->
            Signalled(p, "SIGTERM", TERMWAIT)
      [] p.tool \in {"SIGTERM", "SIGKILL"} /\ Count(p) > 0 -> [p EXCEPT !.waitcount = Count(p)]
      [] p.tool = "SIGTERM" /\ Count(p) = 0 -> Signalled(p, "SIGKILL", KILLWAIT)
      [] p.tool = "SIGKILL" /\ Count(p) = 0 -> Exited(p, FALSE)     \* it hangs

(* toolwait(): fail means that waiting for the tool, or its kill, fails;   *)
(* ok is the exit status of a tool that has exited.                        *)
toolwait(p, fail, ok) ==
    CASE p.tool \notin Active -> p
      [] p.tool \in Active /\ ~p.alive -> Exited(p, ok)
      [] p.tool \in Active /\ p.alive /\ fail -> Exited(p, FALSE)
      [] p.tool \in Active /\ p.alive /\ ~fail -> toolrun2(p)

(* proc_tcwait(): when the last tool has exited, its state is left; only   *)
(* the prebuild and build fail tools' exit codes are a result of it.       *)
proc_tcwait(t) ==
    /\ Serviced(t)
    /\ prp[t].state = "WAIT"
    /\ \E F \in SUBSET {s \in Sys[t] : part[t][s].tool \in Active /\ part[t][s].alive},
          O \in SUBSET {s \in Sys[t] : part[t][s].tool \in Active /\ ~part[t][s].alive} :
         LET now == [s \in Sys[t] |-> toolwait(part[t][s], s \in F, s \in O)]
             rc == Rc(\E s \in Sys[t] : now[s].tool = "EXITED" /\ ~now[s].ok)
         IN  /\ Fail("wait", F)
             /\ Parts(t, now)
             /\ IF \E s \in Sys[t] : now[s].tool \in Active
                THEN Become(t, Wait(prp[t])) /\ UNCHANGED skip
                ELSE /\ SkipIf(t, prp[t].tcstate = "PREBUILD" /\ rc < 0)
                     /\ Become(t, Proceed(prp[t],
                            IF prp[t].tcstate \in {"BUILD", "EXEC", "CLEAN"} THEN 0 ELSE rc))
    /\ UNCHANGED <<par, unbuilt, tcc_abort, phase>>

(***************************************************************************)
(* tcs_journal(): the result is that of the exit codes, or of the test     *)
(* purposes if the test case uses the API; XRESD's file is closed then.    *)
(***************************************************************************)
tcs_journal(t) ==
    /\ In(t, {"JOURNAL"})
    /\ \E rc \in {0, -1} :
         /\ ~Api => rc = Rc(\E s \in Sys[t] : ~part[t][s].ok)
         /\ SkipIf(t, rc < 0)
         /\ unbuilt' = IF rc < 0 /\ prp[t].currmode = "BUILD" THEN unbuilt \cup {t} ELSE unbuilt
         /\ Become(t, [Proceed(prp[t], rc) EXCEPT !.ids = IF Api THEN {} ELSE @])
    /\ UNCHANGED <<par, part, tcc_abort, phase, fails>>

tcs_save(t) ==
    /\ In(t, {"SAVE"})
    /\ Become(t, Proceed(prp[t], 0))
    /\ UNCHANGED <<par, part, skip, unbuilt, tcc_abort, phase, fails>>

(* tcs_endproc(): everything the test case has is given up.                *)
\* mutant: a failed copy leaves its locks and temporary directory
EndedPartLate(p) == IF p.tool = "EXITED" THEN [Unlocked(p) EXCEPT !.tmpdir = FALSE] ELSE p
EndedPart(p) == [Unlocked(p) EXCEPT !.tmpdir = FALSE]
EndedProc(p) == [p EXCEPT !.ids = {}, !.children = FALSE, !.jnlchild = FALSE]

LeaveMode(p) == [p EXCEPT !.currmode = "END", !.tcstate = "START", !.state = "NEXT", !.attn = TRUE]

tcs_endproc(t) ==
    IF Skipped(t)
    THEN Become(t, LeaveMode(prp[t])) /\ UNCHANGED part
    ELSE /\ Become(t, LeaveMode(EndedProc(prp[t])))
         /\ Parts(t, [s \in Sys[t] |-> EndedPart(part[t][s])])

tcs_end(t) ==
    /\ In(t, {"END"})
    /\ tcs_endproc(t)
    /\ UNCHANGED <<par, skip, unbuilt, tcc_abort, phase, fails>>

(* proc_n2(): the test case comes off the run queue; the last one wakes up *)
(* the directive.                                                          *)
TcNext(t) ==
    /\ Serviced(t)
    /\ prp[t].state = "NEXT"
    /\ Become(t, NoProctab)
    /\ par' = IF runq = {t} THEN [par EXCEPT !.state = "NEXT", !.attn = TRUE] ELSE par
    /\ UNCHANGED <<part, skip, unbuilt, tcc_abort, phase, fails>>

(***************************************************************************)
(* Between passes: timers (tcc_timeouts()) and signals                     *)
(***************************************************************************)
AllQuiet == pass = {} /\ ~par.attn /\ \A t \in runq : ~prp[t].attn

Attend(T) ==
    /\ phase = "engine" /\ AllQuiet
    /\ T \subseteq {t \in runq : prp[t].armed}
    /\ prp' = [t \in TC |-> IF t \in T THEN [prp[t] EXCEPT !.armed = FALSE, !.attn = TRUE]
                                       ELSE prp[t]]
    /\ UNCHANGED <<par, part, skip, unbuilt, pass, tcc_abort, phase, fails>>

Interrupted(p) == [p EXCEPT !.tool = IF p.tool = "RUNNING" THEN "ABORT" ELSE @]

(* SIGQUIT: no more test cases are started, and those whose tools are      *)
(* waited for are interrupted.                                             *)
engine_abort ==
    /\ "SIGQUIT" \in Signals /\ ~tcc_abort
    /\ phase = "engine" /\ pass = {} /\ par.state # "IDLE"
    /\ tcc_abort' = TRUE
    /\ par' = [par EXCEPT !.abort = TRUE]
    /\ prp' = [t \in TC |-> IF t \notin runq THEN prp[t]
                            ELSE [prp[t] EXCEPT !.abort = TRUE,
                                                !.attn = @ \/ prp[t].state = "WAIT"]]
    /\ part' = [t \in TC |-> [s \in System |->
                    IF t \in runq /\ prp[t].state = "WAIT" THEN Interrupted(part[t][s])
                                                           ELSE part[t][s]]]
    /\ UNCHANGED <<skip, unbuilt, pass, phase, fails>>

(***************************************************************************)
(* SIGTERM or SIGHUP: fatal() and tcc_exit() call engine_shutdown().  The  *)
(* running tools are sent a SIGTERM and taken for exited, and then the     *)
(* test cases that are in a mode are ended one after the other.            *)
(***************************************************************************)
quick_killtc(p) == [p EXCEPT !.tool = IF p.tool = "RUNNING" THEN "EXITED" ELSE @]

engine_sigterm ==
    /\ "SIGTERM" \in Signals
    /\ phase = "engine" /\ pass = {} /\ par.state # "IDLE"
    /\ phase' = "shutdown"
    /\ part' = [t \in TC |-> [s \in System |->
                    IF t \in runq THEN quick_killtc(part[t][s]) ELSE part[t][s]]]
    /\ pass' = {t \in runq : prp[t].currmode \in Mode}
    /\ UNCHANGED <<par, prp, skip, unbuilt, tcc_abort, fails>>

(* prfree() asserts that a child proctab has no output file any more.  The *)
(* assertion that fails calls tcc_exit() again, which exits at once.       *)
AssertsFail(t) == prp[t].children /\ ~Skipped(t) /\ \E s \in Sys[t] : part[t][s].outfile

ShutdownTestcase(t) ==
    /\ phase = "shutdown"
    /\ t \in pass
    /\ tcs_endproc(t)
    /\ IF AssertsFail(t) THEN phase' = "exit" /\ pass' = {}
                         ELSE phase' = phase /\ pass' = pass \ {t}
    /\ UNCHANGED <<par, skip, unbuilt, tcc_abort, fails>>

Exit ==
    /\ phase = "shutdown" /\ pass = {}
    /\ phase' = "exit"
    /\ UNCHANGED <<par, prp, part, skip, unbuilt, pass, tcc_abort, fails>>

(***************************************************************************)
(* The environment: tools exit, or run into the timeout.                   *)
(***************************************************************************)
ToolExits(t, s) ==
    /\ part[t][s].alive
    /\ part' = [part EXCEPT ![t][s].alive = FALSE]
    /\ UNCHANGED <<par, prp, skip, unbuilt, pass, tcc_abort, phase, fails>>

TimeIsUp(t, s) ==
    /\ Timed /\ phase = "engine"
    /\ part[t][s].tool = "RUNNING" /\ ~part[t][s].late
    /\ part' = [part EXCEPT ![t][s].late = TRUE]
    /\ UNCHANGED <<par, prp, skip, unbuilt, pass, tcc_abort, phase, fails>>

Service(t) == \/ tcs_start(t) \/ tcs_lock(t) \/ tcs_unlock(t) \/ tcs_copy(t)
              \/ tcs_prebuild(t) \/ tcs_bec(t) \/ tcs_buildfail(t) \/ proc_tcwait(t)
              \/ tcs_journal(t) \/ tcs_save(t) \/ tcs_end(t) \/ TcNext(t)

Directive == (\E F \in SUBSET TC : proc_parallel(F)) \/ ParNext

(* tcc has left execscen(), or exited.                                     *)
Ended == par.state = "IDLE" \/ phase = "exit"
Finished == Ended /\ UNCHANGED vars

Engine == \/ Directive \/ BeginPass \/ Exit
          \/ \E t \in TC : Service(t) \/ ShutdownTestcase(t)
          \/ \E T \in (SUBSET TC) \ {{}} : Attend(T)

Next == \/ Engine \/ engine_abort \/ engine_sigterm \/ Finished
        \/ \E t \in TC, s \in System : ToolExits(t, s) \/ TimeIsUp(t, s)

Spec == Init /\ [][Next]_vars

(***************************************************************************)
(* The engine turns over and the clock runs, so that no test case is left  *)
(* waiting for ever by its timer; but no tool need ever exit.              *)
(***************************************************************************)
FairSpec == /\ Spec
            /\ WF_vars(Engine)
            /\ \A t \in TC : SF_vars(\E T \in SUBSET TC : t \in T /\ Attend(T))
            /\ \A t \in TC, s \in System : WF_vars(TimeIsUp(t, s))

-----------------------------------------------------------------------------
(***************************************************************************)
(* Properties                                                              *)
(***************************************************************************)
(* Every proctab is of its type; checks are counted down from their start. *)
TypeOK ==
    /\ par \in [state : Prs, attn : BOOLEAN, abort : BOOLEAN,
                currmode : Mode \cup {"START", "END"}]
    /\ prp \in [TC -> [state : Prs, attn : BOOLEAN, armed : BOOLEAN, abort : BOOLEAN,
                       currmode : Mode \cup {"START", "END"}, tcstate : Tcs,
                       children : BOOLEAN, jnlchild : BOOLEAN, ids : SUBSET System]]
    /\ part \in [TC -> [System -> Part]]
    /\ \A t \in TC, s \in System :
          part[t][s].waitcount <= IF part[t][s].tool = "SIGTERM" THEN TERMWAIT ELSE KILLWAIT
    /\ skip \subseteq TC /\ unbuilt \subseteq TC /\ pass \subseteq TC
    /\ tcc_abort \in BOOLEAN
    /\ phase \in {"engine", "shutdown", "exit"}
    /\ fails \in 0..MaxFails

(* Nobody on the run queue is forgotten: it has the engine's attention, or *)
(* a timer and a tool to wait for; and while the directive sleeps, a test  *)
(* case is there to wake it up (tcc_sloop(), wakeup()).                    *)
NobodyStuck ==
    phase = "engine" =>
        /\ \A t \in runq : \/ prp[t].attn \/ t \in pass
                           \/ /\ prp[t].state = "WAIT" /\ prp[t].armed
                              /\ \E s \in Sys[t] : part[t][s].tool \in Active
        /\ par.attn \/ par.state = "IDLE" \/ (par.state = "SLEEP" /\ runq # {})

(* The tools that work in a source or TET_EXECUTE directory (build and     *)
(* clean tools, and in-place execution) do so under exclusive locks on all *)
(* the systems, and two test cases' never in one directory of a system,    *)
(* unless TET_EXEC_LOCK is off in the mode or the directory is on a read-  *)
(* only file system; any other execution is in a temporary directory, no   *)
(* lock being held any more.  The tools are those that tcc waits for: it   *)
(* may have given up one that still runs, after SIGKILL or a failed wait.  *)
Working(t) == t \in runq /\ prp[t].currmode \in Mode
              /\ \E s \in Sys[t] : part[t][s].tool \in Active

InTree(t) == Working(t) /\ (prp[t].currmode # "EXEC" \/ InPlace)

Trees(t) == {d \in {Dir[t]} : UsesSrc(t)} \cup {d \in {ExecDir[t]} : UsesExec(t)}

(* Directory d of system s must not be used without a lock.                *)
Lockable(t, s, d) == LocksAtAll(t) /\ <<s, d>> \notin ReadOnly

ToolsAreIsolated ==
    phase = "engine" =>
    \A t \in TC :
        /\ InTree(t) => \A s \in Sys[t] :
              /\ UsesSrc(t) /\ Lockable(t, s, Dir[t]) => part[t][s].srclock = "exclusive"
              /\ UsesExec(t) /\ Lockable(t, s, ExecDir[t]) => part[t][s].execlock = "exclusive"
        /\ Working(t) /\ ~InTree(t) => \A s \in Sys[t] :
              /\ part[t][s].tmpdir
              /\ part[t][s].srclock = "none" /\ part[t][s].execlock = "none"
        /\ \A u \in TC \ {t} : InTree(t) /\ InTree(u) =>
              \A s \in Sys[t] \cap Sys[u], d \in Trees(t) \cap Trees(u) : ~Lockable(t, s, d)

(* A test case whose build began in this run of tcc is executed only if    *)
(* the build succeeded on all systems: when locks, prebuild or build tools *)
(* fail, the execution is skipped (SCF_SKIP_EXEC).                         *)
NotExecutedUnbuilt ==
    \A t \in TC : prp[t].currmode = "EXEC" /\ Working(t) => t \notin unbuilt

(* Between two modes, and off the run queue, a test case holds nothing: no *)
(* lock, temporary directory, output file, sync ID or results file, child  *)
(* proctab or tool to wait for (tcs_endproc() and prfree()'s assertions).  *)
HoldsNothing(t) ==
    /\ prp[t].ids = {} /\ ~prp[t].children
    /\ \A s \in System :
          /\ part[t][s].tool \notin Active
          /\ ~part[t][s].outfile /\ ~part[t][s].tmpdir
          /\ part[t][s].srclock = "none" /\ part[t][s].execlock = "none"

NothingLeftBehind ==
    phase = "engine" =>
        \A t \in TC : prp[t].currmode \notin Mode \/ t \notin runq => HoldsNothing(t)

(* Once the user has called for an abort, no test case is entered any more *)
(* by the engine (sigtrap.c:193-196).                                      *)
NothingStartsAfterAbort ==
    [][tcc_abort => \A t \in TC : prp[t].currmode = "START" => prp'[t].currmode \notin Mode]_vars

(* With a timeout, tcc gets to the end of the scenario or exits, even if   *)
(* tools neither exit nor die of any signal.                               *)
Termination == <>Ended
=============================================================================
