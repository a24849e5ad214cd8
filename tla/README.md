# Verification of TETware in xorg-xts

The repository is the X Test Suite (XTS5) together with TETware, the harness
that runs it. The test purposes are sequential programs that talk to an X
server. The logic that is hard to get right is in the harness,
`src/src/tet3`: a test case may run as several processes on several systems,
which meet in *sync events* kept by one daemon (`tetsyncd`) and report to a
second one (`tetxresd`), while a controller (`tcc`) starts, locks, interrupts
and cleans up after them. This directory holds TLA+ models of that logic, TLC
runs, and proofs checked by TLAPS. Paths below are relative to `src/src/tet3`
unless they start with `src/`.

State of the project: the two daemons, the test case managers, the controller's
execution engine and its lock files, and the API's `tet_fork()` are modelled and
model-checked; every safety invariant and every action property that the runs check
is also proved for all values of the constants (one, `NobodyStuck`, under a
condition that the code needs; see *Proofs* and *Plan*).

| file | what it is |
|---|---|
| `Syncd.tla` | the synchronisation daemon with the server loop it runs in |
| `SyncdProofs.tla` | type correctness, `NoDanglingPtab`, `UserSyncUnique`, proved |
| `SyncdWaitProofs.tla` | `WaiterHeld`, proved from type correctness |
| `SyncdVoteProofs.tla` | `VoteHasWaiter`, `NoFatal`, `OkIsBarrier`, `DataComesFromEvent`, proved from both |
| `MCSyncd.tla`, `MCSyncd*.cfg` | its instances for TLC |
| `Xresd.tla` | the execution results daemon |
| `XresdProofs.tla` | all its properties, proved |
| `MCXresd.tla`, `MCXresd*.cfg` | its instances for TLC |
| `RWLock.tla` | what a test case lock promises: a readers-writer lock |
| `Locks.tla` | how the lock is made of files; implements `RWLock` |
| `LocksProofs.tla` | its safety and the refinement, proved |
| `MCLocks.tla`, `MCLocks.cfg` | its instance for TLC |
| `Tcc.tla`, `MCTcc.tla`, `MCTcc.cfg` | the controller's execution engine, and its instance |
| `TccProofs.tla` | its properties but `Termination`, proved |
| `Fork.tla`, `MCFork.tla`, `MCFork.cfg` | `tet_fork()` and `tet_killw()` of the API, and their instance |
| `ForkProofs.tla` | `OwnChild` and `NoSurvivor`, proved |
| `Tcm.tla`, `MCTcm.tla`, `MCTcm*.cfg` | the test case managers with what they use of the daemons |
| `TcmProofs.tla` | their properties but `AllExit`, proved |
| `PROJECT.json` | components, runs, mutants, map to the source, findings, hazards, theorems |

To check: `tlc -config MCSyncdThree.cfg MCSyncd.tla`, and so on for each
configuration; `tlapm SyncdProofs.tla`, and so on for each module of proofs (a
few minutes for the longest, `TcmProofs`).

## Inventory

**tetsyncd** (`syncd/`). State: the sync table `stab` (per event: sync ID,
XRID, owner, users with state, sync point number, missed timeouts and the
process that stands for them, flags, message data) and, per client, the process
table element (`ptab`: server-loop state, timeout, event waited on, XRID).
Operations: OP_SNGET, OP_SNSYS, OP_SNRM, OP_ASYNC, OP_USYNC; expiry of a
client's timer; logoff and death of a client; servicing of events that have
happened. Hard: voters at different sync points share an entry; votes,
timeouts and deaths arrive in any order between two turns of the loop; an auto
sync overtakes user syncs; the entry is freed, reused or handed to an heir
while processes still refer to it. Right when nobody is told of success before
everybody has arrived, nobody who waits is forgotten, a timeout ends a wait, and
no table entry refers to a process that has gone. `Syncd`.

**tetxresd** (`xresd/`). State: the table of open execution results files
(owner, systems with their TCM, state and result, component and test purpose in
progress, abort flag, count), each file's contents, the table of transfer files,
and the test case each client has named. Operations: OP_XROPEN, OP_XRSYS,
OP_XRSEND, OP_ICSTART, OP_TPSTART, OP_XRES, OP_RESULT, OP_TPEND, OP_ICEND,
OP_XRCLOSE, the transfer file requests, logoff and death. Hard: TCMs die one by
one in the middle of components and purposes; the owner leaves before the TCMs
or after; several processes speak for one system. Right when every file is well
formed and is completed whoever dies, a verdict is the worst of the results
registered, an abort is reported, and tables refer to live clients. `Xresd`.

**Server loop and sessions** (`servlib/sloop.c`, `sproc.c`, `server.c`,
`ptab.c`). One thread per server; an iteration runs the ready requests, then the
server's own loop function, then the expired timers. A client in PS_WAITSYNC is
not polled. What the daemons need of it is in their modules; matching replies to
requests after a timeout (`ti_rcvmsg`) is not.

**Client side of the messages** (`servlib/sd*.c`, `xd*.c`, `tc*.c`). One request,
one reply. `Syncd` and `Xresd` let a client send any request it may legally send;
`Tcm` is the clients that there are in a distributed test case.

**TCM** (`tcm/`). Runs the invocable components and test purposes; the master
TCM tells `tetxresd` of each start and end and all TCMs meet in an auto sync at
every boundary, numbered by `MK_ASPNO(ic, tp, flag)`. State: current IC and TP,
the vote, `tet_XSync_del`, the jump buffer for unexpected signals. Hard: a TP
deleted on one system only, signals inside a sync, aborts. Right when all TCMs
agree on which TP is run, are in the same TP when they run one, lose no result,
and come to their end whoever dies. `Tcm`; signals are not modelled.

**tcc** (`tcc/`). Scenario tree, run queue of process table elements, a state
machine per test case (`proctc.c`: START, LOCK, PREBUILD, BUILD, COPY, UNLOCK,
EXEC, JOURNAL, SAVE, END in three modes), parallel and looping directives
(`procdir.c`), locks, tools, SIGINT/SIGTERM handling. Hard: failure on one of
several systems, interruption in any state, parallel copies that contend for
locks in a single-threaded engine. Right when every lock, sync ID, results file
and tool acquired is given up, no two tools work in one directory, and nobody on
the run queue is forgotten. `Tcc`, for the PARALLEL directive. Scenario,
configuration and journal text (about two thirds of `tcc`) is not modelled.

**tcclib lock files**. An exclusive lock is a plain file, a shared one a file in a
directory of the same name; several TCCs and TCCDs on one file system contend.
Hard: a lock is several system calls, pids of different hosts clash, a process
dies in between. Right when the files are a readers-writer lock. `Locks`.

**tettccd** (`tccd/`). Executes and kills processes, waits for them, makes
locks, copies files and stores configuration on behalf of its client. Its lock
requests are in `Locks`, its tools in `Tcc` (a tool runs, exits or hangs); exec,
wait and kill with SIGCHLD: planned; files and configuration: not modelled.

**API library** (`apilib/`). `tet_sync`, `tet_msync`, `tet_remexec`, `tet_fork`,
`tet_spawn`, results. `tet_fork()` keeps, in each process, a stack of calls and the
variable `tet_child`; processes interact by signals and wait statuses. Hard: calls
nested in the child and in the parent, children that do not die, SIGTERM at any
point. Right when no child outlives its call and only own children are killed.
`Fork`. The remote exec handshake: planned. **Thread-safe API** (`apithr/`): thread table, planned last.

**Transport** (`inetlib/`, `xtilib/`), **support** (`dtet2lib/`, `llib/`):
non-blocking I/O and data conversion; the models take messages as whole. The
arbitration between results, `tet_addresult()`, is modelled in `Xresd`.

**Perl, ksh and xpg3sh APIs; build and demo files; the XTS5 test suite, its
libraries and reporting tools**: sequential text and test code, not modelled.

How they interact: `tcc` asks `tetsyncd` for a sync ID and `tetxresd` for an
XRID, gives both the list of systems, and starts a TCM on each system through
`tettccd`, passing the two IDs. The TCMs log on to both daemons, vote with the
sync ID, report with the XRID. When the test case ends `tcc` closes both.
The daemons do not know of each other; each learns of a client's end from a
logoff or a closed connection.

## Syncd

| state | code |
|---|---|
| `stab`, `snid` | the list of `struct stab` (`syncd/stab.h`) by sync ID; `stalloc()`'s counter |
| `stab[i].ud` | `struct ustab` by (system, process type); order is left out, since no decision depends on it once the list has been accepted |
| `phase` | which part of `tet_si_serverloop()` runs: `procrun`, `stloop`, `timeouts`; `fatal` after a failed ASSERT |
| `pt_state`, `pf_loggedon`, `pt_timeout`, `sp_stab`, `sp_xrid` | fields of `struct ptab` and `struct sptab` |
| `ptm` | the reply in the client's message buffer |
| `overshot` | history, see finding `sync_dead` |

There is one action per request (`OpSnget`, `OpSnsys`, `OpSnrm`, `OpAsync`,
`OpUsync`, `OpLogon`, `OpLogoff`), each with all its refusals, and `Dead`,
`Timeout`, `StService` (one turn of `stloop()`), and the transitions of the
server loop. `op_s2`, `stcheck`, `stuend`, `stdead` and the others are operators
named after the functions they model and are part of the actions that call them.

Environment. Clients send any request in any order within `SysLists`,
`UserLists`, `AutoReqs`, `UserReqs`, with three assumptions that come from the
callers in the repository and are guards of the actions: the TCC and
`tet_remexec()` send the system list before anybody else knows the sync ID
(`OpSnsys`); `tet_sdusync()` leaves the caller out of its list (`OpUsync`); and a
process does not join an event in which another process of its own system is
waiting (`MayVote`), which `Siblings = TRUE` lifts.

What is left out: exhausted memory, malformed message lengths (they are refused
before any state changes), real time (a timer that is armed may expire in any
turn), the text of messages, and the tracing.

Properties (see the comments in the module for what each says of the code):

* `TypeOK`: types and ranges.
* `WaiterHeld`: who waits has its vote in a live, protected entry.
* `VoteHasWaiter`: the converse; each vote belongs to a process that waits there.
* `OkIsBarrier`: ER_OK is sent only in a step in which every participant is in
  the event, has voted YES, and has not got past the sync point.
* `NoFatal`: no assertion fails (apart from the finding).
* `NoDanglingPtab`: no reference to a process that has left; heirs are of the
  same system and type.
* `UserSyncUnique`: one user sync, one entry.
* `DataComesFromEvent`: message data and its sender leave an event together.
* `TimedWaitEnds` (liveness): who gave a timeout is answered.

Those that mention `overshot` hold up to the first time `stperr()` wakes a voter
whose vote `sts2()` leaves in place; the run `sync_dead` shows what happens
then. Nothing else about such states is assumed: `overshot` is set by the very
step that does it and restricts no action.

## Xresd

| state | code |
|---|---|
| `ptab`, `pt_flags`, `sp_xrid` | the process table in order of connection, PF_LOGGEDON/LOGGEDOFF, `sp_xrid` |
| `xtab`, `xrid` | `struct xtab` by XRID; `xtalloc()`'s counter |
| `xres` | the lines the daemon itself writes to each file: IC and TP brackets with results and counts; it stays after the entry has gone |
| `tftab`, `tfid` | transfer files by ID with their owners |
| `ptm_rc` | the code of the last reply |
| `given`, `revived` | history: results accepted since the last TP start; files in which a system lost its XS_DEAD mark |

One action per request; `Dead` and `OpLogoff` include `xtdead()` and `tfdead()`
for the whole table. The daemon never blocks, so that a request and its reply
are one step. Only the TCC opens and closes files, TCMs send results and
brackets, which is what the callers do; any of them at any time.

Left out: test case output lines (OP_XRES only checks the XRID), the stored
configuration and code files, write errors, exhausted memory.

Properties: `TypeOK`; `NoDanglingPtab`; `JournalWellFormed` (components and
purposes nest, an abandoned file is complete, `xt_flags` tells how far it is);
`VerdictIsWorst` (the order of arrival and deaths do not matter);
`AbortIsTold`; `InProgressHasTcm` and `EndedWhenUnused` (the component is ended
with its last TCM and not before). The last two hold until `op_tpstart()` or
`op_icstart()` makes the daemon forget that a system's TCM has died (`revived`, see
*Findings*).

## Locks

`tet_lock` is what the name `tet_lock` in the test case directory is: nothing, a
plain file (exclusive) or a directory (shared) whose files are `names`, pairs of
the requester's pid and a salt. Each system call that a request makes is an
action: the `open()` with O_CREAT | O_EXCL of `tcf_lockfile()`; the `mkdir()` and
each `open()` of `tcf_sharelock()`, which tries 26 x 26 salts (`SALTMAX`) and goes
back to the `mkdir()` when the directory has gone or is a plain file; `unlink()`
and `rmdir()` of `tcc_unlock()`. Each of these calls may also fail for
a reason outside the model (`Fails`: a request ends with an error; `tcc_unlock()`
reports one, goes on to the `rmdir()`, and the name of the lock is forgotten all
the same: `left` records the files whose `unlink()` has failed). The file system may
be read-only (no lock, and no error), the clock runs (`Tick`), and a process may die
at any point, its files staying behind (`Die`). What is left out: network file systems on which O_EXCL is not atomic.

`Locks` implements `RWLock`, in which a step takes or gives up one lock
(`ImplementsRWLock`, with the refinement mapping `held`). Further:
`MutualExclusion`; `HoldersAreOnDisk` (no unlock takes another's lock away, pids
that clash included); `NothingLeftOver` (every file has a holder unless its own
`unlink()` has failed, and an empty lock directory, which would shut out exclusive
locks for ever, is about to be used or removed unless a call has failed); `TimedRequestEnds`.

The comment at `tcc/lock.c:170-174` accepts that somebody else has removed the
directory; when an exclusive lock has taken its name in the meantime, `rmdir()`
fails with ENOTDIR, which `tcc_unlock()` reports as an error (`Rmdir` returns -1)
although nothing is wrong.

## Tcc

| state | code |
|---|---|
| `par` | the PARALLEL directive's `struct proctab` |
| `prp[t]` | the proctab of test case `t`: run queue state, PRF_ATTENTION, `pr_nextattn` (`armed`), TCC_ABORT, mode, `TCS_*` state, child proctabs, sync ID and results file |
| `part[t][s]` | the child proctab for system `s`: tool state, `pr_waitcount`, captured output, locks, temporary directory; and the tool process itself |
| `skip` | SCF_SKIP_EXEC in the scenario elements |
| `pass` | the proctabs that this turn of `tcc_sloop()` has still to service |
| `phase` | the engine, `engine_shutdown()`, exited |
| `unbuilt` | history: builds begun and not successful |

One action for each `TCS_*` function (`tcs_start`, `tcs_lock`, `tcs_copy`,
`tcs_prebuild`, `tcs_bec`, `tcs_buildfail`, `tcs_journal`, `tcs_save`,
`tcs_unlock`, `tcs_end`), `proc_tcwait`, the directive's turns and the end of a
test case; `Attend` is `tcc_timeouts()`; `engine_abort` (SIGQUIT) and
`engine_sigterm` (SIGTERM, SIGHUP, SIGPIPE) come between two passes, since
signals are blocked within one. A lock is taken in one step, as `RWLock` does.
One that is not free is a failed request: `tcc_timeout` is 0 (`tcc/global.c:98`), or
positive with `-t` (`tcc/tcc.c:259-265`), so that the request fails at once or when
the engine, which is one thread, has waited out the whole timeout; that nothing else
is serviced meanwhile is not seen in the model. `ExecLock` is the set of modes whose
configuration has TET_EXEC_LOCK; in the others `tcs1_lk2()` asks for no lock.
`ReadOnly` says which directories are on a read-only file system: there
`tcc_lock()` succeeds without a lock (`tcc/lock.c:109-111`). `MayFail` says which operations may fail on any of
the systems. Tools exit with any status, or never.

Properties: `NobodyStuck` (every element of the run queue has the engine's
attention or a timer, and the directive is woken by its last test case);
`ToolsAreIsolated` (tools in a source or TET_EXECUTE directory have exclusive
locks and never share one, other executions are in a temporary directory);
`NotExecutedUnbuilt`; `NothingLeftBehind`;
`NothingStartsAfterAbort`; `Termination` (with a timeout the engine comes to
its end even if no tool reacts to any signal).

`ToolsAreIsolated` promises only what the code does: nothing in a mode without
TET_EXEC_LOCK or for a directory on a read-only file system, and nothing of a tool
that tcc has given up, after SIGKILL or a failed wait, which may still run when the
locks are released.

`NothingLeftBehind` is about the engine. It does not hold of a shutdown: on SIGTERM
the tools are killed and not waited for, so that the captured output of a test
case on several systems is still there when `tcs_endproc()` frees the child
proctabs, `prfree()`'s assertion fails (`tcc/proctab.c:89-106`), its `fatal()`
enters `tcc_exit()` again, and the process exits with the locks of the remaining
test cases in place (`AssertsFail` in the model). `tcc/sigtrap.c:326` means to
remove them. Two more limits of the code that the model has: when no journal file
can be made for any test case, `proc_parallel()` leaves the directive asleep with
nobody to wake it (`proc_par_s2()`, `tcc/procdir.c:367-370`; with `MaxFails` below
the number of test cases this is not reached, and the theorem `NobodyIsStuck` says
that it is the only way to get there), and a failed `tcs_startproc()` in BUILD mode does not set
SCF_SKIP_EXEC, so that a test case of an earlier build is executed.

## Tcm

`pc` is the sync that a TCM makes or waits for; `ic`, `tp`, `deleted`,
`tet_XSync_del` are the variables of `dtcm.c`, `ictp.c` and `dcancel.c`. SYNCD is
reduced to what it does for one auto sync entry: `op_async`, `stcheck`, `stdead`
and the replies are the operators of `Syncd` without message data, ownership and
the daemon's loop (an event is serviced at once). XRESD is reduced to which IC
and TP are in progress and whether a result's action was Abort.

Properties: `InStep` (two TCMs in a TP are in the same one); `DeletedNotInvoked`;
`NoResultLost`; `CleanupIsLast`; `ErrorHasCause`; `AllExit` (whoever dies or is
timed out, every TCM ends: nobody waits for a vote that does not come); and the
two that findings refute.

## Fork

| state | code |
|---|---|
| `st`, `parent`, `pending` | the kernel's view: process states, parents, signals sent and not delivered |
| `sigterm`, `handling` | what SIGTERM does (`sig_term()` of `tet_fork.c`, `sigskip()` of the TCM), and whether it has been caught |
| `tet_child` | the variable of this name, in each process |
| `calls` | the calls of `tet_fork()` in progress with their `savchild` and `waittime`, and where each is |
| `killw` | the call of `tet_killw()` in progress: the child, SIGTERM or SIGKILL, and whether it has been sent |

`fork()` copies the parent's state; the child's and the parent's ways to `childproc`
and `parentproc` are actions of their own (`ChildStarts`, `ParentStarts`), so that
signals may come before them. The alarm is part of the wait that it ends. `Caught` is
the start of a handler; it does not return to what it has interrupted. Left out:
threads, failing `fork()` and `kill()`, other signals that interrupt a wait, what
`tet_fork()` returns and reports, the new logons of the child to the daemons.

Properties: `OwnChild` (`tet_child` is the innermost call's child through all
nestings and returns, and only own children are signalled), `NoSurvivor` (no child
outlives its call, nor the process that caught SIGTERM in it), `ForkEnds` (liveness);
the first two with an exception each that the module states.

## Runs

Clients in the Syncd runs: `m` the master TCM on system 0, `s` and `s2` two
processes on system 1, `t` one on system 2. In the Xresd runs: `c`, `c2` master
TCCs, `m`, `s` TCMs on systems 0 and 1. Deadlock is checked except where the system
really stops: in `sync_three` and `sync_dead` a failed assertion ends the daemon
(finding 1), in `xres_order` every client leaves in the end and none comes back, and
in `fork` the pids are used up.

| run | configuration | checks | shows |
|---|---|---|---|
| `sync_three` | auto syncs of m, s, t at sync points 1 (with timeout) and 2 | `TypeOK`, `VoteHasWaiter`, `NoFatal`, `OkIsBarrier` | the barrier with voters at different points, timeouts and departures |
| `sync_user` | user syncs of m, s, s2 with timeouts and refusals; good and bad lists; `FairSpec` | `NoDanglingPtab`, `TimedWaitEnds` | heirs and siblings; a timeout ends the wait |
| `sync_msgs` | auto and user syncs of m and s, two entries, data at sync points 1 and 2 | `DataComesFromEvent`, `UserSyncUnique`, `WaiterHeld` | who gets whose data; an auto sync overtakes user syncs |
| `sync_dead` | as `sync_three` | `AssertsHold` | **violated**, finding 1 |
| `xres_order` | one file, c, m, s, results of three ranks, one of them with action Abort | `TypeOK`, `JournalWellFormed`, `InProgressHasTcm`, `EndedWhenUnused`, `VerdictIsWorst`, `AbortIsTold` | every order of brackets, results and departures |
| `xres_files` | two files, a transfer file, c, c2, m, reconnecting clients, bad lists | `NoDanglingPtab` | several files and owners |
| `locks` | three processes, two with one pid, two salts; one death, one failing call of a request or an unlock | all of `Locks` | the lock under every interleaving of system calls |
| `tcc` | test case a on two systems, b on one of them, one source directory, TET_EXECUTE for b; TET_EXEC_LOCK in all modes, a's source directory read-only on its second system; build, exec and clean; one failure; SIGQUIT and SIGTERM | all of `Tcc` | failures, hanging tools and signals in every state |
| `tcm` | three TCMs, ICs of two TPs and one; one deletable TP, one death, one timeout, aborts | all of `Tcm` | agreement in spite of deletions, deaths, timeouts |
| `fork` | the TCM and two processes that may ignore SIGTERM and stop; every waittime; a SIGTERM to the TCM | all of `Fork` | nested calls, children that do not die, SIGTERM in any state |
| `tcm_stale` | two TCMs, one deletable TP, nothing goes wrong | `UninitiatedIsDeleted` | **violated**, finding 2 |
| `tcm_abort` | two TCMs, aborts only | `AbortIsClean` | **violated**, finding 3 |

Bounds. `SNIDMAX` sync table entries (1 or 2: an auto and a user sync, or two user
syncs, are all that two systems need to interfere; beyond it `stalloc()` fails in
the code as well). `SPMAX = 3` with sync points up to 2: two points are needed
for a voter that an event leaves behind, and the third value is what `stperr()`
raises the event's point to. `MaxTimedOut = 1`: a process may be one timeout
behind; a second makes the counter 2, which takes the same branches. Votes are
otherwise unlimited: events are run over and over, and the state space is finite
without a bound on their number. `XRIDMAX`, `TFIDMAX`: files opened. `MaxLines`:
no IC or TP is started in a file of that many lines; 4 allows two test purposes
in a component. `MaxGiven = 2`: different results a system may
register for a TP; arbitration is pairwise. `Reconnect`: whether a client that has
left may come back in the same process table slot.
`SALTMAX = 1`: two names, so that the search for a free one goes on
and is exhausted; `MaxDead = 1` and `MaxErrors = 1` in `Locks`: what a dead
process leaves does not change any more, and a second failing call meets the same
states. In `Tcc`, `MaxFails = 1` failure on one of the systems (more failures only
take the test cases to their ends sooner), and `TERMWAIT = KILLWAIT = 1` for the
5 and 2 checks of `tool.c`, which only count. The run has TET_EXEC_LOCK in every
mode; with CLEAN unlocked the invariants were checked as well (2.0 million states).
In `Tcm` two ICs, one with two TPs,
have every kind of boundary; one death and one timeout together make one TCM
late for an event that others have left.
In `Fork` three processes make every kind of nesting of two calls (child in child,
child in parentproc, one after the other); with four, two of them well-behaved, the
invariants were checked as well (4.7 million states). `MayTerm`, `Unruly`: what the
environment may do.
Every action, and every refusal that is a branch of its own, occurs in some
passing run, and for every property of a passing run PROJECT.json names at least
one mutant, a plausible bug in the code, that the run finds.

Fairness. In `Syncd` (for `TimedWaitEnds` only): weak fairness of the
transitions of the loop and of `StService(i)`: the daemon is one thread that
never stops, and `stloop()` repeats until no entry needs attention. Strong
fairness of `Timeout(p)`: `si_timeouts()` looks at all timers once in every turn
of the loop, so that `Timeout(p)` is enabled again and again and not all the time;
when a timer stays armed long enough it is overdue in such a turn. No client owes
anything: they may be silent for ever. The instance uses one sync point number:
with several, a voter for a later one may be left without a timer after an event
(hazard at `servlib/sloop.c:199`).
In `Locks`: weak fairness of a request's next system call and of its clock; a
holder need not unlock. In `Tcc`: weak fairness of the engine, which is one thread,
and of the clock (`TimeIsUp`); strong fairness of `Attend`, because
`tcc_timeouts()` is called in each idle turn and a signal may come first; tools need
not exit. In `Tcm`: weak fairness of each TCM's steps, that is, its process runs,
the daemons answer and its test purposes return; no fairness of deaths and
timeouts, so that a wait must end without them. In `Fork`: weak fairness of each
process's way through the API, of the delivery of signals and of the alarm; the test
author's code owes nothing.

## Findings

1. `sync_dead`, `syncd/stab.c:494`. When a participant is dead `stperr()`
   notifies every voter, whatever its sync point, but `sts2()` clears only the
   votes up to the original sync point. The left-over vote belongs to a process
   that has been answered; the next event fails
   `ASSERT(pp->pt_state == PS_WAITSYNC)` and the daemon aborts.
2. `tcm_stale`, `tcm/ictp.c:428`. A TP that is deleted in this TCM and in another
   one leaves `tet_XSync_del` set; the next TP is reported UNINITIATED in this
   TCM alone, while the others run it.
3. `tcm_abort`, `tcm/ictp.c:677`. After an Abort in the middle of an IC the other
   TCMs do not go on as the header of `ictp.c` (lines 84-94) describes: the MTCM's
   NO vote fails the sync at the end of their next TP, and they exit with an
   error and without cleanup.

More disagreements were met and have no run of their own. `xresd/xresproc.c:563`:
`op_tpstart()` resets the state of a system whose TCM has died, after which
`xtdead()` never finds all systems dead: the component is not ended in the file, the
owner cannot close it (ER_INPROGRESS), and the entry stays when the owner has gone,
although `xtdead()` is to "remove an entry that is no longer required"
(`xresd/xtab.c:204`). `apilib/tet_fork.c:333`: a process that is killed before it
has run for the first time still has its parent's old `tet_child`, and its handler
kills a process that is not its child (the exception in `OwnChild`).
`apilib/tet_fork.c:614`: the header (line 109) says that `tet_killw()` returns 0 when
there is no such child (ECHILD); it sends SIGKILL, waits again and returns -1.
`apilib/tet_fork.c:255`: only the innermost call's child is killed when SIGTERM
comes, children of outer calls live on (the exception in `NoSurvivor`). `syncd/stab.c:505`:
the header (`stab.h:51`) says that voters for later sync points are left waiting
only if all votes are YES; the code leaves them waiting after a NO vote too.
`syncd/synproc.c:497`: a second process of a system takes the place of one that
already waits, and the timeout of the first then fails the assertion in
`tet_ss_timeout()` (`Siblings = TRUE` in `Syncd`).

## Proofs

Each module of proofs establishes an invariant `IInv` (`Core` in `TcmProofs`) with
`Init => IInv` and `IInv /\ [Next]_vars => IInv'`, by one lemma per action, and
derives the properties from it. The theorems hold for every value of the constants
within the module's assumption, which gives the constants their types and the
limits that the code has, and which TLC evaluates in every run. The constants that
bound the runs (`MaxDead`, `MaxFails`, ...) are arbitrary naturals in the proofs.

| module | theorem | property |
|---|---|---|
| `SyncdProofs` | `TypeCorrect`, `NoDangling`, `UniqueUserSync` | `TypeOK`, `NoDanglingPtab`, `UserSyncUnique` |
| `SyncdWaitProofs` | `NobodyForgotten` | `WaiterHeld` |
| `SyncdVoteProofs` | `VotesHaveWaiters`, `AssertionsHold`, `Barrier`, `DataWithSender` | `VoteHasWaiter`, `NoFatal`, `OkIsBarrier`, `DataComesFromEvent` |
| `XresdProofs` | `TypeCorrect`, `NoDangling`, `FilesWellFormed`, `HasTcm`, `VerdictWorst`, `AbortTold`, `EndsWhenUnused` | `TypeOK`, `NoDanglingPtab`, `JournalWellFormed`, `InProgressHasTcm`, `VerdictIsWorst`, `AbortIsTold`, `EndedWhenUnused` |
| `LocksProofs` | `LocksTypeCorrect`, `LocksExclude`, `LocksOnDisk`, `LocksLeaveNothing`, `LocksImplementRWLock` | `TypeOK`, `MutualExclusion`, `HoldersAreOnDisk`, `NothingLeftOver`, `ImplementsRWLock` |
| `TccProofs` | `TypeCorrect`, `NobodyIsStuck`, `ToolsIsolated`, `BuiltFirst`, `NothingLeft`, `NoStartAfterAbort` | `TypeOK`, `NobodyStuck`, `ToolsAreIsolated`, `NotExecutedUnbuilt`, `NothingLeftBehind`, `NothingStartsAfterAbort` |
| `TcmProofs` | `TypeCorrect`, `KeptInStep`, `CleanedUpLast`, `NotInvoked`, `ResultsArrive`, `ErrorsHaveCause` | `TypeOK`, `InStep`, `CleanupIsLast`, `DeletedNotInvoked`, `NoResultLost`, `ErrorHasCause` |
| `ForkProofs` | `ForkTypeCorrect`, `ForkOwnChild`, `ForkNoSurvivor` | `TypeOK`, `OwnChild`, `NoSurvivor` |

**Syncd.** `SyncdProofs` proves that `IInv == TypeOK /\ NoDanglingPtab /\
UserSyncUnique /\ OnePerSystem` is inductive (`OnePerSystem`: no user list names a
system and process type twice, which `VoteHasWaiter` needs). The conjuncts go
together because each action reaches them
through the same facts: an operation on one entry gives an entry of the right
type (`op_s2Type`, `EntryAfterType`, `EntryDeadType`, ...) that refers only to
processes logged on (`EntryOK`) and keeps the identity of a user sync (`Same`).
`Split` separates the part about the sync table from that about the process
table, so that each of `TabChange`, `TabKept`, `TabAdd` is proved once and cited
by one lemma per action. `NoDanglingPtab` is not hard once every write of a ptab
pointer has been listed: a vote writes the voter, which is logged on because a
request was accepted from it; `std2()` writes an heir that it has taken from the
table; and `stdead()` clears the rest. `UserSyncUnique` rests on `stufind()`
being called before every `stadd()` of a user sync and on no operation changing
the XRID or the users of one.

`SyncdWaitProofs` proves `WaiterHeld` inductive relative to `TypeOK`. The step
lemmas say that no operation takes the vote of a waiting process out of its entry:
a request takes it only if another process of its system votes (`op_s2Holds`),
which `MayVote` excludes;
`stservice()` clears the votes it answers, those left waiting still count for
`StillVoted`, so that the entry is neither freed nor loses SF_INPROGRESS;
`op_snrm()` and `op_snsys()` refuse marked entries; `std2()` concerns a process
that does not wait, since a waiting one is not polled.

`SyncdVoteProofs` adds, of each entry, that its votes are those of processes that
wait in it (`Waited`), that message data has a voter behind it (`Sent`), and that
an entry with SF_ATTENTION but no error still has only YES votes and SF_OK is set in
no other (`Agreed`). The
last is what the barrier and the assertions need: `stcheck()` looks at the votes
when it sets the flag, `StService` acts on them later, and requests, departures and
timers may come between. All of it is under `~Siblings /\ ~overshot`, as the
properties are; `overshot` is set by the step of finding 1 and by nothing else.

**Xresd.** The invariant says, file by file (`FileOK`, `EntryOK`), that the lines
nest, that the flags of the open file agree with its last line, that a component in
progress has a TCM which is not marked dead (until a death has been forgotten,
`revived`), and that each system's entry has the worst of the results accepted from
it (`Registering`). Every step appends to at most one file, in one of a few ways
(`StepWrites`: a line, a verdict, the lines that `xtdead()` writes for a process),
so that the action properties are proved of these ways and not of each request. The
consolidated result is a recursive function over the systems; that it is one of
the results and the worst of them follows by looking at the least position where it
would fail (`UpTo`), since the induction theorems of the library are out of reach.

**Locks.** `MutualExclusion` is not inductive: that a process holds the lock says
nothing unless its file is known to be there. `IInv` joins it to `HoldersAreOnDisk` (a name
cannot be a plain file and a directory, which excludes a shared holder beside an
exclusive one, and `O_EXCL` a second exclusive one) and to `NothingLeftOver`
(without which an unlink could remove a name that a later holder needs). The
refinement then has one case per action: only the three successful `open()`s and
the `unlink()`, which gives the lock up whether it succeeds or not (`GivesShared`,
`AbandonsShared`, ...), change `held`, and each is a step of `RWLock` because of the
invariant.

**Tcc.** While the engine turns over, each test case by itself is in one of the
shapes `CaseOK`: which `TCS_*` state goes with which mode, in which of them it has
all its locks (`AllLocked`), none (`Lockless`) or its temporary directory
(`Copied`), when a tool may be active, and that it is bare outside a mode. The rest
of `IInv` relates test cases to one another and to the directive: `Queue` (the
directive sleeps while there are children, and they are in its mode), `Aborted`,
`Exclusive` (no lock beside an exclusive one; where a directory is read-only or
the mode has no TET_EXEC_LOCK, no lock at all, which `AllLocked` allows), `Skips` (a test case with
SCF_SKIP_EXEC goes straight to END in mode EXEC) and `Unbuilts` (one whose build has
begun can still succeed, has SCF_SKIP_EXEC, or the directive never gets to EXEC).
`Unbuilts` is the strengthening that `NotExecutedUnbuilt` needs; it has the
interrupted builds in it, which set no flag but leave no mode to come either.
During the shutdown only the types and `NotExecutedUnbuilt` remain. `StepOn`
reduces a step within a mode to its test case's new shape and `Soft` does the same
for timers, signals and tools.

`NobodyIsStuck` is `Spec /\ [][~proc_parallel(TC)]_vars => []NobodyStuck`.
`proc_parallel(TC)` is the step in which `jnl_tmpfile()` fails for every test case of
the directive; after it the directive does sleep for ever (see *Tcc*).
What a theorem without that condition would need is not true of the code.

**Tcm.** `Core` says that SYNCD's entry knows how far each TCM has got: a TCM at a
sync has last voted for the sync point before it (`Known`, `Before`), everybody's
count has reached that point (`Floor`), and whoever has been told of an event has
nobody behind it (`Daemon`). The order of the numbers that `MK_ASPNO` packs, those
with IC or TP -1 included, is computed once (`NumberIs`); it needs fewer than 32766
ICs and at most that many TPs in each, which `TcmAssumption` states and the 15 bits
of the macro demand. `InStep` and `CleanupIsLast` follow. Two more layers use `Core`:
`Deletions` (a TP for which a NO vote has been cast is past, or its voter is still
waiting, or somebody has died) for `DeletedNotInvoked`, and `Clean` for the
executions without timeouts and aborts, in which an event tells either all
TCMs that all have voted or all of them that one is dead (`Sound`, `Doomed`), and
XRESD hears of a TP before any TCM is in it (`Told`).

**Fork.** `IInv` says that `savchild` chains the calls in progress (`Chain`), that
`tet_child` is the last link (`TetChild`), that a `tet_killw()` in progress is about it
(`KillwChild`), that pids are given out in order (`Allocated`) and that a process which
has not run has called nothing (`NotBegun`); `OwnChild` and `NoSurvivor` follow with
their exceptions. Any process may stop or ignore SIGTERM.

Model-checked only: the liveness properties `TimedWaitEnds`, `TimedRequestEnds`,
`Termination`, `AllExit` and `ForkEnds`, because liveness under fairness is out of
the prover's reach; and the three violations of *Findings*, which are
counterexamples.

## Plan

1. Theorems: what becomes of `InProgressHasTcm` once a death has been forgotten;
   that the number of a tool's checks bounds how long `Tcc` waits for it.
2. `SyncEvent`*: the abstract barrier (who has arrived, with which vote; released
   together), with `Syncd` and the daemon in `Tcm` shown to implement it.
3. `Tcm` with unexpected signals; `Tcc` with looping and remote directives.
4. `ServerLoop`: `si_servwait()` and the reply matching of `ti_rcvmsg()` after a
   timeout; `tettccd`'s exec, wait and kill; the thread
   table of `apithr`.

## Not modelled

The XTS5 test suite and its libraries (more than nine tenths of the source lines) are
sequential test purposes that call an X server through Xlib; they have no state
of their own that outlives a call, and what they call is not in the repository.
The same holds of the reporting tools, and of configuration, scenario and
journal text in `tcc`. For the rest see *Inventory*.
