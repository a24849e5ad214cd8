-------------------------------- MODULE Fork --------------------------------
(***************************************************************************)
(* tet_fork() and tet_killw(), apilib/tet_fork.c: how a test purpose runs  *)
(* part of itself in a child process, waits for the child or kills it.     *)
(* The child may call tet_fork() itself, and so may the parent process's   *)
(* part, parentproc: every process has a stack of calls in progress, and   *)
(* one variable tet_child for the innermost one, which the handlers of     *)
(* SIGTERM read.                                                           *)
(*                                                                         *)
(* The processes are those of one test purpose; the first is the TCM that  *)
(* called it.  A signal is pending until the process runs.  This is the    *)
(* build without threads.                                                  *)
(***************************************************************************)
EXTENDS Naturals, Sequences, FiniteSets, SequencesExt

CONSTANTS
    MaxPid,         \* bound: processes (a pid is not used twice)
    WaitTimes,      \* how tet_fork() is called: waittime is < 0 ("kill"),
                    \* 0 ("ever") or > 0 ("timed")
    Unruly,         \* bound: processes that may ignore SIGTERM or stop
    MayTerm         \* bound: may somebody send SIGTERM to the TCM?

Pid   == 1..MaxPid
NoPid == 0
TP    == 1

ASSUME ForkAssumption ==
    /\ MaxPid \in Nat \ {0}
    /\ WaitTimes \subseteq {"kill", "ever", "timed"}
    /\ Unruly \subseteq Pid
    /\ MayTerm \in BOOLEAN

VARIABLES
    st,             \* "none", "forked" (it has not run yet), "running",
                    \* "stopped", "zombie", "reaped"
    parent,         \* the process that forked it
    sigterm,        \* its disposition of SIGTERM
    pending,        \* the signals sent to it and not delivered yet
    tet_child,      \* the variable of this name
    calls,          \* the calls of tet_fork() in progress, innermost last;
                    \* history when the process is dead
    killw,          \* the last call of tet_killw()
    handling        \* has it caught SIGTERM?

vars == <<st, parent, sigterm, pending, tet_child, calls, killw, handling>>

-----------------------------------------------------------------------------
\* sig_term() is tet_fork()'s handler, sigskip() the one of the TCM
Disposition == {"DFL", "IGN", "sig_term", "sigskip"}

\* at: the handler is not set yet, in parentproc, in waitpid(), in tet_killw()
Call  == [child : Pid, savchild : Pid \cup {NoPid}, waittime : WaitTimes,
          at : {"fork", "parent", "wait", "killw"}]

\* at: about to send sig, in waitpid() with the alarm set, or returned
Killw == [child : Pid \cup {NoPid}, sig : {"TERM", "KILL"}, at : {"kill", "wait", "done"}]

Alive(p) == st[p] \in {"forked", "running", "stopped"}
Runs(p)  == st[p] = "running" /\ ~handling[p]
Inner(p) == Last(calls[p])
Within(p, place) == Runs(p) /\ calls[p] # <<>> /\ Inner(p).at = place

\* the test author's code: a childproc, a parentproc or the TP itself
InUserCode(p) == Runs(p) /\ (calls[p] # <<>> => Inner(p).at = "parent")

Goto(p, place) == calls' = [calls EXCEPT ![p][Len(calls[p])].at = place]

-----------------------------------------------------------------------------
(* tet_fork().                                                             *)

\* fork(): the child is a copy, tet_child included, which becomes 0 when the
\* child runs.
tet_fork(p, waittime) ==
    LET c == Cardinality({q \in Pid : st[q] # "none"}) + 1
    IN  /\ InUserCode(p)
        /\ c \in Pid
        /\ st' = [st EXCEPT ![c] = "forked"]
        /\ parent' = [parent EXCEPT ![c] = p]
        /\ sigterm' = [sigterm EXCEPT ![c] = sigterm[p]]
        /\ tet_child' = [tet_child EXCEPT ![p] = c, ![c] = tet_child[p]]
        /\ calls' = [calls EXCEPT ![p] = Append(@, [child |-> c, savchild |-> tet_child[p],
                                                    waittime |-> waittime, at |-> "fork"])]
        /\ UNCHANGED <<pending, killw, handling>>

CallOf(c) == LET all == calls[parent[c]]
             IN  all[CHOOSE i \in DOMAIN all : all[i].child = c]

\* the child up to childproc; signals sent to it before come first
ChildStarts(c) ==
    /\ st[c] = "forked" /\ ~handling[c] /\ pending[c] = {}
    /\ st' = [st EXCEPT ![c] = "running"]
    /\ tet_child' = [tet_child EXCEPT ![c] = NoPid]
    /\ sigterm' = [sigterm EXCEPT ![c] = IF CallOf(c).waittime = "kill" \/ @ = "IGN"
                                          THEN @ ELSE "DFL"]
    /\ UNCHANGED <<parent, pending, calls, killw, handling>>

\* the parent up to parentproc
ParentStarts(p) ==
    /\ Within(p, "fork")
    /\ sigterm' = [sigterm EXCEPT ![p] = IF @ = "DFL" THEN "sig_term" ELSE @]
    /\ Goto(p, "parent")
    /\ UNCHANGED <<st, parent, pending, tet_child, killw, handling>>

\* mutant: tet_killw() is not called
StartNot(p) == UNCHANGED killw

\* tet_killw() is called
Start(p) == killw' = [killw EXCEPT ![p] = [child |-> tet_child[p], sig |-> "TERM", at |-> "kill"]]

ParentprocReturns(p) ==
    /\ Within(p, "parent")
    /\ \/ /\ Inner(p).waittime = "kill"
          /\ Goto(p, "killw") /\ Start(p)
       \/ /\ Inner(p).waittime # "kill"
          /\ Goto(p, "wait") /\ UNCHANGED killw
    /\ UNCHANGED <<st, parent, sigterm, pending, tet_child, handling>>

\* mutant: tet_child is not restored
ReturnKeeping(p) == calls' = [calls EXCEPT ![p] = Front(@)] /\ UNCHANGED tet_child

Return(p) ==
    /\ calls' = [calls EXCEPT ![p] = Front(@)]
    /\ tet_child' = [tet_child EXCEPT ![p] = Inner(p).savchild]

Reap(c) == st' = [st EXCEPT ![c] = "reaped"]

IsZombieOf(c, p) == c # NoPid /\ parent[c] = p /\ st[c] = "zombie"

\* waitpid() returns with the child's status
WaitEnds(p) ==
    /\ Within(p, "wait")
    /\ IsZombieOf(tet_child[p], p)
    /\ Reap(tet_child[p])
    /\ Return(p)
    /\ UNCHANGED <<parent, sigterm, pending, killw, handling>>

\* it returns because the child has stopped (WUNTRACED), because the alarm
\* went off, or because there is no such child
WaitFails(p) ==
    /\ Within(p, "wait")
    /\ \/ st[tet_child[p]] = "stopped"
       \/ Inner(p).waittime = "timed" /\ ~IsZombieOf(tet_child[p], p)
       \/ st[tet_child[p]] = "reaped"
    /\ Goto(p, "killw") /\ Start(p)
    /\ UNCHANGED <<st, parent, sigterm, pending, tet_child, handling>>

-----------------------------------------------------------------------------
(* tet_killw(), called by tet_fork() or a handler.                         *)

Kill(p) ==
    LET k == killw[p]
    IN  /\ Alive(p) /\ k.at = "kill"
        /\ pending' = IF Alive(k.child) THEN [pending EXCEPT ![k.child] = @ \cup {k.sig}]
                      ELSE pending
        /\ killw' = [killw EXCEPT ![p].at = "wait"]
        /\ UNCHANGED <<st, parent, sigterm, tet_child, calls, handling>>

\* tet_killw() returns: tet_fork() returns, and so does sig_term(), which has
\* the process die of SIGTERM; after sigskip() call_1tp() has it exit
Done(p, reaped) ==
    /\ killw' = [killw EXCEPT ![p].at = "done"]
    /\ \/ /\ handling[p]
          /\ st' = [q \in Pid |-> IF q = p THEN "zombie" ELSE IF q \in reaped THEN "reaped" ELSE st[q]]
          /\ pending' = [pending EXCEPT ![p] = {}]
          /\ UNCHANGED <<tet_child, calls>>
       \/ /\ ~handling[p]
          /\ st' = [q \in Pid |-> IF q \in reaped THEN "reaped" ELSE st[q]]
          /\ Return(p)
          /\ UNCHANGED pending

KilledEnds(p) ==
    /\ Alive(p) /\ killw[p].at = "wait"
    /\ IsZombieOf(killw[p].child, p)
    /\ Done(p, {killw[p].child})
    /\ UNCHANGED <<parent, sigterm, handling>>

\* mutants: SIGTERM is sent twice, or again and again
GiveUpSoon(p) == Done(p, {})
NeverGiveUp(p) == /\ killw' = [killw EXCEPT ![p].at = "kill"]
                  /\ UNCHANGED <<st, pending, tet_child, calls>>

\* the second time it gives up
TryAgain(p) ==
    \/ /\ killw[p].sig = "TERM"
       /\ killw' = [killw EXCEPT ![p].sig = "KILL", ![p].at = "kill"]
       /\ UNCHANGED <<st, pending, tet_child, calls>>
    \/ /\ killw[p].sig = "KILL"
       /\ Done(p, {})

\* waitpid() fails: the alarm has gone off or there is no such child
KilledFails(p) ==
    /\ Alive(p) /\ killw[p].at = "wait"
    /\ ~IsZombieOf(killw[p].child, p)
    /\ TryAgain(p)
    /\ UNCHANGED <<parent, sigterm, handling>>

-----------------------------------------------------------------------------
(* Signals.                                                                *)

Dies(p) ==
    /\ st' = [st EXCEPT ![p] = "zombie"]
    /\ pending' = [pending EXCEPT ![p] = {}]

\* a stopped process dies of SIGKILL only
Killed(p) ==
    /\ Alive(p)
    /\ \/ "KILL" \in pending[p]
       \/ "TERM" \in pending[p] /\ st[p] # "stopped" /\ sigterm[p] = "DFL"
    /\ Dies(p)
    /\ UNCHANGED <<parent, sigterm, tet_child, calls, killw, handling>>

Ignored(p) ==
    /\ Alive(p) /\ st[p] # "stopped"
    /\ "TERM" \in pending[p] /\ sigterm[p] = "IGN"
    /\ pending' = [pending EXCEPT ![p] = @ \ {"TERM"}]
    /\ UNCHANGED <<st, parent, sigterm, tet_child, calls, killw, handling>>

\* sig_term() has SIGTERM blocked, sigskip() has jumped out of the handler
Caught(p) ==
    /\ Alive(p) /\ st[p] # "stopped"
    /\ "TERM" \in pending[p] /\ sigterm[p] \in {"sig_term", "sigskip"}
    /\ handling[p] => sigterm[p] = "sigskip"
    /\ handling' = [handling EXCEPT ![p] = TRUE]
    /\ \/ /\ tet_child[p] # NoPid
          /\ Start(p)
          /\ pending' = [pending EXCEPT ![p] = @ \ {"TERM"}]
          /\ UNCHANGED st
       \/ /\ tet_child[p] = NoPid
          /\ Dies(p)
          /\ UNCHANGED killw
    /\ UNCHANGED <<parent, sigterm, tet_child, calls>>

-----------------------------------------------------------------------------
(* What the test author's code may do, and who runs the test.              *)

\* a parentproc may wait for its child
UserWaits(p) ==
    /\ InUserCode(p)
    /\ \E c \in Pid : IsZombieOf(c, p) /\ Reap(c)
    /\ UNCHANGED <<parent, sigterm, pending, tet_child, calls, killw, handling>>

UserExits(p) ==
    /\ InUserCode(p) /\ p # TP
    /\ Dies(p)
    /\ UNCHANGED <<parent, sigterm, tet_child, calls, killw, handling>>

UserStops(p) ==
    /\ InUserCode(p) /\ p \in Unruly
    /\ st' = [st EXCEPT ![p] = "stopped"]
    /\ UNCHANGED <<parent, sigterm, pending, tet_child, calls, killw, handling>>

UserIgnores(p) ==
    /\ InUserCode(p) /\ p \in Unruly
    /\ sigterm' = [sigterm EXCEPT ![p] = "IGN"]
    /\ UNCHANGED <<st, parent, pending, tet_child, calls, killw, handling>>

TcmTerminated ==
    /\ MayTerm /\ Alive(TP) /\ ~handling[TP]
    /\ pending' = [pending EXCEPT ![TP] = @ \cup {"TERM"}]
    /\ UNCHANGED <<st, parent, sigterm, tet_child, calls, killw, handling>>

-----------------------------------------------------------------------------
Init ==
    /\ st = [p \in Pid |-> IF p = TP THEN "running" ELSE "none"]
    /\ parent = [p \in Pid |-> NoPid]
    /\ sigterm = [p \in Pid |-> IF p = TP THEN "sigskip" ELSE "DFL"]
    /\ pending = [p \in Pid |-> {}]
    /\ tet_child = [p \in Pid |-> NoPid]
    /\ calls = [p \in Pid |-> <<>>]
    /\ killw = [p \in Pid |-> [child |-> NoPid, sig |-> "TERM", at |-> "done"]]
    /\ handling = [p \in Pid |-> FALSE]

\* the API's and the system's steps
Api(p) ==
    \/ ChildStarts(p) \/ ParentStarts(p) \/ WaitEnds(p) \/ WaitFails(p)
    \/ Kill(p) \/ KilledEnds(p) \/ KilledFails(p)
    \/ Killed(p) \/ Ignored(p) \/ Caught(p)

User(p) ==
    \/ \E waittime \in WaitTimes : tet_fork(p, waittime)
    \/ ParentprocReturns(p)
    \/ UserWaits(p) \/ UserExits(p) \/ UserStops(p) \/ UserIgnores(p)

Next == TcmTerminated \/ \E p \in Pid : Api(p) \/ User(p)

Spec == Init /\ [][Next]_vars
FairSpec == Spec /\ \A p \in Pid : WF_vars(Api(p))
-----------------------------------------------------------------------------
(* Properties.                                                             *)

\* The types; a process is in one place: in the outer calls it is in
\* parentproc, and tet_killw() is in progress when tet_fork() or a handler
\* has called it.
TypeOK ==
    /\ st \in [Pid -> {"none", "forked", "running", "stopped", "zombie", "reaped"}]
    /\ parent \in [Pid -> Pid \cup {NoPid}]
    /\ sigterm \in [Pid -> Disposition]
    /\ pending \in [Pid -> SUBSET {"TERM", "KILL"}]
    /\ tet_child \in [Pid -> Pid \cup {NoPid}]
    /\ calls \in [Pid -> Seq(Call)]
    /\ killw \in [Pid -> Killw]
    /\ handling \in [Pid -> BOOLEAN]
    /\ \A p \in Pid :
        /\ \A i \in 1..Len(calls[p]) - 1 : calls[p][i].at = "parent"
        /\ Alive(p) => (killw[p].at # "done" <=> Within(p, "killw") \/ handling[p])

\* tet_child is the child of the innermost call, whatever was called within it
\* and however that returned, and only their own children are sent signals:
\* except that a process to which SIGTERM has come before it has run for the
\* first time still has the tet_child of its parent's outer call, and kills
\* that process, its sibling.
OwnChild ==
    \A p \in Pid : Alive(p) =>
        /\ calls[p] # <<>> => tet_child[p] = Inner(p).child
        /\ calls[p] = <<>> /\ st[p] # "forked" => tet_child[p] = NoPid
        /\ killw[p].at # "done" => parent[killw[p].child] = p \/ st[p] = "forked"

Gone(c) == ~Alive(c) \/ "KILL" \in pending[c]

\* No child outlives its tet_fork(), whether it stops, ignores SIGTERM or is
\* late: it is dead or about to die of SIGKILL.  The same holds of the child
\* of the call in progress when a process dies of a SIGTERM that it caught;
\* tet_child does not tell the handler of the outer calls' children.
NoSurvivor ==
    \A c \in Pid :
        LET p == parent[c]
            current == {calls[p][i].child : i \in DOMAIN calls[p]}
            outer   == {calls[p][i].child : i \in 1..Len(calls[p]) - 1}
        IN  Alive(c) /\ p # NoPid /\ ~Gone(c) =>
                /\ Alive(p) => c \in current
                /\ ~Alive(p) /\ handling[p] /\ killw[p].at = "done" => c \in outer

\* tet_fork() returns when it kills the child or has a timeout, and a process
\* that has caught SIGTERM dies, whatever the child does.
Ending(p) ==
    \/ Alive(p) /\ handling[p]
    \/ Within(p, "killw")
    \/ Within(p, "wait") /\ Inner(p).waittime = "timed"
ForkEnds == \A p \in Pid : Ending(p) ~> ~Ending(p)
=============================================================================
