----------------------------- MODULE ForkProofs -----------------------------
(***************************************************************************)
(* Proofs about Fork: for any number of processes, each of which may stop  *)
(* or ignore SIGTERM, and any way of calling tet_fork(), tet_child is what *)
(* the calls in progress say and no child survives its tet_fork().         *)
(***************************************************************************)
EXTENDS Fork, FiniteSetTheorems, TLAPS

(***************************************************************************)
(* The inductive invariant.                                                *)
(***************************************************************************)

(* Pids are given out in order, so that the next one is free.              *)
Allocated == \E n \in Pid : \A q \in Pid : st[q] # "none" <=> q <= n

(* A process that has not run yet has called nothing and forked nobody.    *)
NotBegun ==
    \A q \in Pid :
        /\ st[q] \in {"none", "forked"} => calls[q] = <<>> /\ \A c \in Pid : parent[c] # q
        /\ st[q] = "none" => /\ tet_child[q] = NoPid /\ parent[q] = NoPid
                             /\ killw[q].at = "done" /\ ~handling[q]

(* The stack of calls: a call saves the child of the call around it.       *)
Chain ==
    \A p \in Pid : \A i \in 1..Len(calls[p]) :
        /\ parent[calls[p][i].child] = p
        /\ st[calls[p][i].child] # "none"
        /\ calls[p][i].savchild = IF i = 1 THEN NoPid ELSE calls[p][i - 1].child

(* tet_child is the child of the innermost call, also in a dead process.   *)
TetChild ==
    \A p \in Pid :
        /\ calls[p] # <<>> => tet_child[p] = calls[p][Len(calls[p])].child
        /\ calls[p] = <<>> /\ st[p] \in {"running", "stopped"} => tet_child[p] = NoPid
        /\ tet_child[p] # NoPid => st[tet_child[p]] # "none"

(* tet_killw() is about tet_child, which nobody changes under it, and when *)
(* it waits for the last time the child will not live.                     *)
KillwChild ==
    \A p \in Pid :
        /\ killw[p].at # "done" => tet_child[p] # NoPid /\ killw[p].child = tet_child[p]
        /\ killw[p].at = "wait" /\ killw[p].sig = "KILL" => Gone(killw[p].child)

IInv == TypeOK /\ Allocated /\ NotBegun /\ Chain /\ TetChild /\ KillwChild /\ NoSurvivor

-----------------------------------------------------------------------------
(***************************************************************************)
(* What the steps do to the stacks of calls.                               *)
(***************************************************************************)

(* Going on to another place of the innermost call changes nothing else.   *)
LEMMA GotoFacts ==
    ASSUME TypeOK, NEW p \in Pid, calls[p] # <<>>,
           NEW place \in {"fork", "parent", "wait", "killw"}, Goto(p, place)
    PROVE  /\ calls' \in [Pid -> Seq(Call)]
           /\ \A q \in Pid \ {p} : calls'[q] = calls[q]
           /\ Len(calls'[p]) = Len(calls[p]) /\ calls'[p] # <<>>
           /\ \A i \in 1..Len(calls[p]) :
                /\ calls'[p][i].child = calls[p][i].child
                /\ calls'[p][i].savchild = calls[p][i].savchild
                /\ i < Len(calls[p]) => calls'[p][i] = calls[p][i]
           /\ calls'[p][Len(calls[p])].at = place
<1> DEFINE s == calls[p]
           n == Len(s)
           e == [s[n] EXCEPT !.at = place]
<1>1. s \in Seq(Call) /\ n \in Nat \ {0} /\ s[n] \in Call
  BY DEF TypeOK
<1>2. e \in Call /\ e.child = s[n].child /\ e.savchild = s[n].savchild /\ e.at = place
  BY <1>1 DEF Call
<1>3. calls' = [calls EXCEPT ![p] = [s EXCEPT ![n] = e]]
  BY DEF Goto
<1> HIDE DEF e, s
<1>4. /\ [s EXCEPT ![n] = e] \in Seq(Call)
      /\ Len([s EXCEPT ![n] = e]) = n
      /\ \A i \in 1..n : [s EXCEPT ![n] = e][i] = IF i = n THEN e ELSE s[i]
  BY <1>1, <1>2
<1>5. calls \in [Pid -> Seq(Call)]
  BY DEF TypeOK
<1>6. calls'[p] = [s EXCEPT ![n] = e] /\ calls' \in [Pid -> Seq(Call)]
  BY <1>3, <1>4, <1>5
<1>7. \A q \in Pid \ {p} : calls'[q] = calls[q]
  BY <1>3, <1>5
<1>8. calls'[p] # <<>>
  BY <1>4, <1>6, <1>1
<1>9. \A i \in 1..n : calls'[p][i] = IF i = n THEN e ELSE s[i]
  BY <1>4, <1>6
<1>10. QED BY <1>1, <1>2, <1>4, <1>6, <1>7, <1>8, <1>9 DEF s

(* Returning takes the innermost call off.                                 *)
LEMMA ReturnFacts ==
    ASSUME TypeOK, NEW p \in Pid, calls[p] # <<>>, Return(p)
    PROVE  /\ calls' \in [Pid -> Seq(Call)]
           /\ \A q \in Pid \ {p} : calls'[q] = calls[q]
           /\ Len(calls'[p]) = Len(calls[p]) - 1
           /\ calls'[p] = <<>> <=> Len(calls[p]) = 1
           /\ \A i \in 1..Len(calls[p]) - 1 : calls'[p][i] = calls[p][i]
           /\ tet_child' = [tet_child EXCEPT ![p] = calls[p][Len(calls[p])].savchild]
           /\ tet_child' \in [Pid -> Pid \cup {NoPid}]
<1> DEFINE s == calls[p]
           n == Len(s)
<1>1. s \in Seq(Call) /\ n \in Nat \ {0} /\ s[n] \in Call
  BY DEF TypeOK
<1>2. /\ Front(s) \in Seq(Call) /\ Len(Front(s)) = n - 1
      /\ \A i \in 1..n - 1 : Front(s)[i] = s[i]
  BY <1>1 DEF Front
<1>3. calls'[p] = Front(s) /\ calls' \in [Pid -> Seq(Call)]
      /\ \A q \in Pid \ {p} : calls'[q] = calls[q]
  BY <1>2 DEF Return, TypeOK
<1>4. Front(s) = <<>> <=> n = 1
  <2>1. \A t \in Seq(Call) : t = <<>> <=> Len(t) = 0
    OBVIOUS
  <2>2. n - 1 = 0 <=> n = 1
    BY <1>1
  <2>3. QED BY <1>2, <2>1, <2>2
<1>5. s[n].savchild \in Pid \cup {NoPid}
  BY <1>1 DEF Call
<1>6. /\ tet_child' = [tet_child EXCEPT ![p] = s[n].savchild]
      /\ tet_child' \in [Pid -> Pid \cup {NoPid}]
  BY <1>5 DEF Return, TypeOK, Inner, Last
<1>7. QED BY <1>2, <1>3, <1>4, <1>6

(* The pid that fork() returns is free, and the next one after it.         *)
LEMMA ForkFacts ==
    ASSUME TypeOK, Allocated, NEW p \in Pid, NEW waittime \in WaitTimes,
           tet_fork(p, waittime)
    PROVE  \E c \in Pid :
        /\ st[c] = "none" /\ c # p
        /\ \A q \in Pid : st[q] # "none" <=> q <= c - 1
        /\ st' = [st EXCEPT ![c] = "forked"]
        /\ parent' = [parent EXCEPT ![c] = p]
        /\ sigterm' = [sigterm EXCEPT ![c] = sigterm[p]]
        /\ tet_child' = [tet_child EXCEPT ![p] = c, ![c] = tet_child[p]]
        /\ calls' = [calls EXCEPT ![p] = Append(@, [child |-> c, savchild |-> tet_child[p],
                                                    waittime |-> waittime, at |-> "fork"])]
        /\ UNCHANGED <<pending, killw, handling>>
<1>1. PICK n \in Pid : \A q \in Pid : st[q] # "none" <=> q <= n
  BY DEF Allocated
<1>2. {q \in Pid : st[q] # "none"} = 1..n
  BY <1>1, ForkAssumption DEF Pid
<1>3. Cardinality(1..n) = n
  BY FS_Interval, ForkAssumption DEF Pid
<1>4. n + 1 \in Pid
  BY <1>2, <1>3 DEF tet_fork
<1>5. st[n + 1] = "none" /\ st[p] # "none"
  BY <1>1, <1>4, ForkAssumption DEF Pid, tet_fork, InUserCode, Runs
<1>6. \A q \in Pid : st[q] # "none" <=> q <= (n + 1) - 1
  BY <1>1, ForkAssumption DEF Pid
<1>7. QED BY <1>2, <1>3, <1>4, <1>5, <1>6 DEF tet_fork

-----------------------------------------------------------------------------
(***************************************************************************)
(* The types, and where a process is.                                      *)
(***************************************************************************)

(* The steps of p other than tet_fork().                                   *)
Other(p) ==
    \/ Api(p) \/ ParentprocReturns(p)
    \/ UserWaits(p) \/ UserExits(p) \/ UserStops(p) \/ UserIgnores(p)
    \/ p = TP /\ TcmTerminated

(* A process that is in the middle of something is in the middle of a call. *)
LEMMA InACall ==
    ASSUME TypeOK, NEW p \in Pid, NEW place, Within(p, place)
    PROVE  calls[p] # <<>> /\ st[p] = "running" /\ ~handling[p]
BY DEF Within, Runs

(* tet_killw() returns to tet_fork() or to the handler that called it.     *)
LEMMA KillwInACall ==
    ASSUME TypeOK, NEW p \in Pid, Alive(p), killw[p].at # "done", ~handling[p]
    PROVE  Within(p, "killw") /\ calls[p] # <<>>
BY DEF TypeOK, Within

(* What a step of p may be to tet_killw() and to the calls.                *)
LEMMA Places ==
    ASSUME TypeOK, NEW p \in Pid, Other(p)
    PROVE  /\ calls' \in [Pid -> Seq(Call)]
           /\ \A q \in Pid \ {p} : /\ calls'[q] = calls[q] /\ killw'[q] = killw[q]
                                   /\ handling'[q] = handling[q]
                                   /\ tet_child'[q] = tet_child[q]
           /\ Len(calls'[p]) <= Len(calls[p])
           /\ \A i \in 1..Len(calls'[p]) :
                /\ calls'[p][i].child = calls[p][i].child
                /\ calls'[p][i].savchild = calls[p][i].savchild
                /\ i < Len(calls[p]) => calls'[p][i] = calls[p][i]
           /\ \/ calls'[p] = calls[p]
              \/ /\ calls[p] # <<>> /\ Runs(p) /\ UNCHANGED handling
                 /\ Len(calls'[p]) = Len(calls[p]) - 1 /\ Return(p)
              \/ /\ calls[p] # <<>> /\ Runs(p) /\ UNCHANGED handling
                 /\ Len(calls'[p]) = Len(calls[p]) /\ UNCHANGED tet_child
<1>0. calls \in [Pid -> Seq(Call)]
  BY DEF TypeOK
<1>1. CASE calls' = calls /\ \A q \in Pid \ {p} : /\ killw'[q] = killw[q]
                                                  /\ handling'[q] = handling[q]
                                                  /\ tet_child'[q] = tet_child[q]
  BY <1>0, <1>1
<1>2. CASE /\ calls[p] # <<>> /\ Runs(p) /\ UNCHANGED <<tet_child, handling>>
           /\ \E place \in {"fork", "parent", "wait", "killw"} : Goto(p, place)
           /\ \A q \in Pid \ {p} : killw'[q] = killw[q]
  BY <1>0, <1>2, GotoFacts
<1>3. CASE /\ calls[p] # <<>> /\ Runs(p) /\ Return(p) /\ UNCHANGED handling
           /\ \A q \in Pid \ {p} : killw'[q] = killw[q]
  <2>1. \A q \in Pid \ {p} : tet_child'[q] = tet_child[q]
    BY <1>3, ReturnFacts DEF TypeOK
  <2>2. Len(calls[p]) \in Nat \ {0}
    BY <1>0, <1>3
  <2>3. QED BY <1>3, <2>1, <2>2, ReturnFacts
<1>4. CASE ChildStarts(p)
  BY <1>1, <1>4 DEF ChildStarts, TypeOK
<1>5. CASE ParentStarts(p)
  BY <1>2, <1>5, InACall DEF ParentStarts, Within
<1>6. CASE WaitEnds(p)
  BY <1>3, <1>6, InACall DEF WaitEnds, Within
<1>7. CASE WaitFails(p)
  BY <1>2, <1>7, InACall DEF WaitFails, Within, Start, TypeOK
<1>8. CASE Kill(p)
  BY <1>1, <1>8 DEF Kill, TypeOK
<1>9. CASE \E reaped : Done(p, reaped) /\ Alive(p) /\ killw[p].at = "wait" /\ UNCHANGED handling
  <2>1. \A q \in Pid \ {p} : killw'[q] = killw[q]
    BY <1>9 DEF Done, TypeOK
  <2>2. CASE handling[p] /\ UNCHANGED <<tet_child, calls>>
    BY <1>1, <1>9, <2>1, <2>2
  <2>3. CASE ~handling[p] /\ Return(p)
    BY <1>3, <1>9, <2>1, <2>3, KillwInACall, InACall DEF Within
  <2>4. QED BY <1>9, <2>2, <2>3 DEF Done
<1>10. CASE KilledEnds(p)
  BY <1>9, <1>10 DEF KilledEnds
<1>11. CASE KilledFails(p)
  <2>1. CASE killw' = [killw EXCEPT ![p].sig = "KILL", ![p].at = "kill"]
             /\ UNCHANGED <<tet_child, calls, handling>>
    BY <1>1, <2>1 DEF TypeOK
  <2>2. CASE Done(p, {})
    BY <1>9, <1>11, <2>2 DEF KilledFails
  <2>3. QED BY <1>11, <2>1, <2>2 DEF KilledFails, TryAgain
<1>12. CASE Killed(p) \/ Ignored(p)
  BY <1>1, <1>12 DEF Killed, Ignored
<1>13. CASE Caught(p)
  BY <1>1, <1>13 DEF Caught, Start, TypeOK
<1>14. CASE ParentprocReturns(p)
  BY <1>2, <1>14, InACall DEF ParentprocReturns, Start, Within, TypeOK
<1>15. CASE UserWaits(p) \/ UserExits(p) \/ UserStops(p) \/ UserIgnores(p) \/ TcmTerminated
  BY <1>1, <1>15 DEF UserWaits, UserExits, UserStops, UserIgnores, TcmTerminated
<1>16. QED BY <1>4, <1>5, <1>6, <1>7, <1>8, <1>10, <1>11, <1>12, <1>13, <1>14, <1>15 DEF Other, Api

(* Nobody is born or comes back to life, children stay whose they are, and *)
(* who is gone stays gone.                                                 *)
LEMMA Lives ==
    ASSUME TypeOK, NEW p \in Pid, Other(p)
    PROVE  /\ st' \in [Pid -> {"none", "forked", "running", "stopped", "zombie", "reaped"}]
           /\ pending' \in [Pid -> SUBSET {"TERM", "KILL"}]
           /\ parent' = parent
           /\ \A q \in Pid : /\ st'[q] = "none" <=> st[q] = "none"
                             /\ st'[q] = "forked" => st[q] = "forked"
                             /\ Alive(q)' => Alive(q)
                             /\ Gone(q) /\ st[q] # "none" => Gone(q)'
           /\ \A q \in Pid \ {p} : st'[q] = st[q] \/ (st[q] = "zombie" /\ st'[q] = "reaped")
<1> USE DEF Alive, Gone
<1>0. /\ st \in [Pid -> {"none", "forked", "running", "stopped", "zombie", "reaped"}]
      /\ pending \in [Pid -> SUBSET {"TERM", "KILL"}]
  BY DEF TypeOK
<1>1. CASE ChildStarts(p)
  BY <1>0, <1>1 DEF ChildStarts
<1>2. CASE ParentStarts(p)
  BY <1>0, <1>2 DEF ParentStarts
<1>3. CASE WaitEnds(p)
  BY <1>0, <1>3 DEF WaitEnds, Reap, IsZombieOf
<1>4. CASE WaitFails(p)
  BY <1>0, <1>4 DEF WaitFails
<1>5. CASE Kill(p)
  <2>1. killw[p].sig \in {"TERM", "KILL"} /\ killw[p].child \in Pid \cup {NoPid}
    BY DEF Killw, TypeOK
  <2>2. CASE Alive(killw[p].child)
    BY <1>0, <1>5, <2>1, <2>2 DEF Kill
  <2>3. CASE ~Alive(killw[p].child)
    BY <1>0, <1>5, <2>3 DEF Kill
  <2>4. QED BY <2>2, <2>3
<1>6. CASE \E reaped : /\ Done(p, reaped) /\ Alive(p) /\ UNCHANGED parent
                       /\ \A q \in reaped : st[q] = "zombie"
  BY <1>0, <1>6 DEF Done
<1>7. CASE KilledEnds(p)
  BY <1>0, <1>6, <1>7 DEF KilledEnds, IsZombieOf
<1>8. CASE KilledFails(p)
  <2>1. CASE Done(p, {})
    BY <1>6, <1>8, <2>1 DEF KilledFails
  <2>2. CASE UNCHANGED <<st, pending>>
    BY <1>0, <1>8, <2>2 DEF KilledFails
  <2>3. QED BY <1>8, <2>1, <2>2 DEF KilledFails, TryAgain
<1>9. CASE Killed(p)
  BY <1>0, <1>9 DEF Killed, Dies
<1>10. CASE Ignored(p)
  BY <1>0, <1>10 DEF Ignored
<1>11. CASE Caught(p)
  BY <1>0, <1>11 DEF Caught, Dies
<1>12. CASE ParentprocReturns(p)
  BY <1>0, <1>12 DEF ParentprocReturns
<1>13. CASE UserWaits(p)
  BY <1>0, <1>13 DEF UserWaits, Reap, IsZombieOf
<1>14. CASE UserExits(p)
  BY <1>0, <1>14 DEF UserExits, Dies, InUserCode, Runs
<1>15. CASE UserStops(p)
  BY <1>0, <1>15 DEF UserStops, InUserCode, Runs
<1>16. CASE UserIgnores(p)
  BY <1>0, <1>16 DEF UserIgnores
<1>17. CASE p = TP /\ TcmTerminated
  BY <1>0, <1>17 DEF TcmTerminated
<1>18. QED BY <1>1, <1>2, <1>3, <1>4, <1>5, <1>7, <1>8, <1>9, <1>10, <1>11, <1>12, <1>13,
              <1>14, <1>15, <1>16, <1>17 DEF Other, Api

(* The parts of the type invariant.                                        *)
Types ==
    /\ st \in [Pid -> {"none", "forked", "running", "stopped", "zombie", "reaped"}]
    /\ parent \in [Pid -> Pid \cup {NoPid}]
    /\ sigterm \in [Pid -> Disposition]
    /\ pending \in [Pid -> SUBSET {"TERM", "KILL"}]
    /\ tet_child \in [Pid -> Pid \cup {NoPid}]
    /\ calls \in [Pid -> Seq(Call)]
    /\ killw \in [Pid -> Killw]
    /\ handling \in [Pid -> BOOLEAN]
OuterInParent == \A p \in Pid : \A i \in 1..Len(calls[p]) - 1 : calls[p][i].at = "parent"
InKillw(p) == Alive(p) => (killw[p].at # "done" <=> Within(p, "killw") \/ handling[p])

LEMMA TypeOKParts == TypeOK <=> Types /\ OuterInParent /\ \A p \in Pid : InKillw(p)
BY DEF TypeOK, Types, OuterInParent, InKillw

(* A step leaves the values of the variables in their types.               *)
LEMMA StepTypes ==
    ASSUME TypeOK, NEW p \in Pid, Other(p)
    PROVE  Types'
<1>a. killw \in [Pid -> Killw]
  BY DEF TypeOK
<1>3. ASSUME NEW place \in {"kill", "wait", "done"}
      PROVE  [killw EXCEPT ![p].at = place] \in [Pid -> Killw]
  BY <1>a DEF Killw
<1> USE DEF TypeOK
<1>0. /\ st' \in [Pid -> {"none", "forked", "running", "stopped", "zombie", "reaped"}]
      /\ pending' \in [Pid -> SUBSET {"TERM", "KILL"}]
      /\ parent' \in [Pid -> Pid \cup {NoPid}]
      /\ calls' \in [Pid -> Seq(Call)]
  BY Lives, Places
<1>1. SUFFICES /\ sigterm' \in [Pid -> Disposition]
               /\ tet_child' \in [Pid -> Pid \cup {NoPid}]
               /\ killw' \in [Pid -> Killw]
               /\ handling' \in [Pid -> BOOLEAN]
  BY <1>0 DEF Types
<1>2. Start(p) => killw' \in [Pid -> Killw]
  BY DEF Start, Killw
<1>4. Return(p) /\ calls[p] # <<>> => tet_child' \in [Pid -> Pid \cup {NoPid}]
  BY ReturnFacts
<1>5. CASE ChildStarts(p)
  BY <1>5 DEF ChildStarts, Disposition, NoPid
<1>6. CASE ParentStarts(p)
  BY <1>6 DEF ParentStarts, Disposition
<1>7. CASE WaitEnds(p)
  BY <1>4, <1>7, InACall DEF WaitEnds, Within
<1>8. CASE WaitFails(p) \/ ParentprocReturns(p)
  BY <1>2, <1>8 DEF WaitFails, ParentprocReturns
<1>9. CASE Kill(p)
  BY <1>3, <1>9 DEF Kill
<1>10. CASE \E reaped : Done(p, reaped) /\ Alive(p) /\ killw[p].at = "wait"
                        /\ UNCHANGED <<sigterm, handling>>
  <2>1. killw' \in [Pid -> Killw]
    BY <1>3, <1>10 DEF Done
  <2>2. tet_child' \in [Pid -> Pid \cup {NoPid}]
    BY <1>4, <1>10, KillwInACall DEF Done
  <2>3. QED BY <1>10, <2>1, <2>2
<1>11. CASE KilledEnds(p)
  BY <1>10, <1>11 DEF KilledEnds
<1>12. CASE KilledFails(p)
  <2>1. CASE Done(p, {})
    BY <1>10, <1>12, <2>1 DEF KilledFails
  <2>2. CASE killw' = [killw EXCEPT ![p].sig = "KILL", ![p].at = "kill"] /\ UNCHANGED tet_child
    BY <1>12, <2>2 DEF KilledFails, Killw
  <2>3. QED BY <1>12, <2>1, <2>2 DEF KilledFails, TryAgain
<1>13. CASE Killed(p) \/ Ignored(p)
  BY <1>13 DEF Killed, Ignored
<1>14. CASE Caught(p)
  BY <1>2, <1>14 DEF Caught
<1>15. CASE UserWaits(p) \/ UserExits(p) \/ UserStops(p) \/ UserIgnores(p) \/ TcmTerminated
  BY <1>15 DEF UserWaits, UserExits, UserStops, UserIgnores, TcmTerminated, Disposition
<1>16. QED BY <1>5, <1>6, <1>7, <1>8, <1>9, <1>11, <1>12, <1>13, <1>14, <1>15 DEF Other, Api

(* The outer calls are in parentproc, which called the inner ones.         *)
LEMMA StepOuterInParent ==
    ASSUME TypeOK, NEW p \in Pid, Other(p)
    PROVE  OuterInParent'
<1> SUFFICES ASSUME NEW q \in Pid, NEW i \in 1..Len(calls'[q]) - 1
             PROVE  calls'[q][i].at = "parent"
  BY DEF OuterInParent
<1>1. CASE q # p
  BY <1>1, Places DEF TypeOK
<1>2. CASE q = p
  <2>0. calls[p] \in Seq(Call) /\ calls'[p] \in Seq(Call)
    BY Places DEF TypeOK
  <2>1. Len(calls[p]) \in Nat /\ Len(calls'[p]) \in Nat /\ Len(calls'[p]) <= Len(calls[p])
    BY <2>0, Places
  <2>2. i \in 1..Len(calls'[p]) /\ i < Len(calls[p]) /\ i \in 1..Len(calls[p]) - 1
    BY <1>2, <2>1
  <2>3. calls'[p][i] = calls[p][i]
    BY <1>2, <2>2, Places
  <2>4. QED BY <1>2, <2>2, <2>3 DEF TypeOK
<1>3. QED BY <1>1, <1>2

(* When a call has returned the one around it is in parentproc.            *)
LEMMA ReturnsToParent ==
    ASSUME TypeOK, NEW p \in Pid, calls[p] # <<>>, Return(p)
    PROVE  ~Within(p, "killw")'
<1>1. Len(calls[p]) \in Nat \ {0} /\ Len(calls'[p]) = Len(calls[p]) - 1
  BY ReturnFacts DEF TypeOK
<1>2. SUFFICES ASSUME calls'[p] # <<>>
               PROVE  calls'[p][Len(calls'[p])].at # "killw"
  BY DEF Within, Inner, Last
<1>3. Len(calls[p]) - 1 \in 1..Len(calls[p]) - 1
  BY <1>1, <1>2, ReturnFacts
<1>4. calls'[p][Len(calls'[p])] = calls[p][Len(calls[p]) - 1]
  BY <1>1, <1>3, ReturnFacts
<1>5. QED BY <1>3, <1>4 DEF TypeOK

(* tet_killw() is in progress when tet_fork() or a handler has called it.  *)
LEMMA StepInKillw ==
    ASSUME TypeOK, NotBegun, NEW p \in Pid, Other(p)
    PROVE  \A q \in Pid : InKillw(q)'
<1>1. ASSUME NEW q \in Pid, q # p
      PROVE  InKillw(q)'
  <2>1. /\ calls'[q] = calls[q] /\ killw'[q] = killw[q] /\ handling'[q] = handling[q]
        /\ st'[q] = st[q] \/ ~Alive(q)'
    BY <1>1, Places, Lives DEF Alive
  <2>2. InKillw(q)
    BY TypeOKParts
  <2>3. QED BY <2>1, <2>2 DEF InKillw, Within, Runs, Inner, Alive
<1>2. InKillw(p)'
  <2> DEFINE at == killw[p].at
             placed == calls[p] # <<>> /\ calls[p][Len(calls[p])].at = "killw"
  <2>0. /\ Alive(p) => (at # "done" <=> (st[p] = "running" /\ ~handling[p] /\ placed) \/ handling[p])
        /\ p \in DOMAIN st /\ p \in DOMAIN killw /\ p \in DOMAIN handling
        /\ st[p] = "forked" => calls[p] = <<>>
        /\ killw[p] \in Killw
        /\ handling[p] \in BOOLEAN
    BY DEF TypeOK, Within, Runs, Inner, Last, NotBegun
  <2>1. InKillw(p)' <=>
          (Alive(p)' => (at' # "done" <=>
                          (st'[p] = "running" /\ ~handling'[p] /\ placed') \/ handling'[p]))
    BY DEF InKillw, Within, Runs, Inner, Last
  <2>2. CASE ~Alive(p)'
    BY <2>2 DEF InKillw
  <2>3. CASE UNCHANGED <<st, calls, killw, handling>>
    BY <2>0, <2>1, <2>3 DEF Alive
  <2>5. Start(p) => at' # "done"
    BY <2>0 DEF Start, TypeOK
  <2>6. Within(p, "wait") \/ Within(p, "parent") \/ Within(p, "fork") => ~placed /\ Runs(p) /\ calls[p] # <<>> /\ at = "done"
    BY <2>0 DEF Within, Inner, Last, Runs, Alive
  <2>7. ASSUME NEW place \in {"fork", "parent", "wait", "killw"}, calls[p] # <<>>, Goto(p, place)
        PROVE  placed' <=> place = "killw"
    BY <2>7, GotoFacts
  <2>8. calls[p] # <<>> /\ Return(p) => ~Within(p, "killw")'
    BY ReturnsToParent
  <2> HIDE DEF placed
  <2>9. CASE ChildStarts(p)
    <3>1. ~placed' /\ UNCHANGED <<killw, handling>> /\ ~handling[p] /\ at = "done"
      BY <2>0, <2>9 DEF ChildStarts, placed, Alive
    <3>2. QED BY <2>1, <3>1
  <2>10. CASE ParentStarts(p)
    BY <2>0, <2>1, <2>6, <2>7, <2>10 DEF ParentStarts, Runs
  <2>11. CASE WaitEnds(p)
    <3>1. ~(st'[p] = "running" /\ ~handling'[p] /\ placed')
      BY <2>6, <2>8, <2>11 DEF WaitEnds, Within, Runs, Inner, Last, placed
    <3>2. at' = "done" /\ ~handling'[p]
      BY <2>6, <2>11 DEF WaitEnds, Runs
    <3>3. QED BY <2>1, <3>1, <3>2
  <2>12. CASE WaitFails(p)
    BY <2>0, <2>1, <2>5, <2>6, <2>7, <2>12 DEF WaitFails, Runs
  <2>13. CASE Kill(p)
    BY <2>0, <2>1, <2>13 DEF Kill, TypeOK, Alive, Killw, placed
  <2>14. CASE \E reaped : Done(p, reaped) /\ Alive(p) /\ at = "wait" /\ UNCHANGED handling
    <3>1. CASE handling[p]
      BY <2>2, <2>14, <3>1 DEF Done, Alive
    <3>2. CASE ~handling[p] /\ Return(p)
      <4>1. ~(st'[p] = "running" /\ ~handling'[p] /\ placed')
        BY <2>8, <2>14, <3>2, KillwInACall DEF Within, Runs, Inner, Last, placed
      <4>2. at' = "done" /\ ~handling'[p]
        BY <2>0, <2>14, <3>2 DEF Done, Killw
      <4>3. QED BY <2>1, <4>1, <4>2
    <3>3. QED BY <2>14, <3>1, <3>2 DEF Done
  <2>15. CASE KilledEnds(p)
    BY <2>14, <2>15 DEF KilledEnds
  <2>16. CASE KilledFails(p)
    <3>1. CASE Done(p, {})
      BY <2>14, <2>16, <3>1 DEF KilledFails
    <3>2. CASE killw' = [killw EXCEPT ![p].sig = "KILL", ![p].at = "kill"]
               /\ UNCHANGED <<st, calls, handling>>
      <4>1. at' = "kill" /\ at = "wait" /\ Alive(p)
        BY <2>0, <2>16, <3>2 DEF TypeOK, Killw, KilledFails
      <4>2. QED BY <2>0, <2>1, <3>2, <4>1 DEF placed
    <3>3. QED BY <2>16, <3>1, <3>2 DEF KilledFails, TryAgain
  <2>17. CASE Killed(p)
    BY <2>0, <2>2, <2>17 DEF Killed, Dies, Alive
  <2>18. CASE Ignored(p)
    BY <2>3, <2>18 DEF Ignored
  <2>19. CASE Caught(p)
    <3>1. CASE Dies(p)
      BY <2>0, <2>2, <3>1 DEF Dies, Alive
    <3>2. CASE Start(p)
      BY <2>0, <2>1, <2>5, <2>19, <3>2 DEF Caught
    <3>3. QED BY <2>19, <3>1, <3>2 DEF Caught
  <2>20. CASE ParentprocReturns(p)
    <3>1. CASE Goto(p, "killw") /\ Start(p)
      BY <2>0, <2>1, <2>5, <2>6, <2>7, <2>20, <3>1 DEF ParentprocReturns, Runs
    <3>2. CASE Goto(p, "wait") /\ UNCHANGED killw
      BY <2>0, <2>1, <2>6, <2>7, <2>20, <3>2 DEF ParentprocReturns, Runs
    <3>3. QED BY <2>20, <3>1, <3>2 DEF ParentprocReturns
  <2>21. CASE UserWaits(p)
    <3>1. st'[p] = st[p] \/ ~Alive(p)'
      BY <2>0, <2>21 DEF UserWaits, Reap, Alive, TypeOK
    <3>2. QED BY <2>0, <2>1, <2>2, <2>21, <3>1 DEF UserWaits, InUserCode, Runs, Alive, placed
  <2>22. CASE UserExits(p)
    BY <2>0, <2>2, <2>22 DEF UserExits, Dies, Alive
  <2>23. CASE UserStops(p)
    <3>1. at = "done" /\ ~handling[p]
      BY <2>0, <2>23 DEF UserStops, InUserCode, Runs, Inner, Last, placed, Alive
    <3>2. st'[p] = "stopped"
      BY <2>0, <2>23 DEF UserStops
    <3>3. QED BY <2>1, <2>23, <3>1, <3>2 DEF UserStops
  <2>24. CASE UserIgnores(p) \/ TcmTerminated
    BY <2>3, <2>24 DEF UserIgnores, TcmTerminated
  <2>25. QED BY <2>9, <2>10, <2>11, <2>12, <2>13, <2>15, <2>16, <2>17, <2>18, <2>19, <2>20, <2>21,
                <2>22, <2>23, <2>24 DEF Other, Api
<1>3. QED BY <1>1, <1>2

-----------------------------------------------------------------------------
(***************************************************************************)
(* The steps other than tet_fork() preserve the inductive invariant.       *)
(***************************************************************************)

LEMMA ActorLives ==
    ASSUME NEW p \in Pid, Other(p)
    PROVE  Alive(p)
BY DEF Other, Api, ChildStarts, ParentStarts, WaitEnds, WaitFails, Kill, KilledEnds, KilledFails,
    Killed, Ignored, Caught, ParentprocReturns, UserWaits, UserExits, UserStops, UserIgnores,
    TcmTerminated, InUserCode, Within, Runs, Alive

LEMMA StepAllocated ==
    ASSUME TypeOK, Allocated, NEW p \in Pid, Other(p)
    PROVE  Allocated'
BY Lives DEF Allocated

LEMMA StepNotBegun ==
    ASSUME TypeOK, NotBegun, NEW p \in Pid, Other(p)
    PROVE  NotBegun'
<1> SUFFICES ASSUME NEW q \in Pid
             PROVE  /\ st'[q] \in {"none", "forked"} =>
                            calls'[q] = <<>> /\ \A c \in Pid : parent'[c] # q
                    /\ st'[q] = "none" => /\ tet_child'[q] = NoPid /\ parent'[q] = NoPid
                                          /\ killw'[q].at = "done" /\ ~handling'[q]
  BY DEF NotBegun
<1>1. ASSUME st'[q] \in {"none", "forked"}
      PROVE  calls'[q] = <<>> /\ \A c \in Pid : parent'[c] # q
  <2>1. st[q] \in {"none", "forked"} /\ parent' = parent
    BY <1>1, Lives
  <2>2. calls[q] = <<>> /\ \A c \in Pid : parent[c] # q
    BY <2>1 DEF NotBegun
  <2>3. calls'[q] = calls[q]
    BY <2>2, Places
  <2>4. QED BY <2>1, <2>2, <2>3
<1>2. ASSUME st'[q] = "none"
      PROVE  /\ tet_child'[q] = NoPid /\ parent'[q] = NoPid
             /\ killw'[q].at = "done" /\ ~handling'[q]
  <2>1. st[q] = "none" /\ q # p /\ parent' = parent
    BY <1>2, Lives, ActorLives DEF Alive
  <2>2. QED BY <2>1, Places DEF NotBegun
<1>3. QED BY <1>1, <1>2

LEMMA StepChain ==
    ASSUME TypeOK, Chain, NEW p \in Pid, Other(p)
    PROVE  Chain'
<1> SUFFICES ASSUME NEW q \in Pid, NEW i \in 1..Len(calls'[q])
             PROVE  /\ parent'[calls'[q][i].child] = q
                    /\ st'[calls'[q][i].child] # "none"
                    /\ calls'[q][i].savchild = IF i = 1 THEN NoPid ELSE calls'[q][i - 1].child
  BY DEF Chain
<1>1. calls[q] \in Seq(Call) /\ calls'[q] \in Seq(Call) /\ Len(calls'[q]) <= Len(calls[q])
  BY Places DEF TypeOK
<1>2. i \in 1..Len(calls[q]) /\ (i # 1 => i - 1 \in 1..Len(calls'[q]))
  BY <1>1
<1>3. \A j \in 1..Len(calls'[q]) : /\ calls'[q][j].child = calls[q][j].child
                                   /\ calls'[q][j].savchild = calls[q][j].savchild
  BY Places
<1>4. calls[q][i].child \in Pid
  <2>1. calls[q][i] \in Call
    BY <1>1, <1>2
  <2>2. QED BY <2>1 DEF Call
<1>5. QED BY <1>2, <1>3, <1>4, Lives DEF Chain

(* tet_child changes when a call returns and when a child starts.          *)
LEMMA WhoChangesTetChild ==
    ASSUME TypeOK, NEW p \in Pid, Other(p)
    PROVE  /\ \/ UNCHANGED tet_child
              \/ Return(p) /\ calls[p] # <<>>
              \/ ChildStarts(p)
           /\ st'[p] \in {"running", "stopped"} => st[p] = st'[p] \/ Runs(p) \/ ChildStarts(p)
<1>1. CASE KilledEnds(p)
  BY <1>1, KillwInACall DEF KilledEnds, Done, TypeOK
<1>2. CASE KilledFails(p)
  BY <1>2, KillwInACall DEF KilledFails, TryAgain, Done, TypeOK
<1>3. CASE UserStops(p) \/ UserWaits(p) \/ UserExits(p) \/ WaitEnds(p)
  BY <1>3, InACall DEF UserStops, UserWaits, UserExits, WaitEnds, InUserCode, Within
<1>4. CASE Caught(p) \/ Killed(p)
  BY <1>4 DEF Caught, Killed, Dies, TypeOK
<1>5. QED BY <1>1, <1>2, <1>3, <1>4 DEF Other, Api, ParentStarts, WaitFails, Kill, Ignored,
              ParentprocReturns, UserIgnores, TcmTerminated

LEMMA StepTetChild ==
    ASSUME TypeOK, NotBegun, Chain, TetChild, NEW p \in Pid, Other(p)
    PROVE  TetChild'
<1>1. ASSUME NEW q \in Pid
      PROVE  /\ calls'[q] # <<>> => tet_child'[q] = calls'[q][Len(calls'[q])].child
             /\ calls'[q] = <<>> /\ st'[q] \in {"running", "stopped"} => tet_child'[q] = NoPid
             /\ tet_child'[q] # NoPid => st'[tet_child'[q]] # "none"
  <2>1. ASSUME tet_child'[q] = tet_child[q] PROVE  tet_child'[q] # NoPid => st'[tet_child'[q]] # "none"
    BY <2>1, Lives DEF TetChild, TypeOK
  <2>2. CASE q # p
    <3>1. /\ calls'[q] = calls[q] /\ tet_child'[q] = tet_child[q]
          /\ st'[q] \in {"running", "stopped"} => st'[q] = st[q]
      BY <2>2, Places, Lives
    <3>2. QED BY <2>1, <3>1 DEF TetChild
  <2>3. CASE q = p /\ UNCHANGED tet_child /\ calls'[p] = calls[p] /\ ~ChildStarts(p)
    <3>1. st'[p] \in {"running", "stopped"} => st[p] \in {"running", "stopped"}
      BY <2>3, WhoChangesTetChild DEF Runs
    <3>2. QED BY <2>1, <2>3, <3>1 DEF TetChild
  <2>4. CASE q = p /\ UNCHANGED tet_child /\ calls[p] # <<>> /\ Len(calls'[p]) = Len(calls[p])
    <3>1. calls[p] \in Seq(Call) /\ calls'[p] \in Seq(Call)
      BY Places DEF TypeOK
    <3>2. calls'[p] # <<>> /\ Len(calls[p]) \in 1..Len(calls'[p])
      BY <2>4, <3>1
    <3>3. calls'[p][Len(calls[p])].child = calls[p][Len(calls[p])].child
      BY <3>2, Places
    <3>4. QED BY <2>1, <2>4, <3>2, <3>3 DEF TetChild
  <2>5. CASE q = p /\ Return(p) /\ calls[p] # <<>>
    <3> DEFINE n == Len(calls[p])
    <3>1. calls[p] \in Seq(Call) /\ calls'[p] \in Seq(Call) /\ n \in Nat \ {0}
          /\ Len(calls'[p]) = n - 1
      BY <2>5, Places, ReturnFacts DEF TypeOK
    <3>2. tet_child'[p] = calls[p][n].savchild
      BY <2>5, ReturnFacts DEF TypeOK
    <3> HIDE DEF n
    <3>3. CASE n = 1
      BY <2>5, <3>1, <3>2, <3>3, ReturnFacts DEF Chain, n
    <3>4. CASE n # 1
      <4>1. n \in 1..n /\ n - 1 \in 1..n - 1 /\ n - 1 \in 1..n
        BY <3>1, <3>4
      <4>2. tet_child'[p] = calls[p][n - 1].child
        BY <3>2, <3>4, <4>1 DEF Chain, n
      <4>3. calls'[p] # <<>> /\ calls'[p][n - 1] = calls[p][n - 1]
        BY <2>5, <3>1, <3>4, <4>1, ReturnFacts DEF n
      <4>4. calls[p][n - 1].child \in Pid /\ st[calls[p][n - 1].child] # "none"
        <5>1. calls[p][n - 1] \in Call
          BY <3>1, <4>1 DEF n
        <5>2. QED BY <4>1, <5>1 DEF Chain, Call, n
      <4>5. QED BY <2>5, <3>1, <4>2, <4>3, <4>4, Lives
    <3>5. QED BY <3>3, <3>4
  <2>6. CASE q = p /\ ChildStarts(p)
    BY <2>6 DEF ChildStarts, NotBegun, TypeOK
  <2>7. QED BY <2>2, <2>3, <2>4, <2>5, <2>6, Places, WhoChangesTetChild
<1>2. QED BY <1>1 DEF TetChild

(* The child that tet_killw() waits for stays the same and stays gone.     *)
LEMMA StepKillwChild ==
    ASSUME TypeOK, TetChild, KillwChild, NEW p \in Pid, Other(p)
    PROVE  KillwChild'
<1> DEFINE Right(q) ==
        /\ killw[q].at # "done" => tet_child[q] # NoPid /\ killw[q].child = tet_child[q]
        /\ killw[q].at = "wait" /\ killw[q].sig = "KILL" => Gone(killw[q].child)
<1>1. ASSUME NEW q \in Pid, killw'[q] = killw[q], tet_child'[q] = tet_child[q]
      PROVE  Right(q)'
  <2>1. CASE killw[q].at # "done"
    <3>1. killw[q].child \in Pid /\ st[killw[q].child] # "none"
      BY <2>1 DEF KillwChild, TetChild, TypeOK
    <3>2. Gone(killw[q].child) => Gone(killw[q].child)'
      <4>1. PICK c \in Pid : c = killw[q].child /\ c = killw'[q].child
        BY <1>1, <3>1
      <4>2. Gone(c) => Gone(c)'
        BY <3>1, <4>1, Lives
      <4>3. QED BY <4>1, <4>2
    <3>3. QED BY <1>1, <2>1, <3>2 DEF KillwChild
  <2>2. QED BY <1>1, <2>1
<1>2. \A q \in Pid \ {p} : Right(q)'
  BY <1>1, Places
<1>3. Right(p)'
  <2>0. /\ killw[p] \in Killw /\ killw \in [Pid -> Killw]
        /\ Alive(p) => (killw[p].at # "done" <=> Within(p, "killw") \/ handling[p])
    BY DEF TypeOK
  <2>1. CASE killw'[p].at = "done"
    BY <2>1
  <2>2. CASE Start(p) /\ UNCHANGED tet_child /\ tet_child[p] # NoPid
    BY <2>0, <2>2 DEF Start
  <2>3. calls[p] # <<>> => tet_child[p] # NoPid
    <3>1. ASSUME calls[p] # <<>> PROVE calls[p][Len(calls[p])] \in Call
      BY <3>1 DEF TypeOK
    <3>2. NoPid \notin Pid
      BY ForkAssumption DEF NoPid, Pid
    <3>3. QED BY <3>1, <3>2 DEF Call, TetChild
  <2>4. CASE ChildStarts(p) \/ ParentStarts(p) \/ WaitEnds(p)
    <3>1. ~Within(p, "killw") /\ ~handling[p] /\ Alive(p) /\ UNCHANGED killw
      BY <2>4 DEF ChildStarts, ParentStarts, WaitEnds, Within, Runs, Alive
    <3>2. QED BY <2>0, <2>1, <3>1
  <2>5. CASE WaitFails(p)
    BY <2>2, <2>3, <2>5, InACall DEF WaitFails
  <2>6. CASE Kill(p)
    <3>1. /\ killw'[p].at = "wait" /\ killw'[p].child = killw[p].child
          /\ killw'[p].sig = killw[p].sig /\ UNCHANGED tet_child
      BY <2>0, <2>6 DEF Kill, Killw
    <3>2. killw[p].child = tet_child[p] /\ tet_child[p] # NoPid /\ killw[p].child \in Pid
      BY <2>6 DEF Kill, KillwChild, TypeOK
    <3>3. killw[p].sig = "KILL" => Gone(killw[p].child)'
      BY <2>6, <3>2 DEF Kill, Gone, TypeOK, Alive
    <3>4. QED BY <3>1, <3>2, <3>3
  <2>7. CASE KilledEnds(p)
    BY <2>0, <2>1, <2>7 DEF KilledEnds, Done, Killw
  <2>8. CASE KilledFails(p)
    <3>1. CASE Done(p, {})
      BY <2>0, <2>1, <3>1 DEF Done, Killw
    <3>2. CASE killw' = [killw EXCEPT ![p].sig = "KILL", ![p].at = "kill"] /\ UNCHANGED tet_child
      <4>1. killw'[p].at = "kill" /\ killw'[p].child = killw[p].child /\ killw[p].at = "wait"
        BY <2>0, <2>8, <3>2 DEF Killw, KilledFails
      <4>2. QED BY <3>2, <4>1 DEF KillwChild
    <3>3. QED BY <2>8, <3>1, <3>2 DEF KilledFails, TryAgain
  <2>9. CASE Caught(p)
    BY <1>1, <2>2, <2>9 DEF Caught
  <2>10. CASE ParentprocReturns(p)
    BY <1>1, <2>2, <2>3, <2>10, InACall DEF ParentprocReturns
  <2>11. CASE UNCHANGED <<killw, tet_child>>
    BY <1>1, <2>11
  <2>12. QED BY <2>4, <2>5, <2>6, <2>7, <2>8, <2>9, <2>10, <2>11 DEF Other, Api, Killed, Ignored,
                UserWaits, UserExits, UserStops, UserIgnores, TcmTerminated
<1>4. QED BY <1>2, <1>3 DEF KillwChild

(* A call that returns leaves no living child behind, and neither does a   *)
(* handler from which the process dies.                                    *)
LEMMA InnerGone ==
    ASSUME TypeOK, TetChild, KillwChild, NEW p \in Pid, Other(p), calls[p] # <<>>,
           \/ calls'[p] # calls[p] /\ Len(calls'[p]) # Len(calls[p])
           \/ ~Alive(p)' /\ handling'[p] /\ killw'[p].at = "done"
    PROVE  \E c \in Pid : c = calls[p][Len(calls[p])].child /\ Gone(c)'
<1>a. PICK c \in Pid : c = calls[p][Len(calls[p])].child
  <2>1. calls[p][Len(calls[p])] \in Call
    BY DEF TypeOK
  <2>2. QED BY <2>1 DEF Call
<1>0. /\ c = tet_child[p] /\ c \in Pid /\ c # NoPid /\ st[c] # "none"
      /\ killw[p] \in Killw /\ killw \in [Pid -> Killw]
      /\ Alive(p) => (killw[p].at # "done" <=> Within(p, "killw") \/ handling[p])
  <2>1. NoPid \notin Pid
    BY ForkAssumption DEF NoPid, Pid
  <2>2. c # NoPid /\ c = tet_child[p]
    BY <1>a, <2>1 DEF TetChild
  <2>3. QED BY <2>2 DEF TetChild, TypeOK
<1> SUFFICES ASSUME ~Gone(c)' PROVE FALSE
  BY <1>a
<1>1. st \in [Pid -> {"none", "forked", "running", "stopped", "zombie", "reaped"}]
  BY DEF TypeOK
<1>2. ASSUME NEW place \in {"fork", "parent", "wait", "killw"}, Goto(p, place)
      PROVE  Len(calls'[p]) = Len(calls[p])
  BY <1>2, GotoFacts
<1>3. CASE WaitEnds(p)
  BY <1>0, <1>1, <1>3 DEF WaitEnds, Reap, Gone, Alive
<1>4. CASE KilledEnds(p)
  BY <1>0, <1>1, <1>4 DEF KilledEnds, Done, Gone, Alive, KillwChild
<1>5. CASE KilledFails(p)
  <2>1. CASE Done(p, {}) /\ killw[p].sig = "KILL"
    BY <1>0, <1>5, <2>1, Lives DEF KilledFails, KillwChild
  <2>2. CASE killw' = [killw EXCEPT ![p].sig = "KILL", ![p].at = "kill"] /\ UNCHANGED calls
    <3>1. killw'[p].at = "kill"
      BY <1>0, <2>2 DEF Killw
    <3>2. QED BY <2>2, <3>1
  <2>3. QED BY <1>5, <2>1, <2>2 DEF KilledFails, TryAgain
<1>6. CASE Caught(p)
  BY <1>0, <1>1, <1>6 DEF Caught, Start
<1>7. CASE Killed(p)
  BY <1>0, <1>7 DEF Killed
<1>8. CASE UserExits(p)
  BY <1>8 DEF UserExits, InUserCode, Runs
<1>9. CASE ParentStarts(p) \/ WaitFails(p) \/ ParentprocReturns(p)
  <2>1. UNCHANGED <<st, handling>> /\ st[p] = "running" /\ Len(calls'[p]) = Len(calls[p])
    BY <1>2, <1>9, InACall DEF ParentStarts, WaitFails, ParentprocReturns
  <2>2. QED BY <2>1 DEF Alive
<1>10. CASE ChildStarts(p) \/ Kill(p) \/ Ignored(p) \/ UserIgnores(p) \/ TcmTerminated
  <2>1. UNCHANGED calls /\ (Alive(p) => Alive(p)')
    BY <1>1, <1>10 DEF ChildStarts, Kill, Ignored, UserIgnores, TcmTerminated, Alive
  <2>2. QED BY <2>1, ActorLives
<1>11. CASE UserWaits(p)
  BY <1>1, <1>11 DEF UserWaits, Reap, IsZombieOf, InUserCode, Runs, Alive
<1>12. CASE UserStops(p)
  BY <1>1, <1>12 DEF UserStops, InUserCode, Runs, Alive
<1>13. QED BY <1>3, <1>4, <1>5, <1>6, <1>7, <1>8, <1>9, <1>10, <1>11, <1>12 DEF Other, Api

LEMMA StepNoSurvivor ==
    ASSUME TypeOK, Chain, TetChild, KillwChild, NoSurvivor, NEW p \in Pid, Other(p)
    PROVE  NoSurvivor'
<1> DEFINE current(q) == {calls[q][i].child : i \in DOMAIN calls[q]}
           outer(q)   == {calls[q][i].child : i \in 1..Len(calls[q]) - 1}
<1> SUFFICES ASSUME NEW c \in Pid, NEW q \in Pid, q = parent'[c],
                    Alive(c)', q # NoPid, ~Gone(c)'
             PROVE  /\ Alive(q)' => c \in current(q)'
                    /\ ~Alive(q)' /\ handling'[q] /\ killw'[q].at = "done" => c \in outer(q)'
  <2>1. parent' \in [Pid -> Pid \cup {NoPid}]
    BY Lives DEF TypeOK
  <2>2. QED BY <2>1 DEF NoSurvivor
<1>1. q = parent[c] /\ Alive(c) /\ ~Gone(c)
  BY Lives DEF Alive
<1>2. /\ Alive(q) => c \in current(q)
      /\ ~Alive(q) /\ handling[q] /\ killw[q].at = "done" => c \in outer(q)
  BY <1>1 DEF NoSurvivor
<1>3. CASE q # p
  <2>1. calls'[q] = calls[q] /\ handling'[q] = handling[q] /\ killw'[q] = killw[q]
    <3>1. q \in Pid \ {p}
      BY <1>3
    <3>. HIDE DEF current, outer
    <3>2. QED BY <3>1, Places
  <2>2. Alive(q)' <=> Alive(q)
    <3>1. st'[q] = st[q] \/ (st[q] = "zombie" /\ st'[q] = "reaped")
      BY <1>3, Lives
    <3>2. QED BY <3>1 DEF Alive
  <2>3. QED BY <1>2, <2>1, <2>2
<1>4. CASE q = p
  <2>1. c \in current(p) /\ Alive(p)
    BY <1>2, <1>4, ActorLives
  <2>2. PICK i \in 1..Len(calls[p]) : c = calls[p][i].child
    BY <2>1 DEF TypeOK
  <2>3. calls[p] \in Seq(Call) /\ calls'[p] \in Seq(Call) /\ calls[p] # <<>>
    BY <2>2, Places DEF TypeOK
  <2>4. CASE Alive(p)'
    <3>1. i \in 1..Len(calls'[p])
      <4>1. CASE i = Len(calls[p]) /\ calls'[p] # calls[p]
        BY <2>2, <2>3, <4>1, InnerGone
      <4>2. CASE i < Len(calls[p]) \/ calls'[p] = calls[p]
        BY <2>2, <2>3, <4>2, Places
      <4>3. QED BY <2>2, <2>3, <4>1, <4>2
    <3>2. calls'[p][i].child = c
      BY <2>2, <3>1, Places
    <3>3. QED BY <1>4, <2>3, <2>4, <3>1, <3>2
  <2>5. CASE ~Alive(p)' /\ handling'[p] /\ killw'[p].at = "done"
    <3>1. i # Len(calls[p])
      BY <2>2, <2>3, <2>5, InnerGone
    <3>2. calls'[p] = calls[p]
      <4>1. ~(Runs(p) /\ UNCHANGED handling)
        BY <2>5 DEF Runs
      <4>2. QED BY <4>1, Places
    <3>3. QED BY <1>4, <2>2, <2>3, <2>5, <3>1, <3>2
  <2>6. QED BY <1>4, <2>4, <2>5
<1>5. QED BY <1>3, <1>4

-----------------------------------------------------------------------------
(***************************************************************************)
(* tet_fork() preserves the inductive invariant.                           *)
(***************************************************************************)

(* The values that tet_fork() leaves behind, the new process being c.      *)
Forks(p, c, waittime) ==
    /\ c # p /\ st[p] = "running" /\ ~handling[p]
    /\ st' = [st EXCEPT ![c] = "forked"]
    /\ parent' = [parent EXCEPT ![c] = p]
    /\ tet_child' = [tet_child EXCEPT ![p] = c, ![c] = tet_child[p]]
    /\ \A q \in Pid \ {p} : calls'[q] = calls[q]
    /\ calls' \in [Pid -> Seq(Call)]
    /\ Len(calls'[p]) = Len(calls[p]) + 1 /\ calls'[p] # <<>>
    /\ \A i \in 1..Len(calls[p]) : calls'[p][i] = calls[p][i]
    /\ calls'[p][Len(calls[p]) + 1] = [child |-> c, savchild |-> tet_child[p],
                                       waittime |-> waittime, at |-> "fork"]
    /\ UNCHANGED <<pending, killw, handling>>

LEMMA ForkStep ==
    ASSUME TypeOK, Allocated, NEW p \in Pid, NEW waittime \in WaitTimes, tet_fork(p, waittime)
    PROVE  \E c \in Pid : /\ st[c] = "none" /\ Forks(p, c, waittime)
                          /\ \A q \in Pid : st[q] # "none" <=> q <= c - 1
                          /\ sigterm' = [sigterm EXCEPT ![c] = sigterm[p]]
<1>1. PICK c \in Pid :
        /\ st[c] = "none" /\ c # p
        /\ \A q \in Pid : st[q] # "none" <=> q <= c - 1
        /\ st' = [st EXCEPT ![c] = "forked"]
        /\ parent' = [parent EXCEPT ![c] = p]
        /\ sigterm' = [sigterm EXCEPT ![c] = sigterm[p]]
        /\ tet_child' = [tet_child EXCEPT ![p] = c, ![c] = tet_child[p]]
        /\ calls' = [calls EXCEPT ![p] = Append(@, [child |-> c, savchild |-> tet_child[p],
                                                    waittime |-> waittime, at |-> "fork"])]
        /\ UNCHANGED <<pending, killw, handling>>
  BY ForkFacts
<1> DEFINE call == [child |-> c, savchild |-> tet_child[p], waittime |-> waittime, at |-> "fork"]
<1>2. calls \in [Pid -> Seq(Call)] /\ call \in Call
  BY DEF TypeOK, Call
<1> HIDE DEF call
<1>3. calls' = [calls EXCEPT ![p] = Append(calls[p], call)]
  BY <1>1 DEF call
<1>4. /\ Append(calls[p], call) \in Seq(Call)
      /\ Len(Append(calls[p], call)) = Len(calls[p]) + 1
      /\ \A i \in 1..Len(calls[p]) : Append(calls[p], call)[i] = calls[p][i]
      /\ Append(calls[p], call)[Len(calls[p]) + 1] = call
  BY <1>2
<1>5. Append(calls[p], call) # <<>>
  <2>1. Len(calls[p]) + 1 # 0
    BY <1>2
  <2>2. QED BY <1>4, <2>1
<1>6. calls'[p] = Append(calls[p], call) /\ calls' \in [Pid -> Seq(Call)]
      /\ \A q \in Pid \ {p} : calls'[q] = calls[q]
  BY <1>2, <1>3, <1>4
<1>7. st[p] = "running" /\ ~handling[p]
  BY DEF tet_fork, InUserCode, Runs
<1>8. Forks(p, c, waittime)
  BY <1>1, <1>4, <1>5, <1>6, <1>7 DEF Forks, call
<1>9. QED BY <1>1, <1>8

LEMMA ForkTypeOK ==
    ASSUME TypeOK, NotBegun, NEW p \in Pid, NEW waittime \in WaitTimes, tet_fork(p, waittime),
           NEW c \in Pid, st[c] = "none", Forks(p, c, waittime),
           sigterm' = [sigterm EXCEPT ![c] = sigterm[p]]
    PROVE  TypeOK'
<1>1. Types'
  BY DEF Types, TypeOK, Forks, Disposition
<1>2. OuterInParent'
  <2> SUFFICES ASSUME NEW q \in Pid, NEW i \in 1..Len(calls'[q]) - 1
               PROVE  calls'[q][i].at = "parent"
    BY DEF OuterInParent
  <2>1. CASE q # p
    BY <2>1 DEF Forks, TypeOK
  <2>2. CASE q = p
    <3>1. calls[p] \in Seq(Call) /\ Len(calls'[p]) = Len(calls[p]) + 1
      BY DEF TypeOK, Forks
    <3>2. i \in 1..Len(calls[p])
      BY <2>2, <3>1
    <3>3. calls[p][i].at = "parent"
      <4>1. CASE i = Len(calls[p])
        BY <3>1, <3>2, <4>1 DEF tet_fork, InUserCode, Inner, Last
      <4>2. CASE i # Len(calls[p])
        <5>1. i \in 1..Len(calls[p]) - 1
          BY <3>1, <3>2, <4>2
        <5>2. QED BY <5>1 DEF TypeOK
      <4>3. QED BY <4>1, <4>2
    <3>4. QED BY <2>2, <3>2, <3>3 DEF Forks
  <2>3. QED BY <2>1, <2>2
<1>3. ASSUME NEW q \in Pid
      PROVE  InKillw(q)'
  <2>1. CASE q # p /\ q # c
    <3>1. calls'[q] = calls[q] /\ st'[q] = st[q] /\ UNCHANGED <<killw, handling>>
      BY <2>1 DEF Forks, TypeOK
    <3>2. InKillw(q)
      BY TypeOKParts
    <3>3. QED BY <3>1, <3>2 DEF InKillw, Within, Runs, Inner, Alive
  <2>2. CASE q = c
    <3>1. st'[c] = "forked" /\ killw'[c].at = "done" /\ ~handling'[c]
      BY DEF Forks, TypeOK, NotBegun
    <3>2. QED BY <2>2, <3>1 DEF InKillw, Within, Runs
  <2>3. CASE q = p
    <3>1. killw'[p].at = "done" /\ ~handling'[p]
      BY DEF Forks, TypeOK, tet_fork, InUserCode, Within, Alive
    <3>2. calls'[p][Len(calls'[p])].at = "fork"
      BY DEF Forks
    <3>3. QED BY <2>3, <3>1, <3>2 DEF InKillw, Within, Inner, Last
  <2>4. QED BY <2>1, <2>2, <2>3
<1>4. TypeOK' <=> Types' /\ OuterInParent' /\ \A q \in Pid : InKillw(q)'
  BY DEF TypeOK, Types, OuterInParent, InKillw
<1>5. QED BY <1>1, <1>2, <1>3, <1>4

LEMMA ForkIInv ==
    ASSUME IInv, NEW p \in Pid, NEW waittime \in WaitTimes, tet_fork(p, waittime)
    PROVE  IInv'
<1> USE DEF IInv
<1>1. PICK c \in Pid : /\ st[c] = "none" /\ Forks(p, c, waittime)
                       /\ \A q \in Pid : st[q] # "none" <=> q <= c - 1
                       /\ sigterm' = [sigterm EXCEPT ![c] = sigterm[p]]
  BY ForkStep
<1>2. /\ c # p /\ NoPid \notin Pid /\ st[p] = "running"
      /\ \A q \in Pid : /\ st'[q] = IF q = c THEN "forked" ELSE st[q]
                        /\ parent'[q] = IF q = c THEN p ELSE parent[q]
                        /\ tet_child'[q] = IF q = p THEN c ELSE IF q = c THEN tet_child[p]
                                           ELSE tet_child[q]
                        /\ q # p => calls'[q] = calls[q]
                        /\ calls[q] \in Seq(Call) /\ calls'[q] \in Seq(Call)
  BY <1>1, ForkAssumption DEF Forks, TypeOK, NoPid, Pid
<1>3. TypeOK'
  BY <1>1, ForkTypeOK
<1>4. Allocated'
  <2>1. \A q \in Pid : st'[q] # "none" <=> q <= c
    BY <1>1, <1>2, ForkAssumption DEF Pid
  <2>2. QED BY <2>1 DEF Allocated
<1>5. NotBegun'
  <2> SUFFICES ASSUME NEW q \in Pid
               PROVE  /\ st'[q] \in {"none", "forked"} =>
                              calls'[q] = <<>> /\ \A d \in Pid : parent'[d] # q
                      /\ st'[q] = "none" => /\ tet_child'[q] = NoPid /\ parent'[q] = NoPid
                                            /\ killw'[q].at = "done" /\ ~handling'[q]
    BY DEF NotBegun
  <2>1. ASSUME st'[q] \in {"none", "forked"}
        PROVE  /\ q # p /\ calls'[q] = calls[q] /\ st[q] \in {"none", "forked"}
               /\ \A d \in Pid : parent'[d] # q
    <3>1. q # p /\ st[q] \in {"none", "forked"}
      BY <1>1, <1>2, <2>1
    <3>2. \A d \in Pid : parent[d] # q
      BY <3>1 DEF NotBegun
    <3>3. QED BY <1>2, <3>1, <3>2
  <2>2. killw' = killw /\ handling' = handling
    BY <1>1 DEF Forks
  <2>3. QED BY <1>2, <2>1, <2>2 DEF NotBegun
<1>6. Chain'
  <2> SUFFICES ASSUME NEW q \in Pid, NEW i \in 1..Len(calls'[q])
               PROVE  /\ parent'[calls'[q][i].child] = q
                      /\ st'[calls'[q][i].child] # "none"
                      /\ calls'[q][i].savchild = IF i = 1 THEN NoPid ELSE calls'[q][i - 1].child
    BY DEF Chain
  <2>0. ASSUME NEW j \in 1..Len(calls[q])
        PROVE  /\ calls[q][j].child \in Pid
               /\ parent'[calls[q][j].child] = q /\ st'[calls[q][j].child] # "none"
    <3>1. calls[q][j] \in Call
      BY <1>2
    <3>2. calls[q][j].child \in Pid \ {c}
      BY <1>1, <3>1 DEF Call, Chain
    <3>3. QED BY <1>2, <3>2 DEF Chain
  <2>1. CASE q # p
    BY <1>2, <2>0, <2>1 DEF Chain
  <2>2. CASE q = p /\ i # Len(calls[p]) + 1
    <3>1. i \in 1..Len(calls[p]) /\ (i # 1 => i - 1 \in 1..Len(calls[p]))
      BY <1>1, <1>2, <2>2 DEF Forks
    <3>2. calls'[p][i] = calls[p][i] /\ (i # 1 => calls'[p][i - 1] = calls[p][i - 1])
      BY <1>1, <3>1 DEF Forks
    <3>3. QED BY <2>0, <2>2, <3>1, <3>2 DEF Chain
  <2>3. CASE q = p /\ i = Len(calls[p]) + 1
    <3>1. calls'[p][i].child = c /\ calls'[p][i].savchild = tet_child[p]
      BY <1>1, <2>3 DEF Forks
    <3>2. CASE i = 1
      <4>1. calls[p] = <<>>
        BY <1>2, <2>3, <3>2
      <4>2. QED BY <1>2, <2>3, <3>1, <3>2, <4>1 DEF TetChild
    <3>3. CASE i # 1
      <4>1. calls[p] # <<>> /\ i - 1 = Len(calls[p]) /\ i - 1 \in 1..Len(calls[p])
        BY <1>2, <2>3, <3>3
      <4>2. calls'[p][i - 1] = calls[p][i - 1]
        BY <1>1, <4>1 DEF Forks
      <4>3. QED BY <1>2, <2>3, <3>1, <3>3, <4>1, <4>2 DEF TetChild
    <3>4. QED BY <3>2, <3>3
  <2>4. QED BY <2>1, <2>2, <2>3
<1>7. TetChild'
  <2> SUFFICES ASSUME NEW q \in Pid
               PROVE  /\ calls'[q] # <<>> => tet_child'[q] = calls'[q][Len(calls'[q])].child
                      /\ calls'[q] = <<>> /\ st'[q] \in {"running", "stopped"} => tet_child'[q] = NoPid
                      /\ tet_child'[q] # NoPid => st'[tet_child'[q]] # "none"
    BY DEF TetChild
  <2>0. \A d \in Pid : st[d] # "none" => st'[d] # "none"
    BY <1>2
  <2>1. CASE q = p
    <3>1. tet_child'[p] = c /\ st'[c] = "forked"
      BY <1>2
    <3>2. calls'[p] # <<>> /\ calls'[p][Len(calls'[p])].child = c
      BY <1>1 DEF Forks
    <3>3. QED BY <2>1, <3>1, <3>2
  <2>2. CASE q = c
    <3>1. calls'[c] = <<>> /\ st'[c] = "forked" /\ tet_child'[c] = tet_child[p]
      BY <1>1, <1>2 DEF NotBegun
    <3>2. tet_child[p] # NoPid => st[tet_child[p]] # "none" /\ tet_child[p] \in Pid
      BY DEF TetChild, TypeOK
    <3>3. QED BY <2>0, <2>2, <3>1, <3>2
  <2>3. CASE q # p /\ q # c
    <3>1. tet_child'[q] = tet_child[q] /\ calls'[q] = calls[q] /\ st'[q] = st[q]
      BY <1>2, <2>3
    <3>2. tet_child[q] # NoPid => st[tet_child[q]] # "none" /\ tet_child[q] \in Pid
      BY DEF TetChild, TypeOK
    <3>3. QED BY <2>0, <3>1, <3>2 DEF TetChild
  <2>4. QED BY <2>1, <2>2, <2>3
<1>8. KillwChild'
  <2> SUFFICES ASSUME NEW q \in Pid
               PROVE  /\ killw[q].at # "done" => tet_child'[q] # NoPid /\ killw[q].child = tet_child'[q]
                      /\ killw[q].at = "wait" /\ killw[q].sig = "KILL" => Gone(killw[q].child)'
    BY <1>1 DEF KillwChild, Forks
  <2>1. CASE killw[q].at = "done"
    BY <2>1
  <2>2. CASE killw[q].at # "done"
    <3>1. q # c /\ q # p
      BY <1>1, <2>2 DEF NotBegun, TypeOK, tet_fork, InUserCode, Within, Runs, Alive
    <3>2. /\ tet_child'[q] = tet_child[q] /\ tet_child[q] # NoPid /\ killw[q].child = tet_child[q]
          /\ tet_child[q] \in Pid /\ st[tet_child[q]] # "none"
      BY <1>2, <2>2, <3>1 DEF KillwChild, TetChild, TypeOK
    <3>3. killw[q].child # c /\ killw[q].child \in Pid
      BY <1>1, <3>2
    <3>4. Gone(killw[q].child) => ~(st'[killw[q].child] \in {"forked", "running", "stopped"})
                                  \/ "KILL" \in pending'[killw[q].child]
      BY <1>1, <1>2, <3>3 DEF Gone, Alive, Forks
    <3>5. killw' = killw
      BY <1>1 DEF Forks
    <3>6. QED BY <3>2, <3>4, <3>5 DEF Gone, Alive, KillwChild
  <2>3. QED BY <2>1, <2>2
<1>9. NoSurvivor'
  <2> DEFINE current(q) == {calls[q][i].child : i \in DOMAIN calls[q]}
             outer(q)   == {calls[q][i].child : i \in 1..Len(calls[q]) - 1}
  <2> SUFFICES ASSUME NEW d \in Pid, NEW q \in Pid, q = parent'[d],
                      Alive(d)', q # NoPid, ~Gone(d)'
               PROVE  /\ Alive(q)' => d \in current(q)'
                      /\ ~Alive(q)' /\ handling'[q] /\ killw'[q].at = "done" => d \in outer(q)'
    <3>1. \A d \in Pid : parent'[d] \in Pid \cup {NoPid}
      BY <1>3 DEF TypeOK
    <3>2. QED BY <3>1 DEF NoSurvivor
  <2>1. CASE d = c
    <3>1. q = p /\ Alive(p)'
      BY <1>2, <2>1 DEF Alive
    <3>2. Len(calls[p]) + 1 \in DOMAIN calls'[p] /\ calls'[p][Len(calls[p]) + 1].child = c
      BY <1>1, <1>2 DEF Forks
    <3>3. QED BY <2>1, <3>1, <3>2
  <2>2. CASE d # c
    <3>1. q = parent[d] /\ Alive(d) /\ ~Gone(d)
      BY <1>1, <1>2, <2>2 DEF Alive, Gone, Forks
    <3>2. q # c
      BY <1>1, <3>1 DEF NotBegun
    <3>3. Alive(q)' <=> Alive(q)
      BY <1>2, <3>2 DEF Alive
    <3>4. /\ Alive(q) => d \in current(q)
          /\ ~Alive(q) /\ handling[q] /\ killw[q].at = "done" => d \in outer(q)
      BY <3>1 DEF NoSurvivor
    <3>5. CASE q # p
      BY <1>1, <1>2, <3>3, <3>4, <3>5 DEF Forks
    <3>6. CASE q = p
      <4>1. Alive(p) /\ Alive(p)'
        BY <1>2, <3>3, <3>6 DEF Alive
      <4>2. PICK i \in DOMAIN calls[p] : d = calls[p][i].child
        BY <3>4, <3>6, <4>1
      <4>3. i \in 1..Len(calls[p]) /\ i \in DOMAIN calls'[p]
        BY <1>1, <1>2, <4>2 DEF Forks
      <4>4. calls'[p][i].child = d
        BY <1>1, <4>2, <4>3 DEF Forks
      <4>5. QED BY <3>6, <4>1, <4>3, <4>4
    <3>7. QED BY <3>5, <3>6
  <2>3. QED BY <2>1, <2>2
<1>10. QED BY <1>3, <1>4, <1>5, <1>6, <1>7, <1>8, <1>9

-----------------------------------------------------------------------------
(***************************************************************************)
(* The theorems.                                                           *)
(***************************************************************************)

LEMMA InitIInv == Init => IInv
<1> SUFFICES ASSUME Init PROVE IInv
  OBVIOUS
<1>1. TP \in Pid /\ NoPid \notin Pid /\ \A q \in Pid : q <= TP <=> q = TP
  BY ForkAssumption DEF TP, Pid, NoPid
<1>2. TypeOK
  BY <1>1 DEF Init, TypeOK, Killw, Disposition, NoPid, Alive, Within
<1>3. Allocated
  BY <1>1 DEF Init, Allocated
<1>4. NotBegun
  BY <1>1 DEF Init, NotBegun
<1>5. Chain
  BY DEF Init, Chain
<1>6. TetChild /\ KillwChild
  BY DEF Init, TetChild, KillwChild
<1>7. NoSurvivor
  BY <1>1 DEF Init, NoSurvivor
<1>8. QED BY <1>2, <1>3, <1>4, <1>5, <1>6, <1>7 DEF IInv

LEMMA NextIInv == IInv /\ [Next]_vars => IInv'
<1>1. ASSUME IInv, UNCHANGED vars PROVE IInv'
  <2>1. TypeOK'
    BY <1>1 DEF vars, IInv, TypeOK, Alive, Within, Runs, Inner
  <2>2. (Allocated /\ NotBegun /\ Chain /\ TetChild)'
    BY <1>1 DEF vars, IInv, Allocated, NotBegun, Chain, TetChild
  <2>3. (KillwChild /\ NoSurvivor)'
    BY <1>1 DEF vars, IInv, KillwChild, NoSurvivor, Gone, Alive
  <2>4. QED BY <2>1, <2>2, <2>3 DEF IInv
<1>2. ASSUME IInv, NEW p \in Pid, Other(p) PROVE IInv'
  <2>1. TypeOK'
    <3>1. Types' /\ OuterInParent' /\ \A q \in Pid : InKillw(q)'
      BY <1>2, StepTypes, StepOuterInParent, StepInKillw DEF IInv
    <3>2. QED BY <3>1 DEF TypeOK, Types, OuterInParent, InKillw
  <2>2. QED BY <1>2, <2>1, StepAllocated, StepNotBegun, StepChain, StepTetChild, StepKillwChild,
               StepNoSurvivor DEF IInv
<1>3. TP \in Pid
  BY ForkAssumption DEF TP, Pid
<1>4. QED BY <1>1, <1>2, <1>3, ForkIInv DEF Next, User, Other

(* The invariant that the properties follow from, of every reachable state. *)
THEOREM Invariant == Spec => []IInv
BY InitIInv, NextIInv, PTL DEF Spec

(* The variables have their types; a process that has called tet_killw()   *)
(* is where tet_fork() or a handler of SIGTERM calls it.                   *)
THEOREM ForkTypeCorrect == Spec => []TypeOK
<1>1. IInv => TypeOK
  BY DEF IInv
<1>2. QED BY <1>1, Invariant, PTL

(* tet_child is the child of the innermost call of tet_fork(), however the *)
(* calls within it returned, and tet_killw() signals the caller's own      *)
(* child, except in a process that SIGTERM reaches before it has run.      *)
THEOREM ForkOwnChild == Spec => []OwnChild
<1>1. IInv => OwnChild
  <2> SUFFICES ASSUME IInv, NEW p \in Pid, Alive(p)
               PROVE  /\ calls[p] # <<>> => tet_child[p] = Inner(p).child
                      /\ calls[p] = <<>> /\ st[p] # "forked" => tet_child[p] = NoPid
                      /\ killw[p].at # "done" => parent[killw[p].child] = p \/ st[p] = "forked"
    BY DEF OwnChild
  <2>1. calls[p] # <<>> => tet_child[p] = Inner(p).child
    BY DEF IInv, TetChild, Inner, Last
  <2>2. calls[p] = <<>> /\ st[p] # "forked" => tet_child[p] = NoPid
    BY DEF IInv, TetChild, Alive
  <2>3. ASSUME calls[p] # <<>> PROVE parent[tet_child[p]] = p
    <3>1. Len(calls[p]) \in 1..Len(calls[p])
      BY <2>3 DEF IInv, TypeOK
    <3>2. QED BY <2>3, <3>1 DEF IInv, TetChild, Chain
  <2>4. QED BY <2>1, <2>2, <2>3 DEF IInv, KillwChild
<1>2. QED BY <1>1, Invariant, PTL

(* When tet_fork() has returned, or the process has died of a SIGTERM that *)
(* it caught, the child of that call is dead or has been sent SIGKILL.     *)
THEOREM ForkNoSurvivor == Spec => []NoSurvivor
<1>1. IInv => NoSurvivor
  BY DEF IInv
<1>2. QED BY <1>1, Invariant, PTL
=============================================================================
