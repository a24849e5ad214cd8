-------------------------------- MODULE Tcm --------------------------------
(***************************************************************************)
(* The test case managers (TCMs) of a distributed test case, one on each   *)
(* system (src/tet3/tcm: dtcm.c, ictp.c).  They go through the same list   *)
(* of invocable components (ICs) and test purposes (TPs), and keep in step *)
(* by auto syncs, for which SYNCD is the meeting place; the master TCM     *)
(* also tells XRESD where the test is.                                     *)
(*                                                                         *)
(* SYNCD's part is what it does for one auto sync entry (see Syncd for the *)
(* daemon itself), XRESD's part whether an IC and a TP are in progress and *)
(* whether a result's action is to abort the test case (see Xresd).        *)
(***************************************************************************)
EXTENDS Integers, FiniteSets, FiniteSetsExt

CONSTANTS
    TCM,            \* the TCMs
    Master,         \* the MTCM: the one on the first system in the list
    Zero,           \* the TCM on system 0, or any other value
    NIC,            \* the ICs are 1..NIC ...
    tpcount,        \* ... with so many TPs each
    Deletable,      \* the TPs that the test case may delete
    MayAbort,       \* is there a result code whose action is Abort?
    MaxDead,        \* bound: TCMs that die
    MaxTimeouts     \* bound: auto syncs that time out

TP == UNION {{<<i, n>> : n \in 1..tpcount[i]} : i \in 1..NIC}

S_TPMAX == 32768                                            \* 2^S_TPBITS
SPMAX == 2147483647

ASSUME TcmAssumption ==
    /\ IsFiniteSet(TCM)
    /\ Master \in TCM
    /\ NIC \in Nat /\ NIC < S_TPMAX - 2
    /\ tpcount \in [1..NIC -> 1..(S_TPMAX - 2)]
    /\ Deletable \subseteq TP
    /\ MayAbort \in BOOLEAN
    /\ MaxDead \in Nat /\ MaxTimeouts \in Nat

VARIABLES
    pc,             \* the sync to be made or waited for, "run" or "exit"
    ic, tp,         \* the current IC and TP of each TCM
    deleted,        \* the TPs that are deleted in each TCM
    tet_XSync_del,  \* "true when a TP is deleted on another system"
    reply,          \* SYNCD's answer to each TCM's auto sync request
    cleaned,        \* TCMs that have called tet_cleanup()
    failed,         \* TCMs that have exited because of an error
    ud,             \* SYNCD: the TCMs' states and sync point numbers
    lastspno,       \* SYNCD: st_lastspno
    xr,             \* XRESD: what is in progress
    vetoed,         \* history: TPs for which some TCM voted NO
    ran,            \* history: the TPs invoked by each TCM ...
    notrun,         \* history: ... and those reported as UNINITIATED
    lost,           \* history: results that XRESD refused
    dead, timeouts  \* bounds: deaths and timeouts so far

tcmvars == <<pc, ic, tp, deleted, tet_XSync_del, cleaned, failed>>
sdvars == <<reply, ud, lastspno>>
history == <<vetoed, ran, notrun, lost>>
vars == <<tcmvars, sdvars, xr, history, dead, timeouts>>

-----------------------------------------------------------------------------
(* MK_ASPNO(): the sync point numbers of ICs and TPs, in their order; the  *)
(* mask makes -1 the highest number of a TP.                               *)
MK_ASPNO(icno, tpno, flag) ==
    (icno + 1) * 2 * S_TPMAX + ((tpno + S_TPMAX) % S_TPMAX) * 2 + flag

S_START == 0                                    \* S_ICSTART, S_TPSTART
S_END == 1                                      \* S_ICEND, S_TPEND
SV_EXEC_SPNO == 1
tet_iclast == NIC

-----------------------------------------------------------------------------
(***************************************************************************)
(* SYNCD: an event happens when every TCM has voted or is dead, or when a  *)
(* TCM's timeout expires.  It is the event of the lowest sync point asked  *)
(* for, except that all future events end with it when a TCM is dead.      *)
(***************************************************************************)
Voted(u) == u.state \in {"SYNCYES", "SYNCNO", "TIMEDOUT"}

\* mutant: one vote short
HappenedShort(d) == \/ \E t \in TCM : d[t].state = "TIMEDOUT"
                    \/ Cardinality({t \in TCM : d[t].state = "NOTSYNCED"}) <= 1
Happened(d) == \/ \E t \in TCM : d[t].state = "TIMEDOUT"
               \/ \A t \in TCM : d[t].state # "NOTSYNCED"

\* mutant: the highest sync point
EventSpnoMax(d) == LET S == {d[t].spno : t \in {u \in TCM : Voted(d[u])}}
                   IN  IF S = {} THEN 0 ELSE Max(S)
EventSpno(d) == LET S == {d[t].spno : t \in {u \in TCM : Voted(d[u])}}
                IN  IF S = {} THEN 0 ELSE Min(S)

Failure(d) == \E t \in TCM : d[t].state \in {"SYNCNO", "DEAD", "TIMEDOUT"}

LastSpno(d) == IF \E t \in TCM : d[t].state = "DEAD" THEN SPMAX ELSE EventSpno(d)

NoReply == [rc |-> "none", state |-> [t \in TCM |-> "NOTSYNCED"]]
Waiting == [NoReply EXCEPT !.rc = "wait"]

synmsg(d, t) ==
    [rc |-> IF ~Failure(d) THEN "OK"
            ELSE IF d[t].state = "TIMEDOUT" THEN "TIMEDOUT" ELSE "SYNCERR",
     state |-> [u \in TCM |-> IF Failure(d) THEN d[u].state ELSE "NOTSYNCED"]]

UserAfter(d, t) ==
    CASE Voted(d[t]) /\ d[t].spno <= EventSpno(d) -> [d[t] EXCEPT !.state = "NOTSYNCED"]
      [] d[t].state = "NOTSYNCED" /\ (\E u \in TCM : d[u].state = "TIMEDOUT") ->
            [d[t] EXCEPT !.ntimedout = @ + 1]
      [] OTHER -> d[t]

(* stcheck(), stservice(): the entry has become d, and r the replies.      *)
stcheck(d, r) ==
    IF Happened(d)
    THEN /\ lastspno' = LastSpno(d)
         /\ ud' = [t \in TCM |-> UserAfter(d, t)]
         /\ reply' = [t \in TCM |->
                        IF r[t].rc = "wait" /\ Voted(d[t]) /\ d[t].spno <= LastSpno(d)
                        THEN synmsg(d, t) ELSE r[t]]
    ELSE ud' = d /\ reply' = r /\ UNCHANGED lastspno

(* op_async(): a vote, or the news that the event has timed out already.   *)
op_async(t, spno, vote) ==
    IF ud[t].ntimedout > 0 /\ spno <= lastspno
    THEN /\ ud' = [ud EXCEPT ![t].ntimedout = @ - 1]
         /\ reply' = [reply EXCEPT ![t].rc = "DONE"]
         /\ UNCHANGED lastspno
    ELSE stcheck([ud EXCEPT ![t] = [state |-> vote, spno |-> spno, ntimedout |-> 0]],
                 [reply EXCEPT ![t] = Waiting])

stdead(t) == stcheck([ud EXCEPT ![t].state = "DEAD"], [reply EXCEPT ![t] = NoReply])

-----------------------------------------------------------------------------
Init ==
    /\ pc = [t \in TCM |-> "exec"]
    /\ ic = [t \in TCM |-> 0] /\ tp = [t \in TCM |-> 0]
    /\ deleted = [t \in TCM |-> {}]
    /\ tet_XSync_del = [t \in TCM |-> FALSE]
    /\ reply = [t \in TCM |-> NoReply]
    /\ cleaned = {} /\ failed = {}
    /\ ud = [t \in TCM |-> [state |-> "NOTSYNCED", spno |-> 0, ntimedout |-> 0]]
    /\ lastspno = 0
    /\ xr = [ic |-> 0, tp |-> 0, abort |-> FALSE]
    /\ vetoed = {}
    /\ ran = [t \in TCM |-> {}] /\ notrun = [t \in TCM |-> {}]
    /\ lost = FALSE
    /\ dead = 0 /\ timeouts = 0

This(t) == <<ic[t], tp[t]>>
tet_reason(t) == This(t) \in deleted[t]

(* The sync point and the vote at each place where a TCM syncs.            *)
Sites == {"exec", "startup", "icstart", "tpstart", "tpend", "abort", "cleanup"}

Spno(t) ==
    CASE pc[t] = "exec" -> SV_EXEC_SPNO
      [] pc[t] = "startup" -> MK_ASPNO(-1, 1, S_START)
      [] pc[t] = "icstart" -> MK_ASPNO(ic[t], 0, S_START)
      [] pc[t] = "tpstart" -> MK_ASPNO(ic[t], tp[t], S_START)
      [] pc[t] = "tpend" -> MK_ASPNO(ic[t], tp[t], S_END)
      [] pc[t] = "abort" -> MK_ASPNO(tet_iclast, -1, S_END)
      [] pc[t] = "cleanup" -> MK_ASPNO(tet_iclast + 1, 1, S_START)

\* mutant: a TP that is deleted here is not announced to the others
VoteYes(t) == IF pc[t] = "abort" THEN "SYNCNO" ELSE "SYNCYES"
Vote(t) == IF pc[t] = "abort" \/ (pc[t] = "tpstart" /\ tet_reason(t)) THEN "SYNCNO"
                                                                    ELSE "SYNCYES"

(* Before the sync, the MTCM tells XRESD of the start of an IC or a TP.    *)
\* mutant: XRESD hears of the start of a TP only at its end
TellStartLate(t) == xr' = IF t = Master /\ pc[t] = "icstart" THEN [xr EXCEPT !.ic = ic[t]]
                          ELSE IF t = Master /\ pc[t] = "tpend" THEN [xr EXCEPT !.tp = tp[t]]
                          ELSE xr
TellStart(t) == xr' = IF t = Master /\ pc[t] = "icstart" THEN [xr EXCEPT !.ic = ic[t]]
                      ELSE IF t = Master /\ pc[t] = "tpstart" THEN [xr EXCEPT !.tp = tp[t]]
                      ELSE xr

tet_tcm_async(t) ==
    /\ pc[t] \in Sites
    /\ reply[t].rc = "none"
    /\ TellStart(t)
    /\ op_async(t, Spno(t), Vote(t))
    /\ vetoed' = IF pc[t] = "tpstart" /\ tet_reason(t) THEN vetoed \cup {This(t)} ELSE vetoed
    /\ UNCHANGED <<tcmvars, ran, notrun, lost, dead, timeouts>>

-----------------------------------------------------------------------------
(***************************************************************************)
(* What a TCM does with the reply.                                         *)
(***************************************************************************)
Got(t, site, RC) == pc[t] = site /\ reply[t].rc \in RC

Errors == {"SYNCERR", "TIMEDOUT"}
Bad == Errors \cup {"DONE"}

Consumed(t) == reply' = [reply EXCEPT ![t] = NoReply] /\ UNCHANGED <<ud, lastspno>>
Goto(t, site) == pc' = [pc EXCEPT ![t] = site]

(* tet_exit(): the TCM logs off from SYNCD.                                *)
Exit(t) == Goto(t, "exit") /\ stdead(t)

ExitFailure(t) ==
    /\ Exit(t)
    /\ failed' = failed \cup {t}
    /\ UNCHANGED <<ic, tp, deleted, tet_XSync_del, cleaned>>

OthersVoted(t, S) == \A u \in TCM \ {t} : reply[t].state[u] \in S

(* The sync failed in a way that the site does not expect.                 *)
\* mutant: a NO vote is an error
ExpectedYes == {"SYNCYES"}
Expected == {"SYNCYES", "SYNCNO"}

Unexpected(t) ==
    \/ Got(t, "exec", Bad) \/ Got(t, "startup", Bad) \/ Got(t, "cleanup", Bad)
    \/ pc[t] \in Sites /\ reply[t].rc = "DONE"
    \/ /\ Got(t, "icstart", Errors)
       /\ \E u \in TCM \ {t} : /\ reply[t].state[u] # "SYNCYES"
                               /\ ~(reply[t].state[u] = "SYNCNO" /\ u = Zero)
    \/ pc[t] \in {"tpstart", "abort"} /\ reply[t].rc \in Errors
       /\ ~OthersVoted(t, Expected)
    \/ Got(t, "tpend", Errors) /\ t # Master

SyncError(t) ==
    /\ Unexpected(t)
    /\ ExitFailure(t)
    /\ UNCHANGED <<xr, history, dead, timeouts>>

(* After the TP or the startup function: the next IC, if there is one.     *)
\* mutant: one IC too many
NextIcAnyway(t) ==
    /\ ic' = [ic EXCEPT ![t] = IF @ <= NIC THEN @ + 1 ELSE @]
    /\ tp' = [tp EXCEPT ![t] = 0]
    /\ Goto(t, IF ic[t] <= NIC THEN "icstart" ELSE "cleanup")
NextIc(t) ==
    /\ ic' = [ic EXCEPT ![t] = IF @ < NIC THEN @ + 1 ELSE @]
    /\ tp' = [tp EXCEPT ![t] = 0]
    /\ Goto(t, IF ic[t] < NIC THEN "icstart" ELSE "cleanup")

(* Test case code may delete TPs, and take the deletion back.              *)
tet_delete(t) == \E D \in SUBSET Deletable : deleted' = [deleted EXCEPT ![t] = D]

Started(t) ==
    /\ Got(t, "exec", {"OK"})
    /\ Consumed(t) /\ Goto(t, "startup")
    /\ UNCHANGED <<ic, tp, deleted, tet_XSync_del, cleaned, failed, xr, history, dead, timeouts>>

tet_startup(t) ==
    /\ Got(t, "startup", {"OK"})
    /\ Consumed(t)
    /\ tet_delete(t)
    /\ NextIc(t)
    /\ UNCHANGED <<tet_XSync_del, cleaned, failed, xr, history, dead, timeouts>>

icstart2(t) ==
    /\ Got(t, "icstart", {"OK"})
    /\ Consumed(t) /\ Goto(t, "tpstart")
    /\ tp' = [tp EXCEPT ![t] = 1]
    /\ UNCHANGED <<ic, deleted, tet_XSync_del, cleaned, failed, xr, history, dead, timeouts>>

(* The MTCM, being system 0, has voted NO: the test case is to be aborted. *)
icstartAborted(t) ==
    /\ Got(t, "icstart", Errors) /\ ~Unexpected(t)
    /\ Consumed(t) /\ Goto(t, "cleanup")
    /\ UNCHANGED <<ic, tp, deleted, tet_XSync_del, cleaned, failed, xr, history, dead, timeouts>>

(* tet_result(): XRESD accepts results while a TP is in progress.          *)
InProgress(t) == xr.ic = ic[t] /\ xr.tp = tp[t]
tet_result(t) == lost' = (lost \/ ~InProgress(t))

(* tpstart2() and call_1tp(): a NO vote means that the TP has been deleted *)
(* in another TCM.                                                         *)
XSyncDel(t) == tet_XSync_del[t] \/ (reply[t].rc \in Errors /\ ~OthersVoted(t, {"SYNCYES"}))

ReadyForTp(t) == Got(t, "tpstart", {"OK"} \cup Errors) /\ ~Unexpected(t)

Uninitiated(t) ==
    /\ ReadyForTp(t)
    /\ tet_reason(t) \/ XSyncDel(t)
    /\ tet_result(t)
    /\ notrun' = [notrun EXCEPT ![t] = @ \cup {This(t)}]
    /\ tet_XSync_del' = [tet_XSync_del EXCEPT ![t] = XSyncDel(t) /\ tet_reason(t)]
    /\ Consumed(t) /\ Goto(t, "tpend")
    /\ UNCHANGED <<ic, tp, deleted, cleaned, failed, xr, vetoed, ran, dead, timeouts>>

tet_invoketp(t) ==
    /\ ReadyForTp(t)
    /\ ~tet_reason(t) /\ ~XSyncDel(t)
    /\ ran' = [ran EXCEPT ![t] = @ \cup {This(t)}]
    /\ Consumed(t) /\ Goto(t, "run")
    /\ UNCHANGED <<ic, tp, deleted, tet_XSync_del, cleaned, failed, xr, vetoed, notrun, lost,
                   dead, timeouts>>

(* The test purpose reports a result and returns.                          *)
TpReturns(t) ==
    /\ pc[t] = "run"
    /\ tet_delete(t)
    /\ \E abort \in IF MayAbort THEN BOOLEAN ELSE {FALSE} :
         xr' = [xr EXCEPT !.abort = @ \/ (abort /\ InProgress(t))]
    /\ tet_result(t)
    /\ Goto(t, "tpend")
    /\ UNCHANGED <<ic, tp, tet_XSync_del, cleaned, failed, sdvars, vetoed, ran, notrun,
                   dead, timeouts>>

(* tpend2(), call_tps(): in the MTCM, XRESD is told of the end of the TP   *)
(* whatever became of the sync; it may say that the test is to be aborted. *)
\* mutant: the next TP is the same one
NextTpSame(t) ==
    IF tp[t] < tpcount[ic[t]]
    THEN Goto(t, "tpstart") /\ UNCHANGED <<ic, tp>>
    ELSE NextIc(t)
NextTp(t) ==
    IF tp[t] < tpcount[ic[t]]
    THEN /\ tp' = [tp EXCEPT ![t] = @ + 1] /\ Goto(t, "tpstart")
         /\ UNCHANGED ic
    ELSE NextIc(t)

AfterTp(t) ==
    /\ NextTp(t) /\ Consumed(t)
    /\ UNCHANGED <<deleted, tet_XSync_del, cleaned, failed>>

tpend2(t) ==
    /\ Got(t, "tpend", {"OK"}) /\ t # Master
    /\ AfterTp(t)
    /\ UNCHANGED <<xr, history, dead, timeouts>>

TpEnded == [xr EXCEPT !.tp = 0]
IcEnded(x) == [x EXCEPT !.ic = 0]

mtcm_tpend2(t) ==
    /\ Got(t, "tpend", {"OK"} \cup Errors) /\ t = Master
    /\ IF xr.abort
       THEN /\ xr' = IcEnded(TpEnded)
            /\ Consumed(t) /\ Goto(t, "abort")
            /\ UNCHANGED <<ic, tp, deleted, tet_XSync_del, cleaned, failed>>
       ELSE IF reply[t].rc = "OK"
       THEN /\ xr' = IF tp[t] < tpcount[ic[t]] THEN TpEnded ELSE IcEnded(TpEnded)
            /\ AfterTp(t)
       ELSE xr' = TpEnded /\ ExitFailure(t)
    /\ UNCHANGED <<history, dead, timeouts>>

(* The sync of mtcm_tpend2(): the other TCMs are still alive.              *)
Aborted(t) ==
    /\ Got(t, "abort", {"OK"} \cup Errors) /\ ~Unexpected(t)
    /\ Consumed(t) /\ Goto(t, "cleanup")
    /\ UNCHANGED <<ic, tp, deleted, tet_XSync_del, cleaned, failed, xr, history, dead, timeouts>>

tet_docleanup(t) ==
    /\ Got(t, "cleanup", {"OK"})
    /\ cleaned' = cleaned \cup {t}
    /\ Exit(t)
    /\ UNCHANGED <<ic, tp, deleted, tet_XSync_del, failed, xr, history, dead, timeouts>>

-----------------------------------------------------------------------------
(* A TCM dies, by SIGTERM or in any other way: it logs off, or its         *)
(* connection to SYNCD is closed.  (On SIGTERM it calls tet_cleanup()      *)
(* before it does, without any sync: "cleaned" is about tet_docleanup()    *)
(* alone.)                                                                 *)
Die(t) ==
    /\ pc[t] # "exit"
    /\ dead < MaxDead
    /\ dead' = dead + 1
    /\ Exit(t)
    /\ UNCHANGED <<ic, tp, deleted, tet_XSync_del, cleaned, failed, xr, history, timeouts>>

(* SYNCD: a TCM has waited for too long.                                   *)
TimeOut(t) ==
    /\ reply[t].rc = "wait"
    /\ timeouts < MaxTimeouts
    /\ timeouts' = timeouts + 1
    /\ stcheck([ud EXCEPT ![t].state = "TIMEDOUT"], reply)
    /\ UNCHANGED <<tcmvars, xr, history, dead>>

Finished == (\A t \in TCM : pc[t] = "exit") /\ UNCHANGED vars

Step(t) ==
    \/ tet_tcm_async(t) \/ SyncError(t)
    \/ Started(t) \/ tet_startup(t) \/ icstart2(t) \/ icstartAborted(t)
    \/ Uninitiated(t) \/ tet_invoketp(t) \/ TpReturns(t)
    \/ tpend2(t) \/ mtcm_tpend2(t) \/ Aborted(t) \/ tet_docleanup(t)

Next == Finished \/ \E t \in TCM : Step(t) \/ Die(t) \/ TimeOut(t)

Spec == Init /\ [][Next]_vars

(* Each TCM runs, and its test purposes return.                            *)
FairSpec == Spec /\ \A t \in TCM : WF_vars(Step(t))

-----------------------------------------------------------------------------
(***************************************************************************)
(* Properties                                                              *)
(***************************************************************************)
UserState == {"NOTSYNCED", "SYNCYES", "SYNCNO", "TIMEDOUT", "DEAD"}

(* The variables are of their types.                                       *)
TypeOK ==
    /\ pc \in [TCM -> Sites \cup {"run", "exit"}]
    /\ ic \in [TCM -> 0..NIC] /\ tp \in [TCM -> Nat]
    /\ deleted \in [TCM -> SUBSET Deletable]
    /\ tet_XSync_del \in [TCM -> BOOLEAN]
    /\ reply \in [TCM -> [rc : {"none", "wait", "OK"} \cup Bad, state : [TCM -> UserState]]]
    /\ cleaned \subseteq TCM /\ failed \subseteq TCM
    /\ ud \in [TCM -> [state : UserState, spno : 0..SPMAX, ntimedout : Nat]]
    /\ lastspno \in 0..SPMAX
    /\ xr \in [ic : 0..NIC, tp : Nat, abort : BOOLEAN]
    /\ vetoed \subseteq TP /\ lost \in BOOLEAN
    /\ ran \in [TCM -> SUBSET TP] /\ notrun \in [TCM -> SUBSET TP]
    /\ dead \in 0..MaxDead /\ timeouts \in 0..MaxTimeouts

(* The parts of a test purpose run together: two TCMs that are in a test   *)
(* purpose are in the same one (tpstart2(), tpend2()).                     *)
InStep == \A t, u \in TCM : pc[t] = "run" /\ pc[u] = "run" => This(t) = This(u)

(* A test purpose that some TCM has deleted is invoked by no TCM.          *)
DeletedNotInvoked == \A t \in TCM : ran[t] \cap vetoed = {}

(* XRESD gets each result while the test purpose it belongs to is in       *)
(* progress, although MTCM and STCMs talk to it separately; unless a sync  *)
(* has timed out, or the test case is being aborted.                       *)
NoResultLost == timeouts = 0 /\ ~xr.abort => ~lost

(* A TCM calls the user's cleanup function only when all the others are    *)
(* through with their test purposes.                                       *)
CleanupIsLast ==
    [][cleaned' # cleaned => \A t \in TCM : pc[t] \in {"cleanup", "exit"}]_vars

(* No TCM gives up unless one has died, a sync has timed out, or the test  *)
(* case has been aborted.                                                  *)
ErrorHasCause == failed # {} => dead > 0 \/ timeouts > 0 \/ xr.abort

(* Whatever dies or times out, every TCM comes to its end.                 *)
AllExit == <>(\A t \in TCM : pc[t] = "exit")

(* What ictp.c:167-168 says of tet_XSync_del: a test purpose is reported   *)
(* as UNINITIATED only if it has been deleted somewhere, when all is well. *)
UninitiatedIsDeleted == ~xr.abort => \A t \in TCM : notrun[t] \subseteq vetoed

(* What ictp.c:243-244 and 262-263 say of an abort: the other TCMs learn   *)
(* of it at their next sync, clean up and exit, with no error if nobody    *)
(* has died and no sync has timed out.                                     *)
AbortIsClean == dead = 0 /\ timeouts = 0 => failed = {}
=============================================================================
