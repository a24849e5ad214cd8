------------------------------- MODULE Xresd -------------------------------
(***************************************************************************)
(* The TETware execution results daemon, tetxresd (src/tet3/xresd).        *)
(*                                                                         *)
(* For each test case the TCC opens an execution results file, which gets  *)
(* an XRID, and tells the daemon which systems take part.  The TCMs of     *)
(* these systems log on and name the XRID they report to.  The master TCM  *)
(* (MTCM) brackets invocable components (IC) and test purposes (TP); every *)
(* TCM registers results for the current TP, and when the TP ends the      *)
(* daemon writes the consolidated result.  When the last TCM has gone the  *)
(* daemon ends what is still in progress and, if the TCC has gone as well, *)
(* removes the entry.                                                      *)
(*                                                                         *)
(* The daemon is one thread and never blocks on a request: each action is  *)
(* a request with its reply, or a connection that opens or closes.         *)
(* Writing to an open file and allocating memory succeed in this model.    *)
(***************************************************************************)
EXTENDS Integers, Sequences, FiniteSets, SequencesExt

CONSTANTS
    Proc,           \* process table slots: the clients that may connect
    NoProc,         \* the null ptab pointer
    ptr_sysid,      \* the system each client logs on from ...
    ptr_ptype,      \* ... and its process type
    SysLists,       \* system lists the TCC may send with OP_XRSYS
    Results,        \* TP results a TCM may send with OP_RESULT
    AbortOn,        \* results whose action in the codes file is Abort
    XRIDMAX,        \* bound: files opened
    TFIDMAX,        \* bound: transfer files opened
    MaxLines,       \* bound: no IC or TP starts in a file this long
    MaxGiven,       \* bound: different results a system registers for a TP
    Reconnect       \* bound: may a slot be used again by a new client?

Low    == {"UNSUPPORTED", "NOTINUSE", "UNTESTED"}
High   == {"UNRESOLVED", "UNINITIATED"}
Tcm    == {"MTCM", "STCM"}
Codes  == {"IC_START", "IC_END", "TP_START", "TP_RESULT"}

\* The codes 0 to 6 have names of their own, NORESULT is the API's; any other
\* code in 0..127 is the test suite's.  "none" is -1, no result yet.
ASSUME XresdAssumption ==
    /\ NoProc \notin Proc
    /\ ptr_sysid \in [Proc -> Nat]
    /\ ptr_ptype \in [Proc -> {"MTCC", "STCC"} \cup Tcm]
    /\ SysLists \subseteq Seq(Int)
    /\ "none" \notin Results
    /\ AbortOn \subseteq Results
    /\ XRIDMAX \in Nat /\ TFIDMAX \in Nat /\ MaxLines \in Nat /\ MaxGiven \in Nat
    /\ Reconnect \in BOOLEAN

VARIABLES
    ptab,           \* the connected processes, in the order they connected
    pt_flags,       \* per process: NONE, CONNECTED, LOGGEDON or
                    \* LOGGEDOFF
    sp_xrid,        \* per process: the XRID of its test case, -1 if none
    xtab,           \* the execution results file table: XRID -> entry
    xrid,           \* xtalloc()'s static counter
    xres,           \* XRID -> the daemon's lines in the file
    tftab,          \* the transfer file table: id -> owner
    tfid,           \* tfalloc()'s static counter
    ptm_rc,         \* the code of the last reply, none after a connection
                    \* has opened or closed
    given,          \* history: XRID -> results accepted from each system
                    \* since the last TP start
    revived         \* history: XRIDs in which the daemon has let go of the
                    \* fact that a system's TCM had died

files == <<xtab, xrid, xres, given, revived>>
vars  == <<ptab, pt_flags, sp_xrid, files, tftab, tfid, ptm_rc>>

-----------------------------------------------------------------------------
(* The data.                                                               *)

State  == {"none", "NOTREPORTED", "REPORTED", "DEAD"}
Flag   == {"ICINPROGRESS", "TPINPROGRESS", "TCABORT"}
Result == Results \cup {"none", "PASS", "NORESULT"}

Uxtab == [sysid : Nat, ptab : Proc \cup {NoProc}, state : State, result : Result]
Xtab  == [owner : Proc \cup {NoProc}, ud : Seq(Uxtab), tpcount : Nat,
          flags : SUBSET Flag]
Line  == [code : Codes, result : Result, n : Nat]
Rc    == {"none", "OK", "ERR", "LOGON", "INVAL", "DUPS", "XRID", "PERM",
          "INPROGRESS", "SYSID", "DONE", "ABORT", "FID"}

Note(code) == [code |-> code, result |-> "none", n |-> 0]

Put(f, k, v) == [x \in DOMAIN f \cup {k} |-> IF x = k THEN v ELSE f[x]]
Drop(f, S)   == [x \in DOMAIN f \ S |-> f[x]]

InIC(xt) == "ICINPROGRESS" \in xt.flags
InTP(xt) == "TPINPROGRESS" \in xt.flags

-----------------------------------------------------------------------------
(* Results.                                                                *)

Named == {"PASS", "FAIL", "NORESULT"} \cup High \cup Low

\* mutant: NORESULT does not displace a test suite's own code
SupersedesLess(this, last) ==
    \/ last = "none"
    \/ this = "FAIL"
    \/ this \in High /\ last # "FAIL"
    \/ this \notin Named \ {"NORESULT"} /\ last \in {"PASS"} \cup Low
    \/ this \in Low /\ last = "PASS"

\* tet_addresult(): which of two results prevails
Supersedes(this, last) ==
    \/ last = "none"
    \/ this = "FAIL"
    \/ this \in High /\ last # "FAIL"
    \/ this = "NORESULT" /\ last \notin High \cup {"FAIL"}
    \/ this \notin Named /\ last \in {"PASS"} \cup Low
    \/ this \in Low /\ last = "PASS"

tet_addresult(last, this) == IF Supersedes(this, last) THEN this ELSE last

\* a system that has not reported, or died before it did, has no result
SystemResult(up) ==
    CASE up.state = "NOTREPORTED" -> "NORESULT"
      [] up.state = "REPORTED"    -> up.result
      [] up.state = "DEAD"        -> IF up.result = "none" THEN "NORESULT" ELSE up.result

\* tpend(): the consolidated result
Consolidated(ud) ==
    LET acc[k \in 0..Len(ud)] ==
            IF k = 0 THEN "none" ELSE tet_addresult(acc[k - 1], SystemResult(ud[k]))
    IN  acc[Len(ud)]

TpResult(xt) == [Note("TP_RESULT") EXCEPT !.result = Consolidated(xt.ud)]

\* mutant: counts one too few
IcEndLess(xt) == [Note("IC_END") EXCEPT !.n = xt.tpcount - 1]

IcEnd(xt)    == [Note("IC_END") EXCEPT !.n = xt.tpcount]

-----------------------------------------------------------------------------
(* Connections.                                                            *)

Connected(p) == p \in Range(ptab)
Ready(p)     == Connected(p) /\ pt_flags[p] = "LOGGEDON"
Mtcm(p)      == ptr_ptype[p] = "MTCM"

Refuse(rc) ==
    /\ ptm_rc' = rc
    /\ UNCHANGED <<ptab, pt_flags, sp_xrid, files, tftab, tfid>>

Disconnect(p) == \E k \in DOMAIN ptab : ptab[k] = p /\ ptab' = RemoveAt(ptab, k)

Connect(p) ==
    /\ ~Connected(p)
    /\ Reconnect \/ pt_flags[p] = "NONE"
    /\ ptab' = Append(ptab, p)
    /\ pt_flags' = [pt_flags EXCEPT ![p] = "CONNECTED"]
    /\ sp_xrid' = [sp_xrid EXCEPT ![p] = -1]
    /\ ptm_rc' = "none"
    /\ UNCHANGED <<files, tftab, tfid>>

\* op_logon(): only one master TCC.  A client that is refused is dropped when
\* it has the reply; none logs on again over a connection it has logged off
\* (tet_xdlogoff() closes it).
OpLogon(p) ==
    LET other == /\ ptr_ptype[p] = "MTCC"
                 /\ \E q \in Range(ptab) \ {p} :
                        ptr_ptype[q] = "MTCC" /\ pt_flags[q] # "CONNECTED"
    IN  /\ Connected(p) /\ pt_flags[p] = "CONNECTED"
        /\ \/ /\ other
              /\ Disconnect(p)
              /\ ptm_rc' = "LOGON"
              /\ UNCHANGED pt_flags
           \/ /\ ~other
              /\ pt_flags' = [pt_flags EXCEPT ![p] = "LOGGEDON"]
              /\ ptm_rc' = "OK"
              /\ UNCHANGED ptab
        /\ UNCHANGED <<sp_xrid, files, tftab, tfid>>

\* tet_si_serverproc(): any other request needs a logon first
OpNotLoggedOn(p) == Connected(p) /\ ~Ready(p) /\ Refuse("LOGON")

\* mutants: the owner is not cleared; the system is not marked dead
BuryUsers(xt, p) ==
    [xt EXCEPT !.ud = [k \in DOMAIN xt.ud |->
                        IF xt.ud[k].ptab # p THEN xt.ud[k]
                        ELSE [xt.ud[k] EXCEPT !.state = "DEAD", !.ptab = NoProc]]]
BuryQuiet(xt, p) ==
    [xt EXCEPT !.owner = IF xt.owner = p THEN NoProc ELSE xt.owner,
               !.ud    = [k \in DOMAIN xt.ud |->
                            IF xt.ud[k].ptab # p THEN xt.ud[k]
                            ELSE [xt.ud[k] EXCEPT !.ptab = NoProc]]]

\* xtdead(): p is nobody's owner or TCM any more
Bury(xt, p) ==
    [xt EXCEPT !.owner = IF xt.owner = p THEN NoProc ELSE xt.owner,
               !.ud    = [k \in DOMAIN xt.ud |->
                            IF xt.ud[k].ptab # p THEN xt.ud[k]
                            ELSE [xt.ud[k] EXCEPT !.state = "DEAD", !.ptab = NoProc]]]

\* mutant: one dead system is enough
SomeDead(xt) == \E k \in DOMAIN xt.ud : xt.ud[k].state = "DEAD"

AllDead(xt) == \A k \in DOMAIN xt.ud : xt.ud[k].state = "DEAD"

\* mutant: the IC is ended first
EpilogueSwapped(xt) == (IF InIC(xt) THEN <<IcEnd(xt)>> ELSE <<>>)
                            \o (IF InTP(xt) THEN <<TpResult(xt)>> ELSE <<>>)

\* the lines tpend() and icend() write when the MTCM has not ended the TP, IC
Epilogue(xt) == (IF InTP(xt) THEN <<TpResult(xt)>> ELSE <<>>)
                    \o (IF InIC(xt) THEN <<IcEnd(xt)>> ELSE <<>>)

xtdead(p) ==
    LET buried(x) == Bury(xtab[x], p)
        unused    == {x \in DOMAIN xtab : AllDead(buried(x)) /\ buried(x).owner = NoProc}
    IN  /\ xtab' = [x \in DOMAIN xtab \ unused |->
                        IF AllDead(buried(x))
                        THEN [buried(x) EXCEPT !.flags = @ \cap {"TCABORT"}]
                        ELSE buried(x)]
        /\ xres' = [x \in DOMAIN xres |->
                        IF x \in DOMAIN xtab /\ AllDead(buried(x))
                        THEN xres[x] \o Epilogue(buried(x)) ELSE xres[x]]

\* mutant: the transfer files of a dead process stay open
tfdeadKeep(p) == tftab' = tftab

\* tfdead(): close and forget the transfer files of p
tfdead(p) == tftab' = Drop(tftab, {f \in DOMAIN tftab : tftab[f] = p})

OpLogoff(p) ==
    /\ Ready(p)
    /\ xtdead(p) /\ tfdead(p)
    /\ pt_flags' = [pt_flags EXCEPT ![p] = "LOGGEDOFF"]
    /\ ptm_rc' = "OK"
    /\ UNCHANGED <<ptab, sp_xrid, xrid, given, revived, tfid>>

\* tet_ss_dead(): the connection has closed
Dead(p) ==
    /\ Connected(p)
    /\ xtdead(p) /\ tfdead(p)
    /\ Disconnect(p)
    /\ pt_flags' = [pt_flags EXCEPT ![p] = "LOGGEDOFF"]
    /\ ptm_rc' = "none"
    /\ UNCHANGED <<sp_xrid, xrid, given, revived, tfid>>

-----------------------------------------------------------------------------
(* Execution results files.  Only the TCC opens and closes them: see       *)
(* get_snid_xrid() and rm_snid_xrid() in tcc/proctcd.c.                    *)

Tcc(p) == ptr_ptype[p] = "MTCC"

\* The XRID is used up when the file cannot be opened.
OpXropen(p) ==
    /\ Ready(p) /\ Tcc(p)
    /\ xrid < XRIDMAX
    /\ xrid' = xrid + 1
    /\ xres' = Put(xres, xrid', <<>>)
    /\ given' = Put(given, xrid', <<>>)
    /\ \/ /\ xtab' = Put(xtab, xrid', [owner |-> p, ud |-> <<>>, tpcount |-> 0,
                                       flags |-> {}])
          /\ ptm_rc' = "OK"
       \/ /\ ptm_rc' = "ERR"
          /\ UNCHANGED xtab
    /\ UNCHANGED <<ptab, pt_flags, sp_xrid, revived, tftab, tfid>>

OpXrclose(p, x) ==
    LET rc == IF x \notin DOMAIN xtab THEN "XRID"
              ELSE IF xtab[x].owner # p THEN "PERM"
              ELSE IF InIC(xtab[x]) \/ InTP(xtab[x]) THEN "INPROGRESS"
              ELSE "OK"
    IN  /\ Ready(p) /\ Tcc(p)
        /\ ptm_rc' = rc
        /\ xtab' = IF rc = "OK" THEN Drop(xtab, {x}) ELSE xtab
        /\ UNCHANGED <<ptab, pt_flags, sp_xrid, xrid, xres, given, revived, tftab, tfid>>

\* uxtalloc() clears the list: ux_state has none of its values and ux_result
\* is 0, which is PASS, until OP_TPSTART sets them.
NewUser(sysid) == [sysid |-> sysid, ptab |-> NoProc, state |-> "none", result |-> "PASS"]

OpXrsys(p, x, list) ==
    LET bad == {k \in DOMAIN list : list[k] < 0 \/ \E j \in 1..k - 1 : list[j] = list[k]}
        rc  == IF list = <<>> THEN "INVAL"
               ELSE IF bad # {} THEN IF list[Min(bad)] < 0 THEN "INVAL" ELSE "DUPS"
               ELSE IF x \notin DOMAIN xtab THEN "XRID"
               ELSE IF InIC(xtab[x]) \/ InTP(xtab[x]) THEN "INPROGRESS"
               ELSE "OK"
    IN  /\ Ready(p) /\ Tcc(p)
        /\ ptm_rc' = rc
        /\ xtab' = IF rc # "OK" THEN xtab
                   ELSE [xtab EXCEPT ![x].ud = [k \in DOMAIN list |-> NewUser(list[k])]]
        /\ UNCHANGED <<ptab, pt_flags, sp_xrid, xrid, xres, given, revived, tftab, tfid>>

\* a TCM, or a process it has started, names the test case it belongs to
OpXrsend(p, x) ==
    LET rc == IF x < 0 THEN "INVAL"
              ELSE IF sp_xrid[p] >= 0 /\ sp_xrid[p] # x THEN "DONE"
              ELSE "OK"
    IN  /\ Ready(p) /\ ptr_ptype[p] \in Tcm
        /\ ptm_rc' = rc
        /\ sp_xrid' = IF rc = "OK" THEN [sp_xrid EXCEPT ![p] = x] ELSE sp_xrid
        /\ UNCHANGED <<ptab, pt_flags, files, tftab, tfid>>

-----------------------------------------------------------------------------
(* The brackets of the MTCM.                                               *)

\* mutant: any process of the system will do
CandidatesAny(x, sysid) ==
    {k \in DOMAIN ptab : ptr_sysid[ptab[k]] = sysid /\ pt_flags[ptab[k]] = "LOGGEDON"}

\* where in ptab the TCMs of test case x from a system are
Candidates(x, sysid) ==
    {k \in DOMAIN ptab : /\ ptr_sysid[ptab[k]] = sysid
                         /\ pt_flags[ptab[k]] = "LOGGEDON"
                         /\ sp_xrid[ptab[k]] = x
                         /\ ptr_ptype[ptab[k]] \in Tcm}

\* the one that connected first stands for its system
Bound(x, up) ==
    LET tcms == Candidates(x, up.sysid)
    IN  IF up.ptab # NoProc \/ tcms = {} THEN up
        ELSE [up EXCEPT !.ptab = ptab[Min(tcms)]]

\* A system found to have a TCM keeps it when another has none.
OpIcstart(p, x) ==
    LET ud == [k \in DOMAIN xtab[x].ud |-> Bound(x, xtab[x].ud[k])]
        rc == IF ~Mtcm(p) THEN "PERM"
              ELSE IF x \notin DOMAIN xtab THEN "XRID"
              ELSE IF InIC(xtab[x]) \/ InTP(xtab[x]) THEN "INPROGRESS"
              ELSE IF \E k \in DOMAIN ud : ud[k].ptab = NoProc THEN "SYSID"
              ELSE "OK"
    IN  /\ Ready(p) /\ ptr_ptype[p] \in Tcm
        /\ x \in DOMAIN xres => Len(xres[x]) < MaxLines
        /\ ptm_rc' = rc
        /\ \/ /\ rc \notin {"OK", "SYSID"}
              /\ UNCHANGED <<xtab, xres, revived>>
           \/ /\ rc \in {"OK", "SYSID"}
              /\ revived' = IF \E k \in DOMAIN ud : ud[k].state = "DEAD" /\ ud[k].ptab # NoProc
                            THEN revived \cup {x} ELSE revived
              /\ \/ /\ rc = "SYSID"
                    /\ xtab' = [xtab EXCEPT ![x].ud = ud]
                    /\ UNCHANGED xres
                 \/ /\ rc = "OK"
                    /\ xtab' = [xtab EXCEPT ![x] =
                                  [xtab[x] EXCEPT !.ud = ud, !.tpcount = 0,
                                            !.flags = @ \cup {"ICINPROGRESS"}]]
                    /\ xres' = [xres EXCEPT ![x] = Append(@, Note("IC_START"))]
        /\ UNCHANGED <<ptab, pt_flags, sp_xrid, xrid, given, tftab, tfid>>

OpIcend(p, x) ==
    LET rc == IF ~Mtcm(p) THEN "PERM"
              ELSE IF x \notin DOMAIN xtab THEN "XRID"
              ELSE IF ~InIC(xtab[x]) THEN "DONE"
              ELSE IF InTP(xtab[x]) THEN "INPROGRESS"
              ELSE "OK"
    IN  /\ Ready(p) /\ ptr_ptype[p] \in Tcm
        /\ ptm_rc' = rc
        /\ \/ rc # "OK" /\ UNCHANGED <<xtab, xres>>
           \/ /\ rc = "OK"
              /\ xtab' = [xtab EXCEPT ![x].flags = @ \ {"ICINPROGRESS"}]
              /\ xres' = [xres EXCEPT ![x] = Append(@, IcEnd(xtab[x]))]
        /\ UNCHANGED <<ptab, pt_flags, sp_xrid, xrid, given, revived, tftab, tfid>>

OpTpstart(p, x) ==
    LET rc == IF ~Mtcm(p) THEN "PERM"
              ELSE IF x \notin DOMAIN xtab THEN "XRID"
              ELSE IF ~InIC(xtab[x]) THEN "DONE"
              ELSE IF InTP(xtab[x]) THEN "INPROGRESS"
              ELSE "OK"
        reset(up) == [up EXCEPT !.state = "NOTREPORTED", !.result = "none"]
    IN  /\ Ready(p) /\ ptr_ptype[p] \in Tcm
        /\ x \in DOMAIN xres => Len(xres[x]) < MaxLines
        /\ ptm_rc' = rc
        /\ \/ rc # "OK" /\ UNCHANGED <<xtab, xres, given, revived>>
           \/ /\ rc = "OK"
              /\ xtab' = [xtab EXCEPT ![x] =
                            [xtab[x] EXCEPT !.ud = [k \in DOMAIN @ |-> reset(@[k])],
                                      !.flags = (@ \ {"TCABORT"}) \cup {"TPINPROGRESS"}]]
              /\ xres' = [xres EXCEPT ![x] = Append(@, Note("TP_START"))]
              /\ given' = [given EXCEPT ![x] = [k \in DOMAIN xtab[x].ud |-> {}]]
              /\ revived' = IF \E k \in DOMAIN xtab[x].ud : xtab[x].ud[k].state = "DEAD"
                            THEN revived \cup {x} ELSE revived
        /\ UNCHANGED <<ptab, pt_flags, sp_xrid, xrid, tftab, tfid>>

\* the MTCM is told when a result asks for the test case to be aborted
OpTpend(p, x) ==
    LET rc == IF ~Mtcm(p) THEN "PERM"
              ELSE IF x \notin DOMAIN xtab THEN "XRID"
              ELSE IF ~InIC(xtab[x]) \/ ~InTP(xtab[x]) THEN "DONE"
              ELSE IF "TCABORT" \in xtab[x].flags THEN "ABORT"
              ELSE "OK"
    IN  /\ Ready(p) /\ ptr_ptype[p] \in Tcm
        /\ ptm_rc' = rc
        /\ \/ rc \notin {"OK", "ABORT"} /\ UNCHANGED <<xtab, xres>>
           \/ /\ rc \in {"OK", "ABORT"}
              /\ xtab' = [xtab EXCEPT ![x] =
                            [xtab[x] EXCEPT !.tpcount = @ + 1,
                                      !.flags = @ \ {"TPINPROGRESS"}]]
              /\ xres' = [xres EXCEPT ![x] = Append(@, TpResult(xtab[x]))]
        /\ UNCHANGED <<ptab, pt_flags, sp_xrid, xrid, given, revived, tftab, tfid>>

-----------------------------------------------------------------------------
(* Lines and results, from any TCM or process it has started.              *)

\* the lines themselves are not modelled
OpXres(p, x) ==
    /\ Ready(p) /\ ptr_ptype[p] \in Tcm
    /\ Refuse(IF x \in DOMAIN xtab THEN "OK" ELSE "XRID")

\* a dead system stays dead, but another process of it may still report
Registered(up, r) ==
    IF up.state = "NOTREPORTED" THEN [up EXCEPT !.state = "REPORTED", !.result = r]
    ELSE [up EXCEPT !.result = tet_addresult(@, r)]

\* mutant: only a result that prevails on its system asks for an abort
AbortIfPrevails(up, r) ==
    IF r \in AbortOn /\ Registered(up, r).result = r THEN {"TCABORT"} ELSE {}

AbortFlag(up, r) == IF r \in AbortOn THEN {"TCABORT"} ELSE {}

OpResult(p, x, r) ==
    LET users == {k \in DOMAIN xtab[x].ud : xtab[x].ud[k].sysid = ptr_sysid[p]}
        rc == IF r \notin Results THEN "INVAL"
              ELSE IF x \notin DOMAIN xtab THEN "XRID"
              ELSE IF ~InIC(xtab[x]) \/ ~InTP(xtab[x]) THEN "DONE"
              ELSE IF users = {} THEN "SYSID"
              ELSE "OK"
        k  == Min(users)
    IN  /\ Ready(p) /\ ptr_ptype[p] \in Tcm
        /\ ptm_rc' = rc
        /\ \/ rc # "OK" /\ UNCHANGED <<xtab, given>>
           \/ /\ rc = "OK"
              /\ Cardinality(given[x][k] \cup {r}) <= MaxGiven
              /\ xtab' = [xtab EXCEPT ![x] =
                            [xtab[x] EXCEPT !.ud[k] = Registered(@, r),
                                      !.flags = @ \cup AbortFlag(xtab[x].ud[k], r)]]
              /\ given' = [given EXCEPT ![x][k] = @ \cup {r}]
        /\ UNCHANGED <<ptab, pt_flags, sp_xrid, xrid, xres, revived, tftab, tfid>>

-----------------------------------------------------------------------------
(* Transfer files.  An id is used up when the file cannot be opened; any   *)
(* client may write to or close any file.                                  *)

OpTfopen(p) ==
    /\ Ready(p)
    /\ tfid < TFIDMAX
    /\ tfid' = tfid + 1
    /\ \/ tftab' = Put(tftab, tfid', p) /\ ptm_rc' = "OK"
       \/ UNCHANGED tftab /\ ptm_rc' = "ERR"
    /\ UNCHANGED <<ptab, pt_flags, sp_xrid, files>>

OpTfclose(p, f) ==
    /\ Ready(p)
    /\ ptm_rc' = IF f \in DOMAIN tftab THEN "OK" ELSE "FID"
    /\ tftab' = Drop(tftab, {f})
    /\ UNCHANGED <<ptab, pt_flags, sp_xrid, files, tfid>>

\* the data is not modelled; a count of zero is invalid
OpTfwrite(p, f, count) ==
    /\ Ready(p)
    /\ Refuse(IF f \notin DOMAIN tftab THEN "FID"
                            ELSE IF count = 0 THEN "INVAL" ELSE "OK")

-----------------------------------------------------------------------------
Init ==
    /\ ptab = <<>>
    /\ pt_flags = [p \in Proc |-> "NONE"]
    /\ sp_xrid = [p \in Proc |-> -1]
    /\ xtab = <<>> /\ xrid = 0 /\ xres = <<>>
    /\ tftab = <<>> /\ tfid = 0
    /\ ptm_rc = "none"
    /\ given = <<>> /\ revived = {}

Connection(p) == Connect(p) \/ OpLogon(p) \/ OpNotLoggedOn(p) \/ OpLogoff(p) \/ Dead(p)

Bracket(p, x) == OpIcstart(p, x) \/ OpIcend(p, x) \/ OpTpstart(p, x) \/ OpTpend(p, x)

ResultsFile(p, x) ==
    \/ OpXrclose(p, x) \/ OpXrsend(p, x) \/ Bracket(p, x) \/ OpXres(p, x)
    \/ \E list \in SysLists : OpXrsys(p, x, list)
    \/ \E r \in Results \cup {"OUTOFRANGE"} : OpResult(p, x, r)

TransferFile(p) ==
    \/ OpTfopen(p)
    \/ \E f \in 1..TFIDMAX :
            OpTfclose(p, f) \/ \E count \in 0..1 : OpTfwrite(p, f, count)

Next == \E p \in Proc :
            \/ Connection(p) \/ OpXropen(p) \/ OpXrsend(p, -1) \/ TransferFile(p)
            \/ \E x \in 1..XRIDMAX : ResultsFile(p, x)

Spec == Init /\ [][Next]_vars
-----------------------------------------------------------------------------
(* Properties.                                                             *)

\* The values the daemon's tables range over.
TypeOK ==
    /\ ptab \in Seq(Proc) /\ IsInjective(ptab)
    /\ pt_flags \in [Proc -> {"NONE", "CONNECTED", "LOGGEDON", "LOGGEDOFF"}]
    /\ sp_xrid \in [Proc -> -1..XRIDMAX]
    /\ xrid \in 0..XRIDMAX
    /\ DOMAIN xtab \subseteq 1..xrid
    /\ \A x \in DOMAIN xtab : xtab[x] \in Xtab
    /\ DOMAIN xres = 1..xrid
    /\ \A x \in DOMAIN xres : xres[x] \in Seq(Line)
    /\ DOMAIN given = 1..xrid
    /\ \A x \in DOMAIN given : given[x] \in Seq(SUBSET Results)
    /\ revived \subseteq 1..xrid
    /\ tfid \in 0..TFIDMAX
    /\ DOMAIN tftab \subseteq 1..tfid /\ Range(tftab) \subseteq Proc
    /\ ptm_rc \in Rc

\* No table points at the ptab of a process that has logged off or died: what
\* xtdead() and tfdead() are for.  The TCM that stands for a system is one of
\* that system and of that test case.
NoDanglingPtab ==
    /\ \A x \in DOMAIN xtab :
        /\ xtab[x].owner # NoProc => Ready(xtab[x].owner)
        /\ \A k \in DOMAIN xtab[x].ud :
            LET q == xtab[x].ud[k].ptab
            IN  q # NoProc => /\ Ready(q) /\ sp_xrid[q] = x
                              /\ ptr_sysid[q] = xtab[x].ud[k].sysid
                              /\ ptr_ptype[q] \in Tcm
    /\ \A f \in DOMAIN tftab : Ready(tftab[f])

Complete(file) == file = <<>> \/ Last(file).code = "IC_END"
Follow(code) == CASE code = "IC_START"  -> {"TP_START", "IC_END"}
                  [] code = "TP_START"  -> {"TP_RESULT"}
                  [] code = "TP_RESULT" -> {"TP_START", "IC_END"}
                  [] code = "IC_END"    -> {"IC_START"}

\* Every file is well formed whatever the order of requests, logoffs and
\* deaths: components and purposes nest and are closed, a file that has been
\* closed or abandoned is complete, and xt_flags tells how far an open one is.
JournalWellFormed ==
    \A x \in DOMAIN xres :
        LET file == xres[x]
        IN  /\ file # <<>> => file[1].code = "IC_START"
            /\ \A j \in 2..Len(file) : file[j].code \in Follow(file[j - 1].code)
            /\ x \notin DOMAIN xtab => Complete(file)
            /\ x \in DOMAIN xtab =>
                /\ InIC(xtab[x]) <=> ~Complete(file)
                /\ InTP(xtab[x]) <=> file # <<>> /\ Last(file).code = "TP_START"

\* The order of the results (doc: FAIL is the worst, PASS the best).
Rank(r) == CASE r = "PASS" -> 0 [] r \in Low -> 1 [] r = "NORESULT" -> 3
             [] r \in High -> 4 [] r = "FAIL" -> 5 [] OTHER -> 2

\* The consolidated result of a TP is as bad as the worst result that any
\* process of any system registered for it, with NORESULT for a system that
\* registered none, whoever died and in whichever order the results came.
Consolidates(r, systems) ==
    LET ranks == {Rank(q) : q \in UNION Range(systems)}
                    \cup (IF {} \in Range(systems) THEN {Rank("NORESULT")} ELSE {})
    IN  IF systems = <<>> THEN r = "none" ELSE Rank(r) = Max(ranks)
VerdictStep ==
    \A x \in DOMAIN xres : xres'[x] # xres[x] =>
        LET j == Len(xres[x]) + 1
        IN  xres'[x][j].code = "TP_RESULT" =>
                Consolidates(xres'[x][j].result, given[x])
VerdictIsWorst == [][VerdictStep]_vars

\* The reply to OP_TPEND is ER_ABORT if, and only if, some result registered
\* for that TP has the action Abort, even when it did not prevail.
AbortStep ==
    \A x \in DOMAIN xres :
        xres'[x] # xres[x] /\ Last(xres'[x]).code = "TP_RESULT" =>
            (ptm_rc' = "ABORT" <=> (UNION Range(given[x])) \cap AbortOn # {})
AbortIsTold == [][AbortStep]_vars

\* As long as the deaths of TCMs are remembered, a component in progress has a
\* TCM that can end it: xtdead() ends it with the last one.
InProgressHasTcm ==
    \A x \in DOMAIN xtab \ revived :
        LET ud == xtab[x].ud
        IN  InIC(xtab[x]) =>
                /\ \A k \in DOMAIN ud : ud[k].ptab = NoProc <=> ud[k].state = "DEAD"
                /\ ud # <<>> => \E k \in DOMAIN ud : ud[k].ptab # NoProc

EndsIc(x) == /\ x \in DOMAIN xres /\ xres'[x] # xres[x]
             /\ Last(xres'[x]).code = "IC_END"

\* ... and xtdead() ends a component only when all its TCMs have gone.
EndedStep ==
    \A x \in DOMAIN xtab \ revived :
        EndsIc(x) /\ <<ptab, pt_flags>>' # <<ptab, pt_flags>> =>
            \A q \in Proc : Ready(q)' =>
                \A k \in DOMAIN xtab[x].ud : xtab[x].ud[k].ptab # q
EndedWhenUnused == [][EndedStep]_vars
=============================================================================
