------------------------------- MODULE Syncd -------------------------------
(***************************************************************************)
(* The TETware synchronisation daemon, tetsyncd (src/tet3/syncd).          *)
(*                                                                         *)
(* Test case managers and the TCC log on to the daemon and meet in sync    *)
(* events.  An auto sync is created by OP_SNGET, given its list of systems *)
(* by OP_SNSYS and voted on with OP_ASYNC; a user sync is created by the   *)
(* first OP_USYNC that names its participants.  A voter is parked in state *)
(* PS_WAITSYNC, where its connection is not polled, until the event        *)
(* happens: all participants have voted or died, one has timed out, or an  *)
(* auto sync of the same test case has overtaken a user sync.              *)
(*                                                                         *)
(* The daemon is one thread.  An iteration of its loop handles the         *)
(* requests that have arrived (phase "procrun"), services the sync table   *)
(* entries that need attention ("stloop") and runs expired timers          *)
(* ("timeouts").  A failed ASSERT() ends the process (phase "fatal").      *)
(***************************************************************************)
EXTENDS Integers, Sequences, FiniteSets, Functions, FiniteSetsExt

CONSTANTS
    Proc,           \* process table slots: the clients that may connect
    NoProc,         \* the null ptab pointer
    ptr_sysid,      \* the system each client logs on from ...
    ptr_ptype,      \* ... and its process type
    SysLists,       \* system lists a client may send with OP_SNSYS
    UserLists,      \* participant lists a client may send with OP_USYNC
    AutoReqs,       \* parameters a client may send with OP_ASYNC
    UserReqs,       \* parameters a client may send with OP_USYNC
    SPMAX,          \* the largest sync point number
    SNIDMAX,        \* the largest sync ID: stalloc() fails beyond it
    MaxTimedOut,    \* bound: nobody votes while another's us_ntimedout is this
    Siblings        \* may two processes of one system share a sync event?

Ptype    == {"MTCC", "STCC", "MTCM", "STCM", "XRESD"}
User     == [sysid : Nat, ptype : Ptype]
Timer    == {"off", "armed", "expired"}  \* expired: gone off, may be renewed
MsgFlag  == {"SNDMSG", "RCVMSG", "DUP", "TRUNC"}
Request  == [spno : Int, vote : {"YES", "NO"}, timed : BOOLEAN, xrid : Int,
             smflags : SUBSET MsgFlag, smlen : Nat]

(***************************************************************************)
(* What a request may contain.  Sync point numbers are non-negative longs, *)
(* or negative ones that the daemon refuses; tet_sdasync() never sends     *)
(* message data.                                                           *)
(***************************************************************************)
ASSUME SyncdAssumption ==
    /\ NoProc \notin Proc
    /\ ptr_sysid \in [Proc -> Nat]
    /\ ptr_ptype \in [Proc -> Ptype]
    /\ SysLists \subseteq Seq(Int)
    /\ UserLists \subseteq Seq([sysid : Int, ptype : Ptype])
    /\ AutoReqs \subseteq Request
    /\ UserReqs \subseteq Request
    /\ SPMAX \in Nat
    /\ \A r \in AutoReqs \cup UserReqs : r.spno <= SPMAX
    /\ \A r \in AutoReqs : r.smflags = {}
    /\ SNIDMAX \in Nat
    /\ MaxTimedOut \in Nat
    /\ Siblings \in BOOLEAN

VARIABLES
    stab,           \* the sync table: sync ID or allocation number -> entry
    snid,           \* stalloc()'s static counter
    phase,          \* where the server loop is
    pt_state,       \* per process: PS_* state, or "NONE" if not connected
    pf_loggedon,    \* the processes that have PF_LOGGEDON set
    pt_timeout,     \* per process: its sync timeout, see Timer
    sp_stab,        \* per process: the event being waited on, 0 if none
    sp_xrid,        \* per process: the XRID it used first, -1 if none
    ptm,            \* per process: the reply message being sent
    overshot        \* history: stperr() has woken a voter whose sync point
                    \* lies beyond the one that sts2() then clears

ptabvars == <<pt_state, pf_loggedon, pt_timeout, sp_stab, sp_xrid, ptm>>
vars     == <<stab, snid, phase, ptabvars, overshot>>

-----------------------------------------------------------------------------
(* The data.                                                               *)

UserState == {"NOTSYNCED", "SYNCYES", "SYNCNO", "TIMEDOUT", "DEAD"}
Flag      == {"ATTENTION", "INPROGRESS", "OK", "ERR", "TIMEDOUT", "USYNC"}

Ustab == [state : UserState, spno : 0..SPMAX, ntimedout : Nat,
          ptab : Proc \cup {NoProc}, smflags : SUBSET MsgFlag]

Synmsg == [sysid : Nat \cup {-1}, spno : Nat \cup {-1}, len : Nat,
           flags : SUBSET MsgFlag]

\* a partial function from users to their details
IsUd(ud) == DOMAIN ud \subseteq User /\ ud \in [DOMAIN ud -> Ustab]

Stab(Uds) == [snid : Int, xrid : Int, lastspno : 0..SPMAX,
              owner : Proc \cup {NoProc}, ud : Uds, flags : SUBSET Flag,
              sm : Synmsg]
IsStab(e) == IsUd(e.ud) /\ e \in Stab({e.ud})

NoMsg   == [sysid |-> -1, spno |-> -1, len |-> 0, flags |-> {}]
NewUser == [state |-> "NOTSYNCED", spno |-> 0, ntimedout |-> 0,
            ptab |-> NoProc, smflags |-> {}]

Rc    == {"none", "OK", "ERR", "INVAL", "DUPS", "SNID", "PERM", "INPROGRESS",
          "SYSID", "DONE", "LOGON", "SYNCERR", "TIMEDOUT"}
Reply == [rc : Rc, spno : 0..SPMAX, sm : Synmsg]
Ack(rc) == [rc |-> rc, spno |-> 0, sm |-> NoMsg]
NoReply == Ack("none")

stalloc(i) == [snid |-> i, xrid |-> -1, lastspno |-> 0, owner |-> NoProc,
               ud |-> <<>>, flags |-> {}, sm |-> NoMsg]

stadd(i, e) == [k \in DOMAIN stab \cup {i} |-> IF k = i THEN e ELSE stab[k]]
strm(i)     == [k \in DOMAIN stab \ {i} |-> stab[k]]

Voted(up) == up.state \in {"SYNCYES", "SYNCNO", "TIMEDOUT"}
Usync(e)  == "USYNC" \in e.flags

stafind == {i \in DOMAIN stab : ~Usync(stab[i])}

\* mutant: an entry whose last event is over is not found again
stufindBusy(xrid, U) ==
    {i \in DOMAIN stab : /\ {"USYNC", "INPROGRESS"} \subseteq stab[i].flags
                         /\ stab[i].xrid = xrid
                         /\ DOMAIN stab[i].ud = U}

stufind(xrid, U) ==
    {i \in DOMAIN stab : /\ Usync(stab[i])
                         /\ stab[i].xrid = xrid
                         /\ DOMAIN stab[i].ud = U}

-----------------------------------------------------------------------------
(* stcheck(): has the event happened yet?                                  *)

SomeUser(e, S) == \E u \in DOMAIN e.ud : e.ud[u].state \in S

\* mutants: one vote too few is enough; a timeout does not force the event
HappenedEarly(e) ==
    \/ SomeUser(e, {"TIMEDOUT"})
    \/ Cardinality({u \in DOMAIN e.ud : e.ud[u].state = "NOTSYNCED"}) <= 1
HappenedByVotes(e) == ~SomeUser(e, {"NOTSYNCED"})

Happened(e) == SomeUser(e, {"TIMEDOUT"}) \/ ~SomeUser(e, {"NOTSYNCED"})

stcheck(e) ==
    LET result   == IF SomeUser(e, {"TIMEDOUT", "SYNCNO", "DEAD"}) THEN "ERR" ELSE "OK"
        timedout == IF SomeUser(e, {"TIMEDOUT"}) THEN {"TIMEDOUT"} ELSE {}
    IN  IF "ATTENTION" \in e.flags \/ ~Happened(e) THEN e
        ELSE [e EXCEPT !.flags = (@ \ {"INPROGRESS"})
                                    \cup timedout \cup {result, "ATTENTION"}]

(* stuend(): an auto sync by a system ends the user syncs it takes part in *)
EndedBy(e, id, sysid) ==
    /\ e.snid = id
    /\ {"INPROGRESS", "USYNC"} \subseteq e.flags
    /\ \E u \in DOMAIN e.ud : u.sysid = sysid

\* mutant: the user sync is dropped instead of being ended
stuendDrops(tab, id, sysid) ==
    [k \in {j \in DOMAIN tab : ~EndedBy(tab[j], id, sysid)} |-> tab[k]]

stuend(tab, id, sysid) ==
    [k \in DOMAIN tab |->
        IF EndedBy(tab[k], id, sysid)
        THEN [tab[k] EXCEPT !.flags =
                (@ \ {"INPROGRESS"}) \cup {"ERR", "ATTENTION"}]
        ELSE tab[k]]

-----------------------------------------------------------------------------
(* op_s2(): the processing common to auto and user syncs.                  *)

Me(p) == [sysid |-> ptr_sysid[p], ptype |-> ptr_ptype[p]]

Matches(p, e, u) == /\ u.sysid = ptr_sysid[p]
                    /\ Usync(e) => u.ptype = ptr_ptype[p]
HasMyup(p, e)    == \E u \in DOMAIN e.ud : Matches(p, e, u)
Myup(p, e)       == CHOOSE u \in DOMAIN e.ud : Matches(p, e, u)

\* mutant: an event that has happened before is always reported as missed
S2RcAlways(p, e, r) ==
    IF ~HasMyup(p, e) THEN "SYSID"
    ELSE IF r.spno <= e.lastspno THEN "DONE" ELSE "WAIT"

\* what op_s2() decides: refuse, report a missed event, or wait
S2Rc(p, e, r) ==
    IF ~HasMyup(p, e) THEN "SYSID"
    ELSE IF /\ e.ud[Myup(p, e)].ntimedout > 0
            /\ r.spno <= e.lastspno
         THEN "DONE"
         ELSE "WAIT"

\* procmsdata(): only the first sender of at least one byte is accepted
procmsdata(sm, sysid, r) ==
    IF sm.sysid >= 0 /\ (sm.len > 0 \/ r.smlen = 0)
    THEN [sm EXCEPT !.flags = @ \cup {"DUP"}]
    ELSE [sysid |-> sysid, spno |-> r.spno, len |-> r.smlen,
          flags |-> sm.flags \cup (r.smflags \cap {"TRUNC"})
                        \cup (IF sm.sysid >= 0 THEN {"DUP"} ELSE {})]

\* the table entry after the vote
Vote(p, e, r) ==
    LET up == [state |-> IF r.vote = "YES" THEN "SYNCYES" ELSE "SYNCNO",
               spno |-> r.spno, ntimedout |-> 0, ptab |-> p,
               smflags |-> r.smflags]
    IN  stcheck([e EXCEPT
            !.ud[Myup(p, e)] = up,
            !.sm = IF "SNDMSG" \in r.smflags
                   THEN procmsdata(@, ptr_sysid[p], r) ELSE @,
            !.flags = @ \cup {"INPROGRESS"}])

op_s2(p, e, r) ==
    CASE S2Rc(p, e, r) = "WAIT" -> Vote(p, e, r)
      [] S2Rc(p, e, r) = "DONE" -> [e EXCEPT !.ud[Myup(p, e)].ntimedout = @ - 1]
      [] OTHER                  -> e

-----------------------------------------------------------------------------
(* stservice(): an event has happened.                                     *)

\* the lowest non-zero sync point number of the voters, zero if all are zero
EventSpno(e) ==
    LET S == {e.ud[u].spno : u \in {v \in DOMAIN e.ud : Voted(e.ud[v])}} \ {0}
    IN  IF S = {} THEN 0 ELSE Min(S)

HasDead(e) == \E u \in DOMAIN e.ud : e.ud[u].state = "DEAD"

\* st_lastspno as stperr() and stpok() leave it
LastSpno(e) == IF "ERR" \in e.flags /\ HasDead(e) THEN SPMAX ELSE EventSpno(e)

\* mutant: stperr() wakes everybody in the list
WokenAll(e) == {u \in DOMAIN e.ud : e.ud[u].spno <= LastSpno(e)}

\* the users stperr() and stpok() call syncmsg() for
Woken(e) == {u \in DOMAIN e.ud : /\ "ERR" \in e.flags => Voted(e.ud[u])
                                 /\ e.ud[u].spno <= LastSpno(e)}

\* the assertions of syncmsg() and synmsg2() along the way
SyncmsgAsserts(e) ==
    /\ \A u \in Woken(e) :
        /\ e.ud[u].ptab # NoProc
        /\ pt_state[e.ud[u].ptab] = "WAITSYNC"
        /\ \A v \in DOMAIN e.ud \ {u} : e.ud[v].ptab # e.ud[u].ptab
    /\ "OK" \in e.flags =>
            \A u \in Woken(e) : e.ud[u].state = "SYNCYES"

\* mutant: data for a later sync point is delivered too
MsgIsForAny(e, up, last) == up.spno \in {last, 0}

\* there is data for this event and the user syncs exactly to this event
MsgIsFor(e, up, last) == e.sm.spno \in {last, 0} /\ up.spno \in {last, 0}

\* the reply: the outcome, and data for those who take part in the exchange
synmsg2(e, u) ==
    LET up     == e.ud[u]
        last   == LastSpno(e)
        rc     == IF "OK" \in e.flags THEN "OK"
                  ELSE IF up.state = "TIMEDOUT" THEN "TIMEDOUT" ELSE "SYNCERR"
        rcvmsg == "RCVMSG" \in up.smflags \/ e.sm.sysid # u.sysid
    IN  [rc |-> rc, spno |-> last,
         sm |-> IF /\ rc # "TIMEDOUT"
                   /\ MsgIsFor(e, up, last)
                   /\ up.smflags \cap {"SNDMSG", "RCVMSG"} # {}
                THEN [sysid |-> e.sm.sysid, spno |-> e.sm.spno,
                      len |-> IF rcvmsg THEN e.sm.len ELSE 0,
                      flags |-> (e.sm.flags \ {"SNDMSG", "RCVMSG"})
                                \cup {IF rcvmsg THEN "RCVMSG" ELSE "SNDMSG"}]
                ELSE NoMsg]

\* mutant: a voter at the event's own sync point keeps its vote
DoneWithVoteLate(e, up) == Voted(up) /\ up.spno < EventSpno(e)

\* sts2(): the votes that this event has used up
DoneWithVote(e, up) == Voted(up) /\ up.spno <= EventSpno(e)

\* sts2(): user states after the event; stperr() counts missed timeouts
UserAfter(e, up) ==
    CASE DoneWithVote(e, up) ->
            [up EXCEPT !.state = "NOTSYNCED"]
      [] up.state = "NOTSYNCED" /\ {"ERR", "TIMEDOUT"} \subseteq e.flags ->
            [up EXCEPT !.ntimedout = @ + 1]
      [] OTHER -> up

StillVoted(e) ==
    \E u \in DOMAIN e.ud : Voted(e.ud[u]) /\ ~DoneWithVote(e, e.ud[u])

MsgAfter(e) == IF e.sm.spno <= EventSpno(e) THEN NoMsg ELSE e.sm

\* the entry as stservice() leaves it if it is still required
EntryAfter(e) ==
    [e EXCEPT
        !.lastspno = LastSpno(e),
        !.ud       = [u \in DOMAIN e.ud |-> UserAfter(e, e.ud[u])],
        !.sm       = MsgAfter(e),
        !.flags    = (@ \cap {"USYNC"})
                        \cup (IF StillVoted(e) THEN {"INPROGRESS"} ELSE {})]

\* sts2(): nobody is left who could vote on this entry again
NoLongerRequired(e) ==
    /\ \A u \in DOMAIN e.ud :
        \/ e.ud[u].state = "DEAD"
        \/ Usync(e) /\ DoneWithVote(e, e.ud[u])
    /\ Usync(e) \/ e.owner = NoProc

-----------------------------------------------------------------------------
(* Requests.  A client sends one request and then waits for the reply.     *)

Ready(p) == /\ phase = "procrun"
            /\ pt_state[p] = "RCVMSG"
            /\ p \in pf_loggedon

Answer(p, rc) ==
    /\ pt_state' = [pt_state EXCEPT ![p] = "SNDMSG"]
    /\ ptm' = [ptm EXCEPT ![p] = Ack(rc)]

Refuse(p, rc) ==
    /\ Answer(p, rc)
    /\ UNCHANGED <<stab, snid, phase, pf_loggedon, pt_timeout, sp_stab, sp_xrid, overshot>>

\* op_logon(): only one XRESD may be connected.  (A second one is answered
\* ER_LOGON and dropped at once, which leaves every table as it was.)
OpLogon(p) ==
    /\ phase = "procrun"
    /\ p \notin pf_loggedon
    /\ pt_state[p] \in {"NONE", "RCVMSG"}
    /\ ptr_ptype[p] = "XRESD" =>
            \A q \in Proc \ {p} : ptr_ptype[q] = "XRESD" => pt_state[q] = "NONE"
    /\ Answer(p, "OK")
    /\ pf_loggedon' = pf_loggedon \cup {p}
    /\ UNCHANGED <<stab, snid, phase, pt_timeout, sp_stab, sp_xrid, overshot>>

\* tet_si_serverproc(): any other request needs a logon first.  (A second
\* OP_LOGON is refused with ER_LOGON as well; no client sends one.)
OpNotLoggedOn(p) ==
    /\ phase = "procrun"
    /\ p \notin pf_loggedon
    /\ pt_state[p] = "RCVMSG"
    /\ Refuse(p, "LOGON")

OpSnget(p) ==
    /\ Ready(p)
    /\ \/ /\ snid = SNIDMAX
          /\ Refuse(p, "ERR")
       \/ /\ snid < SNIDMAX
          /\ snid' = snid + 1
          /\ stab' = stadd(snid + 1, [stalloc(snid + 1) EXCEPT !.owner = p])
          /\ Answer(p, "OK")
          /\ UNCHANGED <<phase, pf_loggedon, pt_timeout, sp_stab, sp_xrid, overshot>>

\* The first system of the list is the master.  The callers, get_snid_xrid()
\* and tet_remexec(), send the list before any participant knows the sync ID,
\* never in the middle of an event that is about to be serviced.
SysUsers(list) ==
    {[sysid |-> list[j], ptype |-> IF j = 1 THEN "MTCM" ELSE "STCM"]
        : j \in DOMAIN list}

OpSnsys(p, i, list) ==
    /\ Ready(p)
    /\ i \in stafind => stab[i].owner = p /\ "ATTENTION" \notin stab[i].flags
    /\ LET invalid == list = <<>> \/ \E j \in DOMAIN list : list[j] < 0
           dups    == ~IsInjective(list)
       IN  \/ invalid /\ Refuse(p, "INVAL")
           \/ ~invalid /\ dups /\ Refuse(p, "DUPS")
           \/ ~invalid /\ ~dups /\ i \notin stafind /\ Refuse(p, "SNID")
           \/ /\ ~invalid /\ ~dups /\ i \in stafind
              /\ "INPROGRESS" \in stab[i].flags
              /\ Refuse(p, "INPROGRESS")
           \/ /\ ~invalid /\ ~dups /\ i \in stafind
              /\ "INPROGRESS" \notin stab[i].flags
              /\ stab' = [stab EXCEPT ![i].ud =
                            [u \in SysUsers(list) |-> NewUser]]
              /\ Answer(p, "OK")
              /\ UNCHANGED <<snid, phase, pf_loggedon, pt_timeout, sp_stab, sp_xrid, overshot>>

OpSnrm(p, i) ==
    LET busy == \/ "INPROGRESS" \in stab[i].flags
                \/ \E u \in DOMAIN stab[i].ud :
                        LET up == stab[i].ud[u]
                        IN  Voted(up) \/ (up.state = "NOTSYNCED" /\ up.ptab # NoProc)
    IN  /\ Ready(p)
        /\ \/ i \notin stafind /\ Refuse(p, "SNID")
           \/ i \in stafind /\ stab[i].owner # p /\ Refuse(p, "PERM")
           \/ i \in stafind /\ stab[i].owner = p /\ busy /\ Refuse(p, "INPROGRESS")
           \/ /\ i \in stafind /\ stab[i].owner = p /\ ~busy
              /\ stab' = strm(i)
              /\ Answer(p, "OK")
              /\ UNCHANGED <<snid, phase, pf_loggedon, pt_timeout, sp_stab, sp_xrid, overshot>>

\* the processes whose timers a vote by p renews: those that wait as other
\* users of the entry (in whichever event)
Renewed(p, e) ==
    {q \in Proc : /\ pt_timeout[q] # "off"
                  /\ pt_state[q] = "WAITSYNC"
                  /\ \E u \in DOMAIN e.ud \ {Myup(p, e)} : e.ud[u].ptab = q}

\* op_s2()'s effect on the process table
S2Ptab(p, i, e, r) ==
    \/ /\ S2Rc(p, e, r) # "WAIT"
       /\ Answer(p, S2Rc(p, e, r))
       /\ UNCHANGED <<pt_timeout, sp_stab, sp_xrid>>
    \/ /\ S2Rc(p, e, r) = "WAIT"
       /\ pt_state' = [pt_state EXCEPT ![p] = "WAITSYNC"]
       /\ sp_stab' = [sp_stab EXCEPT ![p] = i]
       /\ pt_timeout' = [q \in Proc |->
                            IF q = p THEN IF r.timed THEN "armed" ELSE "off"
                            ELSE IF q \in Renewed(p, e) THEN "armed"
                            ELSE pt_timeout[q]]
       /\ sp_xrid' = [sp_xrid EXCEPT ![p] =
                        IF @ < 0 /\ r.xrid > 0 THEN r.xrid ELSE @]
       /\ UNCHANGED ptm

\* is q waiting in entry i?
WaitsIn(q, i) == q \in Proc /\ pt_state[q] = "WAITSYNC" /\ sp_stab[q] = i

\* How clients use the daemon (tet_sdasync(), tet_sdusync()): a system sends
\* one vote for an event and waits for its outcome.  The daemon has no such
\* guard; with Siblings a process may join an event in which another process
\* of its system is waiting.  The second conjunct is the bound on us_ntimedout.
MayVote(p, i, e, r) ==
    /\ \A u \in DOMAIN e.ud :
         Matches(p, e, u) /\ Voted(e.ud[u]) /\ e.ud[u].ptab # p
            => Siblings \/ ~WaitsIn(e.ud[u].ptab, i)
    /\ S2Rc(p, e, r) = "WAIT" =>
            \A u \in DOMAIN e.ud : Matches(p, e, u) \/ e.ud[u].ntimedout < MaxTimedOut

OpAsync(p, i, r) ==
    /\ Ready(p)
    /\ \/ r.spno < 0 /\ Refuse(p, "INVAL")
       \/ r.spno >= 0 /\ i \notin stafind /\ Refuse(p, "SNID")
       \/ /\ r.spno >= 0
          /\ i \in stafind
          /\ MayVote(p, i, stab[i], r)
          /\ LET waits == S2Rc(p, stab[i], r) = "WAIT"
                 e     == op_s2(p, stab[i], r)
                 e2    == IF waits /\ e.xrid < 0 /\ r.xrid > 0
                          THEN [e EXCEPT !.xrid = r.xrid] ELSE e
             IN  stab' = stuend([stab EXCEPT ![i] = e2], i, ptr_sysid[p])
          /\ S2Ptab(p, i, stab[i], r)
          /\ UNCHANGED <<snid, phase, pf_loggedon, overshot>>

NewUsync(id, xrid, users) ==
    [stalloc(id) EXCEPT !.xrid = xrid, !.flags = {"USYNC"},
                        !.ud = [u \in users |-> NewUser]]

\* tet_sdusync() callers leave their own system out of the list
OpUsync(p, id, list, r) ==
    /\ Ready(p)
    /\ Me(p) \notin Range(list)
    /\ LET invalid == \/ list = <<>> \/ r.spno < 0
                      \/ \E j \in DOMAIN list : list[j].sysid < 0
           dups    == ~IsInjective(list)
           users   == {Me(p)} \cup Range(list)
           found   == stufind(r.xrid, users)
           new     == NewUsync(id, r.xrid, users)
       IN  \/ invalid /\ Refuse(p, "INVAL")
           \/ ~invalid /\ dups /\ Refuse(p, "DUPS")
           \/ /\ ~invalid /\ ~dups /\ found = {} /\ snid = SNIDMAX
              /\ Refuse(p, "ERR")
           \/ /\ ~invalid /\ ~dups /\ found = {} /\ snid < SNIDMAX
              /\ snid' = snid + 1
              /\ stab' = stadd(snid + 1, op_s2(p, new, r))
              /\ S2Ptab(p, snid + 1, new, r)
              /\ UNCHANGED <<phase, pf_loggedon, overshot>>
           \/ /\ ~invalid /\ ~dups
              /\ \E i \in found :
                    /\ MayVote(p, i, stab[i], r)
                    /\ stab' = [stab EXCEPT ![i] = op_s2(p, stab[i], r)]
                    /\ S2Ptab(p, i, stab[i], r)
              /\ UNCHANGED <<snid, phase, pf_loggedon, overshot>>

-----------------------------------------------------------------------------
(* A client leaves.                                                        *)

\* mutant: a process that has logged off may inherit
HeirsAny(p, e) ==
    {q \in Proc \ {p} : Me(q) = Me(p) /\ sp_xrid[q] > 0 /\ sp_xrid[q] = e.xrid}

\* std2(): who else could represent p's system in a user sync
Heirs(p, e) ==
    {q \in pf_loggedon \ {p} : /\ Me(q) = Me(p)
                               /\ sp_xrid[q] > 0
                               /\ sp_xrid[q] = e.xrid}

std2(p, e, up, heir) ==
    IF up.ptab # p THEN up
    ELSE IF Usync(e) /\ up.state = "NOTSYNCED" /\ Heirs(p, e) # {}
         THEN [up EXCEPT !.ptab = heir]
         ELSE [up EXCEPT !.ptab = NoProc, !.state = "DEAD"]

\* stdead() for one entry
EntryDead(p, e, heir) ==
    LET e2 == [e EXCEPT
                !.owner = IF @ = p THEN NoProc ELSE @,
                !.ud = [u \in DOMAIN e.ud |-> std2(p, e, e.ud[u], heir)]]
    IN  IF \E u \in DOMAIN e.ud : e.ud[u].ptab = p THEN stcheck(e2) ELSE e2

\* the heir is the first match in the process table, whose order is arbitrary
stdead(p) ==
    \E heir \in [DOMAIN stab -> Proc] :
        /\ \A i \in DOMAIN stab :
                Heirs(p, stab[i]) # {} => heir[i] \in Heirs(p, stab[i])
        /\ stab' = [i \in DOMAIN stab |-> EntryDead(p, stab[i], heir[i])]

OpLogoff(p) ==
    /\ Ready(p)
    /\ stdead(p)
    /\ Answer(p, "OK")
    /\ pf_loggedon' = pf_loggedon \ {p}
    /\ UNCHANGED <<snid, phase, pt_timeout, sp_stab, sp_xrid, overshot>>

\* tet_ss_dead(): the connection has closed; a process in PS_WAITSYNC is not
\* polled, so this is not noticed while it waits
Dead(p) ==
    /\ phase = "procrun"
    /\ pt_state[p] \in {"RCVMSG", "SNDMSG"}
    /\ stdead(p)
    /\ pt_state' = [pt_state EXCEPT ![p] = "NONE"]
    /\ pf_loggedon' = pf_loggedon \ {p}
    /\ pt_timeout' = [pt_timeout EXCEPT ![p] = "off"]
    /\ sp_stab' = [sp_stab EXCEPT ![p] = 0]
    /\ sp_xrid' = [sp_xrid EXCEPT ![p] = -1]
    /\ ptm' = [ptm EXCEPT ![p] = NoReply]
    /\ UNCHANGED <<snid, phase, overshot>>

-----------------------------------------------------------------------------
(* The server loop.                                                        *)

NeedsAttention(i) == "ATTENTION" \in stab[i].flags

EndProcrun ==
    /\ phase = "procrun"
    /\ phase' = IF \E i \in DOMAIN stab : NeedsAttention(i)
                THEN "stloop" ELSE "timeouts"
    /\ UNCHANGED <<stab, snid, ptabvars, overshot>>

StService(i) ==
    LET e    == [stab[i] EXCEPT !.flags = @ \ {"ATTENTION"}]
        wake == {e.ud[u].ptab : u \in Woken(e)}
        UserOf(p) == CHOOSE u \in Woken(e) : e.ud[u].ptab = p
    IN  /\ phase = "stloop"
        /\ i \in DOMAIN stab
        /\ NeedsAttention(i)
        /\ \/ /\ ~SyncmsgAsserts(e)
              /\ phase' = "fatal"
              /\ UNCHANGED <<stab, snid, ptabvars, overshot>>
           \/ /\ SyncmsgAsserts(e)
              /\ stab' = IF NoLongerRequired(e) THEN strm(i)
                         ELSE [stab EXCEPT ![i] = EntryAfter(e)]
              /\ overshot' = (overshot \/ \E u \in Woken(e) : e.ud[u].spno > EventSpno(e))
              /\ pt_state' = [p \in Proc |-> IF p \in wake THEN "SNDMSG" ELSE pt_state[p]]
              /\ sp_stab' = [p \in Proc |-> IF p \in wake THEN 0 ELSE sp_stab[p]]
              /\ pt_timeout' = [p \in Proc |-> IF p \in wake THEN "off" ELSE pt_timeout[p]]
              /\ ptm' = [p \in Proc |-> IF p \in wake THEN synmsg2(e, UserOf(p)) ELSE ptm[p]]
              /\ UNCHANGED <<snid, phase, pf_loggedon, sp_xrid>>

EndStloop ==
    /\ phase = "stloop"
    /\ \A i \in DOMAIN stab : ~NeedsAttention(i)
    /\ phase' = "timeouts"
    /\ UNCHANGED <<stab, snid, ptabvars, overshot>>

\* tet_ss_timeout(), called with pt_timeout already reset
Timeout(p) ==
    LET i  == sp_stab[p]
        Up(u) == stab[i].ud[u].ptab = p
    IN  /\ phase = "timeouts"
        /\ pt_timeout[p] = "armed"
        /\ pt_state[p] = "WAITSYNC"
        /\ \/ /\ \/ i \notin DOMAIN stab
                 \/ ~\E u \in DOMAIN stab[i].ud : Up(u)
                 \/ \E u \in DOMAIN stab[i].ud :
                        Up(u) /\ stab[i].ud[u].state = "NOTSYNCED"
              /\ phase' = "fatal"
              /\ UNCHANGED <<stab, pt_timeout>>
           \/ /\ i \in DOMAIN stab
              /\ \E u \in DOMAIN stab[i].ud :
                    /\ Up(u)
                    /\ stab[i].ud[u].state # "NOTSYNCED"
                    /\ stab' = IF stab[i].ud[u].state \in {"SYNCYES", "SYNCNO"}
                               THEN [stab EXCEPT ![i] =
                                        stcheck([@ EXCEPT !.ud[u].state = "TIMEDOUT"])]
                               ELSE stab
              /\ pt_timeout' = [pt_timeout EXCEPT ![p] = "expired"]
              /\ UNCHANGED phase
        /\ UNCHANGED <<snid, pt_state, pf_loggedon, sp_stab, sp_xrid, ptm, overshot>>

\* Entries flagged by the timers are serviced; otherwise the replies go out
\* and the next requests arrive.  (A reply that leaves in si_procrun() brings
\* a new request in a later poll only, and nothing looks at PS_SNDMSG before.)
EndTimeouts ==
    /\ phase = "timeouts"
    /\ \/ /\ \E i \in DOMAIN stab : NeedsAttention(i)
          /\ phase' = "stloop"
          /\ UNCHANGED <<pt_state, ptm>>
       \/ /\ \A i \in DOMAIN stab : ~NeedsAttention(i)
          /\ phase' = "procrun"
          /\ pt_state' = [p \in Proc |-> IF pt_state[p] = "SNDMSG"
                                         THEN "RCVMSG" ELSE pt_state[p]]
          /\ ptm' = [p \in Proc |-> NoReply]
    /\ UNCHANGED <<stab, snid, pf_loggedon, pt_timeout, sp_stab, sp_xrid, overshot>>

-----------------------------------------------------------------------------
Init ==
    /\ stab = <<>>
    /\ snid = 0
    /\ phase = "procrun"
    /\ pt_state = [p \in Proc |-> "NONE"]
    /\ pf_loggedon = {}
    /\ pt_timeout = [p \in Proc |-> "off"]
    /\ sp_stab = [p \in Proc |-> 0]
    /\ sp_xrid = [p \in Proc |-> -1]
    /\ ptm = [p \in Proc |-> NoReply]
    /\ overshot = FALSE

Requests(p) ==
    \/ OpLogon(p) \/ OpNotLoggedOn(p) \/ OpLogoff(p) \/ OpSnget(p)
    \/ \E i \in 1..SNIDMAX :
        \/ OpSnrm(p, i)
        \/ \E list \in SysLists : OpSnsys(p, i, list)
        \/ \E r \in AutoReqs : OpAsync(p, i, r)
        \/ \E list \in UserLists, r \in UserReqs : OpUsync(p, i, list, r)

ServerLoop == EndProcrun \/ EndStloop \/ EndTimeouts
                \/ \E i \in DOMAIN stab : StService(i)

Next == \/ \E p \in Proc : Requests(p) \/ Dead(p) \/ Timeout(p)
        \/ ServerLoop

Spec == Init /\ [][Next]_vars
-----------------------------------------------------------------------------
(* Fairness.  The loop never stops while a client is connected, stloop()   *)
(* services every entry that needs attention before it returns, and        *)
(* si_timeouts() looks at every timer in every iteration, so a timer that  *)
(* stays armed is found expired in the end.  Clients owe nothing.          *)
Fairness ==
    /\ WF_vars(EndProcrun) /\ WF_vars(EndStloop) /\ WF_vars(EndTimeouts)
    /\ \A i \in 1..SNIDMAX : WF_vars(StService(i))
    /\ \A p \in Proc : SF_vars(Timeout(p))

FairSpec == Spec /\ Fairness

-----------------------------------------------------------------------------
(* Properties.                                                             *)

Phase   == {"procrun", "stloop", "timeouts", "fatal"}
PtState == {"NONE", "RCVMSG", "SNDMSG", "WAITSYNC"}

\* The values the daemon's tables range over.
TypeOK ==
    /\ DOMAIN stab \subseteq 1..snid
    /\ \A i \in DOMAIN stab : IsStab(stab[i])
    /\ snid \in 0..SNIDMAX
    /\ phase \in Phase
    /\ pt_state \in [Proc -> PtState]
    /\ pf_loggedon \subseteq Proc
    /\ pt_timeout \in [Proc -> Timer]
    /\ sp_stab \in [Proc -> 0..SNIDMAX]
    /\ sp_xrid \in [Proc -> Int]
    /\ ptm \in [Proc -> Reply]
    /\ overshot \in BOOLEAN

\* No sync table entry points at the ptab of a process that has logged off or
\* died, and a user's ptab is that of a process of the user's own system (and
\* type): stdead() finds every reference, std2() hands over only to its equal.
NoDanglingPtab ==
    \A i \in DOMAIN stab :
        /\ stab[i].owner \in pf_loggedon \cup {NoProc}
        /\ \A u \in DOMAIN stab[i].ud :
              LET q == stab[i].ud[u].ptab
              IN  q # NoProc => q \in pf_loggedon /\ Matches(q, stab[i], u)

\* The entry is marked as having voters, or is about to be serviced:
\* op_snrm() and op_snsys() leave it alone.
Marked(e)   == {"INPROGRESS", "ATTENTION"} \cap e.flags # {}
Holds(e, p) == Marked(e) /\ \E u \in DOMAIN e.ud :
                                e.ud[u].ptab = p /\ Voted(e.ud[u])

\* A process that waits is not forgotten: the event it waits on is still in
\* the table and holds its vote, so the servicing of that event will wake it.
\* (stservice() frees entries, op_snsys() rewrites them, stuend() ends events
\* early and stperr() wakes only some of the voters.)
WaiterHeld ==
    ~Siblings =>
        \A p \in Proc : pt_state[p] = "WAITSYNC" =>
            sp_stab[p] \in DOMAIN stab /\ Holds(stab[sp_stab[p]], p)

\* Every vote in the table belongs to a process that is waiting for that very
\* event, as syncmsg() asserts when it wakes the voter.
VoteHasWaiter ==
    ~Siblings /\ ~overshot =>
        \A i \in DOMAIN stab : \A u \in DOMAIN stab[i].ud :
            Voted(stab[i].ud[u]) => WaitsIn(stab[i].ud[u].ptab, i)

\* The assertions of syncmsg(), synmsg2() and tet_ss_timeout() hold.
NoFatal == ~Siblings /\ ~overshot => phase # "fatal"

\* One event, one entry: processes that name the same participants under the
\* same XRID meet in the same user sync, whatever the order of their lists.
UserSyncUnique ==
    \A i, j \in (DOMAIN stab \ stafind) :
        /\ stab[i].xrid = stab[j].xrid
        /\ DOMAIN stab[i].ud = DOMAIN stab[j].ud
        => i = j

\* A barrier: a process is told ER_OK for a sync point only in a step in which
\* every participant of the event is waiting in it, has voted YES, and has not
\* yet got past that sync point.
Released(p) == pt_state[p] = "WAITSYNC" /\ pt_state'[p] = "SNDMSG"
BarrierStep ==
    ~Siblings /\ ~overshot =>
        \A p \in Proc : Released(p) /\ ptm'[p].rc = "OK" =>
            \A u \in DOMAIN stab[sp_stab[p]].ud :
                LET up == stab[sp_stab[p]].ud[u]
                IN  /\ up.state = "SYNCYES"
                    /\ WaitsIn(up.ptab, sp_stab[p])
                    /\ up.spno # 0 => up.spno >= ptm'[p].spno
OkIsBarrier == [][BarrierStep]_vars

\* Message data and its sender leave an event together: who receives data is
\* told the system of a process that is released by the same event.
DataStep ==
    ~Siblings /\ ~overshot =>
        \A p \in Proc : Released(p) /\ ptm'[p].sm.sysid >= 0 =>
            \E q \in Proc : /\ WaitsIn(q, sp_stab[p]) /\ Released(q)
                            /\ ptr_sysid[q] = ptm'[p].sm.sysid
DataComesFromEvent == [][DataStep]_vars

\* A process that gave a timeout is answered.
TimedWaitEnds ==
    \A p \in Proc : pt_state[p] = "WAITSYNC" /\ pt_timeout[p] = "armed"
                        ~> pt_state[p] # "WAITSYNC" \/ phase = "fatal"

\* stab.c:533 and the other assertions met when an event is serviced:
\* no sequence of legal requests makes one fail.
AssertsHold == phase # "fatal"
=============================================================================
