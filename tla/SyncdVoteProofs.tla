-------------------------- MODULE SyncdVoteProofs --------------------------
(***************************************************************************)
(* Every vote belongs to a process that waits for it, no assertion fails,  *)
(* ER_OK means that everybody is there, and data comes with its sender:    *)
(* VoteHasWaiter, NoFatal, OkIsBarrier and DataComesFromEvent, proved.     *)
(*                                                                         *)
(* The assertions hold of what StService() finds in an entry, which is     *)
(* what stcheck() saw when it set SF_ATTENTION.  In between requests are   *)
(* handled and processes die; so the invariant has to say that none of     *)
(* this changes an entry whose users have all voted YES.                   *)
(***************************************************************************)
EXTENDS SyncdWaitProofs

-----------------------------------------------------------------------------
(* The invariant.                                                          *)

\* An event that is about to be serviced and is no failure: all voted YES;
\* and SF_OK is set only in such an event.
Agreed(e) ==
    /\ "ATTENTION" \in e.flags /\ "ERR" \notin e.flags =>
            \A u \in DOMAIN e.ud : e.ud[u].state = "SYNCYES"
    /\ "OK" \in e.flags =>
            /\ "ATTENTION" \in e.flags
            /\ \A u \in DOMAIN e.ud : e.ud[u].state = "SYNCYES"

\* When the timers run only timeouts have made events happen.
Late(e) == /\ "OK" \notin e.flags
           /\ "ATTENTION" \in e.flags => "ERR" \in e.flags

Waited(e, i) == \A u \in DOMAIN e.ud : Voted(e.ud[u]) => WaitsIn(e.ud[u].ptab, i)

\* Message data comes from a voter, who syncs to the sync point it is for.
Sent(e) == e.sm.sysid >= 0 =>
                \E u \in DOMAIN e.ud : /\ Voted(e.ud[u]) /\ u.sysid = e.sm.sysid
                                       /\ e.ud[u].spno = e.sm.spno

Good(i) == Waited(stab[i], i) /\ Agreed(stab[i]) /\ Sent(stab[i])

VInv == ~Siblings /\ ~overshot =>
            \A i \in DOMAIN stab : Good(i) /\ (phase = "timeouts" => Late(stab[i]))

-----------------------------------------------------------------------------
(* The operations on one entry.                                            *)

\* stcheck() declares success if all have voted YES.
LEMMA stcheckAgreed ==
  ASSUME NEW e, IsStab(e), Agreed(e)
  PROVE  Agreed(stcheck(e)) /\ (Sent(e) => Sent(stcheck(e)))
<1>1. stcheck(e).ud = e.ud /\ stcheck(e).sm = e.sm
  BY stcheckType
<1>2. CASE stcheck(e) = e
  BY <1>2
<1>3. CASE /\ "ATTENTION" \notin e.flags /\ Happened(e)
           /\ ~SomeUser(e, {"TIMEDOUT", "SYNCNO", "DEAD"})
  <2>1. \A u \in DOMAIN e.ud : e.ud[u].state \in UserState
    BY DEF IsStab, IsUd, Ustab
  <2>2. \A u \in DOMAIN e.ud : e.ud[u].state = "SYNCYES"
    BY <1>3, <2>1 DEF Happened, SomeUser, UserState
  <2>3. "ATTENTION" \in stcheck(e).flags
    BY <1>3 DEF stcheck, IsStab, Stab
  <2>. QED  BY <1>1, <2>2, <2>3 DEF Agreed, Sent
<1>4. CASE /\ "ATTENTION" \notin e.flags /\ Happened(e)
           /\ SomeUser(e, {"TIMEDOUT", "SYNCNO", "DEAD"})
  <2>1. "ERR" \in stcheck(e).flags /\ "OK" \notin stcheck(e).flags
    BY <1>4 DEF Agreed, stcheck, IsStab, Stab
  <2>. QED  BY <1>1, <2>1 DEF Agreed, Sent
<1>. QED  BY <1>2, <1>3, <1>4 DEF stcheck

\* A timeout makes the event fail at once.
LEMMA stcheckLate ==
  ASSUME NEW e, IsStab(e), SomeUser(e, {"TIMEDOUT"}), Late(e)
  PROVE  Late(stcheck(e))
<1>1. CASE stcheck(e) = e
  BY <1>1
<1>2. CASE stcheck(e) # e
  <2>1. SomeUser(e, {"TIMEDOUT", "SYNCNO", "DEAD"})
    BY DEF SomeUser
  <2>2. "ERR" \in stcheck(e).flags /\ "OK" \notin stcheck(e).flags
    BY <1>2, <2>1 DEF Late, stcheck, IsStab, Stab
  <2>. QED  BY <2>2 DEF Late
<1>. QED  BY <1>1, <1>2

\* f has the votes of e or fewer, and is no worse.
Kept(e, f) ==
    /\ Agreed(e) => Agreed(f)
    /\ Sent(e) => Sent(f)
    /\ \A u \in DOMAIN f.ud : Voted(f.ud[u]) =>
            u \in DOMAIN e.ud /\ Voted(e.ud[u]) /\ f.ud[u].ptab = e.ud[u].ptab

LEMMA SameVotes ==
  ASSUME NEW e, NEW f, DOMAIN f.ud = DOMAIN e.ud, f.sm = e.sm,
         \/ f.flags = e.flags
         \/ /\ {"ERR", "ATTENTION"} \subseteq f.flags
            /\ "OK" \in f.flags => "OK" \in e.flags,
         \A u \in DOMAIN e.ud : /\ f.ud[u].state = e.ud[u].state
                                /\ f.ud[u].ptab = e.ud[u].ptab
                                /\ f.ud[u].spno = e.ud[u].spno
  PROVE  Kept(e, f)
BY DEF Kept, Agreed, Sent, Voted

\* p's vote, where nobody had p's place.
LEMMA VoteKept ==
  ASSUME NEW p \in Proc, NEW e, IsStab(e), NEW r, GoodReq(r), HasMyup(p, e),
         ~Voted(e.ud[Myup(p, e)]), Agreed(e), Sent(e)
  PROVE  Agreed(Vote(p, e, r)) /\ Sent(Vote(p, e, r))
<1>. DEFINE x == Myup(p, e)
<1>1. PICK e2 : /\ Vote(p, e, r) = stcheck(e2)
                /\ IsStab(e2)
                /\ e2.flags = e.flags \cup {"INPROGRESS"}
                /\ e2.sm = VoterSm(p, e, r)
                /\ DOMAIN e2.ud = DOMAIN e.ud
                /\ e2.ud[x] = Voter(p, r)
                /\ \A u \in DOMAIN e.ud \ {x} : e2.ud[u] = e.ud[u]
  BY VoteRecord
<1>2. x \in DOMAIN e.ud /\ x.sysid = ptr_sysid[p]
  BY MyupInUd DEF Matches
<1>. HIDE DEF x
<1>3. Agreed(e2)
  <2>1. e.ud[x].state # "SYNCYES"
    BY DEF Voted, x
  <2>. QED  BY <1>1, <1>2, <2>1 DEF Agreed
<1>4. Sent(e2)
  <2>1. CASE e2.sm.sysid = e.sm.sysid /\ e2.sm.spno = e.sm.spno
    <3>1. SUFFICES ASSUME e.sm.sysid >= 0 PROVE Sent(e2)
      BY <2>1 DEF Sent
    <3>2. PICK u \in DOMAIN e.ud : /\ Voted(e.ud[u]) /\ u.sysid = e.sm.sysid
                                   /\ e.ud[u].spno = e.sm.spno
      BY <3>1 DEF Sent
    <3>3. u # x
      BY <3>2 DEF x
    <3>. QED  BY <1>1, <2>1, <3>2, <3>3 DEF Sent
  <2>2. CASE e2.sm.sysid = ptr_sysid[p] /\ e2.sm.spno = r.spno
    BY <1>1, <1>2, <2>2 DEF Sent, Voter, Voted
  <2>3. e.sm \in Synmsg
    BY DEF IsStab, Stab
  <2>4. \/ VoterSm(p, e, r).sysid = e.sm.sysid /\ VoterSm(p, e, r).spno = e.sm.spno
        \/ VoterSm(p, e, r).sysid = ptr_sysid[p] /\ VoterSm(p, e, r).spno = r.spno
    BY <2>3 DEF VoterSm, procmsdata, Synmsg
  <2>. QED  BY <1>1, <2>1, <2>2, <2>4
<1>. QED  BY <1>1, <1>3, <1>4, stcheckAgreed

\* The death of a process that has not voted.
LEMMA EntryDeadKept ==
  ASSUME NEW p, NEW e, IsStab(e), NEW heir \in Proc,
         Heirs(p, e) # {} => heir \in Heirs(p, e),
         \A u \in DOMAIN e.ud : Voted(e.ud[u]) => e.ud[u].ptab # p
  PROVE  Kept(e, EntryDead(p, e, heir))
<1>1. PICK e2 : /\ EntryDead(p, e, heir) =
                      IF \E u \in DOMAIN e.ud : e.ud[u].ptab = p THEN stcheck(e2) ELSE e2
                /\ IsStab(e2) /\ Same(e, e2)
                /\ e2.flags = e.flags /\ e2.sm = e.sm
                /\ \A u \in DOMAIN e.ud : e2.ud[u] = std2(p, e, e.ud[u], heir)
  BY EntryDeadRecord
<1>2. \A u \in DOMAIN e.ud : e.ud[u].ptab # p => e2.ud[u] = e.ud[u]
  BY <1>1 DEF std2
<1>3. \A u \in DOMAIN e.ud : e.ud[u].ptab = p => ~Voted(e2.ud[u])
  <2>1. SUFFICES ASSUME NEW u \in DOMAIN e.ud, e.ud[u].ptab = p
                 PROVE  ~Voted(std2(p, e, e.ud[u], heir))
    BY <1>1
  <2>2. e.ud[u] \in Ustab /\ ~Voted(e.ud[u])
    BY <2>1 DEF IsStab, IsUd
  <2>3. std2(p, e, e.ud[u], heir).state \in {e.ud[u].state, "DEAD"}
    BY <2>1, <2>2 DEF std2, Ustab
  <2>. QED  BY <2>2, <2>3 DEF Voted
<1>4. Kept(e, e2)
  <2>1. DOMAIN e2.ud = DOMAIN e.ud
    BY <1>1 DEF Same
  <2>2. Sent(e) => Sent(e2)
    BY <1>1, <1>2, <2>1 DEF Sent
  <2>3. Agreed(e) => Agreed(e2)
    BY <1>1, <1>2, <2>1 DEF Agreed, Voted
  <2>. QED  BY <1>2, <1>3, <2>1, <2>2, <2>3 DEF Kept
<1>5. Kept(e, stcheck(e2))
  <2>1. stcheck(e2).ud = e2.ud /\ stcheck(e2).sm = e2.sm
    BY <1>1, stcheckType
  <2>2. Agreed(e) => Agreed(stcheck(e2))
    BY <1>1, <1>4, stcheckAgreed DEF Kept
  <2>. QED  BY <1>4, <2>1, <2>2 DEF Kept, Sent
<1>. QED  BY <1>1, <1>4, <1>5

\* stuend() marks the entries that it ends as failed.
LEMMA stuendKept ==
  ASSUME NEW tab, NEW id, NEW n, NEW i \in DOMAIN tab, IsStab(tab[i])
  PROVE  Kept(tab[i], stuend(tab, id, n)[i])
<1>. DEFINE F == (tab[i].flags \ {"INPROGRESS"}) \cup {"ERR", "ATTENTION"}
<1>1. PICK e : e = tab[i]
  OBVIOUS
<1>2. PICK f : f = [e EXCEPT !.flags = F]
  OBVIOUS
<1>3. stuend(tab, id, n)[i] \in {e, f}
  BY <1>1, <1>2 DEF stuend
<1>4. f.ud = e.ud /\ f.sm = e.sm /\ f.flags = F
  <2>. HIDE DEF F
  <2>. QED  BY <1>1, <1>2 DEF IsStab, Stab
<1>5. Kept(e, f) /\ Kept(e, e)
  <2>1. {"ERR", "ATTENTION"} \subseteq f.flags /\ ("OK" \in f.flags => "OK" \in e.flags)
    BY <1>1, <1>4
  <2>2. Kept(e, f)
    BY <1>4, <2>1, SameVotes
  <2>. QED  BY <2>2 DEF Kept
<1>. QED  BY <1>1, <1>3, <1>5

-----------------------------------------------------------------------------
(* The steps of the clients.                                               *)

WaitsNext(q, i) == q \in Proc /\ pt_state'[q] = "WAITSYNC" /\ sp_stab'[q] = i

\* f is a good entry i of the next state.
GoodNext(f, i) ==
    /\ Agreed(f)
    /\ Sent(f)
    /\ \A u \in DOMAIN f.ud : Voted(f.ud[u]) => WaitsNext(f.ud[u].ptab, i)

VTab == \A i \in DOMAIN stab : Good(i)

\* Who waits goes on waiting.
StillWait == \A q \in Proc : pt_state[q] = "WAITSYNC" =>
                pt_state'[q] = "WAITSYNC" /\ sp_stab'[q] = sp_stab[q]

LEMMA TabGood ==
  ASSUME \A i \in DOMAIN stab' : GoodNext(stab'[i], i)
  PROVE  VTab'
BY DEF VTab, Good, Waited, WaitsIn, GoodNext, WaitsNext, Agreed, Sent, Voted

LEMMA GoodKept ==
  ASSUME NEW e, NEW f, NEW i, Agreed(e), Sent(e), Waited(e, i), Kept(e, f), StillWait
  PROVE  GoodNext(f, i)
BY DEF Waited, WaitsIn, GoodNext, WaitsNext, Kept, StillWait

LEMMA KeptItself ==
  ASSUME NEW e
  PROVE  Kept(e, e)
BY DEF Kept

\* Entries are removed or keep their votes.
LEMMA KeptGood ==
  ASSUME VTab, StillWait,
         \A i \in DOMAIN stab' : i \in DOMAIN stab /\ Kept(stab[i], stab'[i])
  PROVE  VTab'
BY GoodKept, TabGood DEF VTab, Good

LEMMA AnswerWaits ==
  ASSUME TypeOK, NEW p \in Proc, pt_state[p] # "WAITSYNC", NEW rc, Answer(p, rc),
         UNCHANGED sp_stab
  PROVE  StillWait
BY DEF TypeOK, Answer, StillWait

LEMMA RefuseGood ==
  ASSUME TypeOK, VTab, NEW p \in Proc, pt_state[p] # "WAITSYNC", NEW rc, Refuse(p, rc)
  PROVE  VTab'
BY AnswerWaits, KeptItself, KeptGood DEF Refuse

LEMMA LogonGood ==
  ASSUME TypeOK, VTab, NEW p \in Proc, OpLogon(p) \/ OpNotLoggedOn(p)
  PROVE  VTab'
<1>1. CASE OpLogon(p)
  BY <1>1, AnswerWaits, KeptItself, KeptGood DEF OpLogon
<1>2. CASE OpNotLoggedOn(p)
  BY <1>2, RefuseGood DEF OpNotLoggedOn
<1>. QED  BY <1>1, <1>2

LEMMA SngetGood ==
  ASSUME TypeOK, VTab, NEW p \in Proc, OpSnget(p)
  PROVE  VTab'
<1>1. pt_state[p] # "WAITSYNC"
  BY DEF OpSnget, Ready
<1>2. CASE Refuse(p, "ERR")
  BY <1>1, <1>2, RefuseGood
<1>3. CASE ~Refuse(p, "ERR")
  <2>. DEFINE e == [stalloc(snid + 1) EXCEPT !.owner = p]
  <2>1. stab' = stadd(snid + 1, e) /\ Answer(p, "OK") /\ UNCHANGED sp_stab
    BY <1>3 DEF OpSnget
  <2>2. StillWait
    BY <1>1, <2>1, AnswerWaits
  <2>3. e.flags = {} /\ DOMAIN e.ud = {} /\ e.sm.sysid = -1
    BY DEF stalloc, NoMsg
  <2>4. GoodNext(e, snid + 1)
    BY <2>3 DEF GoodNext, Agreed, Sent
  <2>. HIDE DEF e
  <2>5. \A i \in DOMAIN stab' : stab'[i] = IF i = snid + 1 THEN e ELSE stab[i]
    BY <2>1 DEF stadd
  <2>6. \A i \in DOMAIN stab' : i # snid + 1 => i \in DOMAIN stab
    BY <2>1 DEF stadd
  <2>7. \A i \in DOMAIN stab : GoodNext(stab[i], i)
    BY <2>2, KeptItself, GoodKept DEF VTab, Good
  <2>. QED  BY <2>4, <2>5, <2>6, <2>7, TabGood
<1>. QED  BY <1>2, <1>3

LEMMA SnrmGood ==
  ASSUME TypeOK, VTab, NEW p \in Proc, NEW i, OpSnrm(p, i)
  PROVE  VTab'
<1>1. pt_state[p] # "WAITSYNC"
  BY DEF OpSnrm, Ready
<1>2. CASE \E rc : Refuse(p, rc)
  BY <1>1, <1>2, RefuseGood
<1>3. CASE ~ \E rc : Refuse(p, rc)
  <2>1. stab' = strm(i) /\ Answer(p, "OK") /\ UNCHANGED sp_stab
    BY <1>3, Zenon DEF OpSnrm
  <2>2. \A k \in DOMAIN stab' : k \in DOMAIN stab /\ stab'[k] = stab[k]
    BY <2>1 DEF strm
  <2>. QED  BY <1>1, <2>1, <2>2, AnswerWaits, KeptItself, KeptGood
<1>. QED  BY <1>2, <1>3

\* An entry that is not marked has no voters, and so no message data.
LEMMA SnsysGood ==
  ASSUME ~Siblings, TypeOK, WaiterHeld, VTab, NEW p \in Proc, NEW i, NEW list,
         OpSnsys(p, i, list)
  PROVE  VTab'
<1>1. pt_state[p] # "WAITSYNC"
  BY DEF OpSnsys, Ready
<1>2. CASE \E rc : Refuse(p, rc)
  BY <1>1, <1>2, RefuseGood
<1>3. CASE ~ \E rc : Refuse(p, rc)
  <2>. DEFINE ud == [u \in SysUsers(list) |-> NewUser]
  <2>1. /\ i \in DOMAIN stab /\ ~Marked(stab[i])
        /\ stab' = [stab EXCEPT ![i].ud = ud]
        /\ Answer(p, "OK") /\ UNCHANGED sp_stab
    BY <1>3 DEF OpSnsys, Marked, stafind
  <2>2. PICK e : e = stab[i]
    OBVIOUS
  <2>3. IsStab(e) /\ Good(i)
    BY <2>1, <2>2 DEF TypeOK, VTab
  <2>4. \A u \in DOMAIN e.ud : ~Voted(e.ud[u])
    BY <2>1, <2>2, <2>3 DEF Good, Waited, WaitsIn, WaiterHeld, Holds
  <2>5. ~(e.sm.sysid >= 0)
    BY <2>2, <2>3, <2>4 DEF Good, Sent
  <2>6. \A u \in DOMAIN ud : ~Voted(ud[u])
    BY DEF NewUser, Voted
  <2>. HIDE DEF ud
  <2>7. PICK f : f = [e EXCEPT !.ud = ud]
    OBVIOUS
  <2>8. f.ud = ud /\ f.flags = e.flags /\ f.sm = e.sm
    BY <2>3, <2>7 DEF IsStab, Stab
  <2>9. GoodNext(f, i)
    BY <2>1, <2>2, <2>3, <2>5, <2>6, <2>8 DEF Good, GoodNext, Agreed, Sent, Marked
  <2>10. stab' = [stab EXCEPT ![i] = f]
    BY <2>1, <2>2, <2>7, Zenon
  <2>11. StillWait
    BY <1>1, <2>1, AnswerWaits
  <2>12. \A k \in DOMAIN stab : GoodNext(stab[k], k)
    BY <2>11, KeptItself, GoodKept DEF VTab, Good
  <2>. QED  BY <2>9, <2>10, <2>12, TabGood
<1>. QED  BY <1>2, <1>3

\* op_s2() in an entry where p's place is free.
LEMMA op_s2Good ==
  ASSUME ~Siblings, TypeOK, NEW p \in Proc, pt_state[p] # "WAITSYNC", NEW i,
         NEW e, IsStab(e), NEW r, GoodReq(r),
         Agreed(e), Sent(e), Waited(e, i),
         HasMyup(p, e) => ~Voted(e.ud[Myup(p, e)]),
         S2Ptab(p, i, e, r)
  PROVE  GoodNext(op_s2(p, e, r), i) /\ StillWait
<1>1. StillWait
  <2>1. \A q \in Proc : p # q => pt_state'[q] = pt_state[q] /\ sp_stab'[q] = sp_stab[q]
    BY S2PtabHeld
  <2>. QED  BY <2>1 DEF StillWait
<1>2. CASE S2Rc(p, e, r) = "WAIT"
  <2>1. PICK f : f = op_s2(p, e, r)
    OBVIOUS
  <2>2. HasMyup(p, e) /\ f = Vote(p, e, r)
    BY <1>2, <2>1, S2Wait
  <2>3. Agreed(f) /\ Sent(f)
    BY <2>2, VoteKept
  <2>4. WaitsNext(p, i)
    BY <1>2 DEF S2Ptab, WaitsNext, TypeOK
  <2>5. ASSUME NEW u \in DOMAIN f.ud, Voted(f.ud[u])
        PROVE  WaitsNext(f.ud[u].ptab, i)
    <3>1. CASE u = Myup(p, e)
      BY <2>2, <2>4, <3>1, VoteType
    <3>2. CASE u # Myup(p, e)
      <4>1. u \in DOMAIN e.ud /\ f.ud[u] = e.ud[u]
        BY <2>2, <2>5, <3>2, VoteType
      <4>. QED  BY <1>1, <2>5, <4>1 DEF Waited, WaitsIn, WaitsNext, StillWait
    <3>. QED  BY <3>1, <3>2
  <2>. QED  BY <1>1, <2>1, <2>3, <2>5 DEF GoodNext
<1>3. CASE S2Rc(p, e, r) = "DONE"
  <2>1. PICK f : f = op_s2(p, e, r)
    OBVIOUS
  <2>2. /\ DOMAIN f.ud = DOMAIN e.ud /\ f.sm = e.sm /\ f.flags = e.flags
        /\ \A u \in DOMAIN e.ud : /\ f.ud[u].state = e.ud[u].state
                                  /\ f.ud[u].ptab = e.ud[u].ptab
                                  /\ f.ud[u].spno = e.ud[u].spno
    BY <1>3, <2>1, DoneType DEF Same
  <2>3. Kept(e, f)
    BY <2>2, SameVotes
  <2>. QED  BY <1>1, <2>1, <2>3, GoodKept
<1>4. CASE S2Rc(p, e, r) = "SYSID"
  <2>1. op_s2(p, e, r) = e
    BY <1>4 DEF op_s2
  <2>. QED  BY <1>1, <2>1, KeptItself, GoodKept
<1>5. S2Rc(p, e, r) \in {"WAIT", "DONE", "SYSID"}
  BY DEF S2Rc
<1>. QED  BY <1>2, <1>3, <1>4, <1>5

\* The discipline of the clients: p's place in the entry is free.
LEMMA PlaceFree ==
  ASSUME ~Siblings, NEW p \in Proc, pt_state[p] # "WAITSYNC", NEW i, NEW r,
         NEW e, Waited(e, i), MayVote(p, i, e, r), HasMyup(p, e)
  PROVE  ~Voted(e.ud[Myup(p, e)])
BY MyupInUd DEF Waited, MayVote, WaitsIn

LEMMA AsyncGood ==
  ASSUME ~Siblings, TypeOK, VTab, NEW p \in Proc, NEW i, NEW r \in AutoReqs,
         OpAsync(p, i, r)
  PROVE  VTab'
<1>1. pt_state[p] # "WAITSYNC"
  BY DEF OpAsync, Ready
<1>2. CASE \E rc : Refuse(p, rc)
  BY <1>1, <1>2, RefuseGood
<1>3. CASE ~ \E rc : Refuse(p, rc)
  <2>. DEFINE waits == S2Rc(p, stab[i], r) = "WAIT"
              e     == op_s2(p, stab[i], r)
              e2    == IF waits /\ e.xrid < 0 /\ r.xrid > 0
                       THEN [e EXCEPT !.xrid = r.xrid] ELSE e
              tab   == [stab EXCEPT ![i] = e2]
  <2>1. /\ r.spno >= 0
        /\ i \in stafind
        /\ MayVote(p, i, stab[i], r)
        /\ stab' = stuend(tab, i, ptr_sysid[p])
        /\ S2Ptab(p, i, stab[i], r)
    BY <1>3, Zenon DEF OpAsync
  <2>2. i \in DOMAIN stab /\ IsStab(stab[i]) /\ Good(i)
    BY <2>1 DEF stafind, TypeOK, VTab
  <2>3. GoodReq(r) /\ r.xrid \in Int
    BY <2>1, SyncdAssumption DEF GoodReq, Request
  <2>4. IsStab(e)
    BY <2>2, <2>3, op_s2Type
  <2>5. GoodNext(e, i) /\ StillWait
    <3>1. PICK e0 : e0 = stab[i]
      OBVIOUS
    <3>2. HasMyup(p, e0) => ~Voted(e0.ud[Myup(p, e0)])
      BY <1>1, <2>1, <2>2, <3>1, PlaceFree DEF Good
    <3>3. S2Ptab(p, i, e0, r) /\ IsStab(e0) /\ Agreed(e0) /\ Sent(e0) /\ Waited(e0, i)
      BY <2>1, <2>2, <3>1 DEF Good
    <3>4. GoodNext(op_s2(p, e0, r), i) /\ StillWait
      BY <1>1, <2>3, <3>2, <3>3, op_s2Good
    <3>. QED  BY <3>1, <3>4
  <2>6. IsStab(e2) /\ GoodNext(e2, i)
    <3>1. PICK f : f = e
      OBVIOUS
    <3>2. IsStab(f) /\ GoodNext(f, i)
      BY <2>4, <2>5, <3>1
    <3>. HIDE DEF e, waits
    <3>3. IsStab([f EXCEPT !.xrid = r.xrid])
      BY <2>3, <3>2, XridType
    <3>4. /\ [f EXCEPT !.xrid = r.xrid].ud = f.ud
          /\ [f EXCEPT !.xrid = r.xrid].flags = f.flags
          /\ [f EXCEPT !.xrid = r.xrid].sm = f.sm
      BY <3>2 DEF IsStab, Stab
    <3>5. GoodNext([f EXCEPT !.xrid = r.xrid], i)
      BY <3>2, <3>4 DEF GoodNext, Agreed, Sent
    <3>. QED  BY <3>1, <3>2, <3>3, <3>5, Zenon
  <2>. HIDE DEF e, e2
  <2>7. DOMAIN tab = DOMAIN stab /\ tab[i] = e2
          /\ \A k \in DOMAIN stab \ {i} : tab[k] = stab[k]
    BY <2>2
  <2>8. \A k \in DOMAIN stab : GoodNext(stab[k], k)
    BY <2>5, KeptItself, GoodKept DEF VTab, Good
  <2>. HIDE DEF tab
  <2>9. \A k \in DOMAIN tab : IsStab(tab[k]) /\ GoodNext(tab[k], k)
    BY <2>6, <2>7, <2>8 DEF TypeOK
  <2>10. ASSUME NEW k \in DOMAIN stab'
         PROVE  GoodNext(stab'[k], k)
    <3>1. k \in DOMAIN tab
      BY <2>1, <2>10 DEF stuend
    <3>2. Kept(tab[k], stab'[k])
      BY <2>1, <2>9, <3>1, stuendKept
    <3>. QED  BY <2>9, <3>1, <3>2 DEF Kept, GoodNext
  <2>. QED  BY <2>10, TabGood
<1>. QED  BY <1>2, <1>3

LEMMA UsyncGood ==
  ASSUME ~Siblings, TypeOK, VTab, NEW p \in Proc, NEW id \in Int,
         NEW list \in UserLists, NEW r \in UserReqs, OpUsync(p, id, list, r)
  PROVE  VTab'
<1>. DEFINE users == {Me(p)} \cup Range(list)
            new   == NewUsync(id, r.xrid, users)
            found == stufind(r.xrid, users)
<1>1. pt_state[p] # "WAITSYNC"
  BY DEF OpUsync, Ready
<1>2. CASE \E rc : Refuse(p, rc)
  BY <1>1, <1>2, RefuseGood
<1>3. CASE ~ \E rc : Refuse(p, rc)
  <2>1. /\ ~(r.spno < 0)
        /\ \A j \in DOMAIN list : ~(list[j].sysid < 0)
        /\ \/ /\ stab' = stadd(snid + 1, op_s2(p, new, r))
              /\ S2Ptab(p, snid + 1, new, r)
           \/ \E i \in found :
                 /\ MayVote(p, i, stab[i], r)
                 /\ stab' = [stab EXCEPT ![i] = op_s2(p, stab[i], r)]
                 /\ S2Ptab(p, i, stab[i], r)
    BY <1>3 DEF OpUsync
  <2>2. GoodReq(r) /\ r.xrid \in Int
    BY <2>1, SyncdAssumption DEF GoodReq, Request
  <2>3. users \in SUBSET User
    <3>1. list \in Seq([sysid : Int, ptype : Ptype])
      BY SyncdAssumption
    <3>2. ASSUME NEW j \in DOMAIN list
          PROVE  list[j] \in User
      <4>1. list[j] \in [sysid : Int, ptype : Ptype]
        BY <3>1, SeqElement, Zenon
      <4>2. ~(list[j].sysid < 0)
        BY <2>1
      <4>. QED  BY <4>1, <4>2 DEF User
    <3>. QED  BY <3>2, MeType DEF Range
  <2>4. IsStab(new)
    BY <2>2, <2>3, NewUsyncType
  <2>5. new.flags = {"USYNC"} /\ new.sm = NoMsg /\ new.ud = [u \in users |-> NewUser]
    BY DEF NewUsync, stalloc
  <2>6. \A u \in DOMAIN new.ud : ~Voted(new.ud[u])
    BY <2>5 DEF NewUser, Voted
  <2>. HIDE DEF new, users, found
  <2>7. CASE /\ stab' = stadd(snid + 1, op_s2(p, new, r))
             /\ S2Ptab(p, snid + 1, new, r)
    <3>1. Agreed(new) /\ Sent(new) /\ Waited(new, snid + 1)
      BY <2>5, <2>6 DEF Agreed, Sent, Waited, NoMsg
    <3>2. HasMyup(p, new) => ~Voted(new.ud[Myup(p, new)])
      BY <2>6, MyupInUd
    <3>3. GoodNext(op_s2(p, new, r), snid + 1) /\ StillWait
      BY <1>1, <2>2, <2>4, <2>7, <3>1, <3>2, op_s2Good
    <3>4. \A k \in DOMAIN stab : GoodNext(stab[k], k)
      BY <3>3, KeptItself, GoodKept DEF VTab, Good
    <3>5. \A k \in DOMAIN stab' : \/ k = snid + 1 /\ stab'[k] = op_s2(p, new, r)
                                  \/ k \in DOMAIN stab /\ stab'[k] = stab[k]
      BY <2>7 DEF stadd
    <3>. QED  BY <3>3, <3>4, <3>5, TabGood
  <2>8. ASSUME NEW i \in found, MayVote(p, i, stab[i], r),
               stab' = [stab EXCEPT ![i] = op_s2(p, stab[i], r)],
               S2Ptab(p, i, stab[i], r)
        PROVE  VTab'
    <3>1. PICK e : e = stab[i]
      OBVIOUS
    <3>2. i \in DOMAIN stab /\ IsStab(e) /\ Agreed(e) /\ Sent(e) /\ Waited(e, i)
      BY <3>1 DEF found, stufind, TypeOK, VTab, Good
    <3>3. HasMyup(p, e) => ~Voted(e.ud[Myup(p, e)])
      BY <1>1, <2>8, <3>1, <3>2, PlaceFree
    <3>4. S2Ptab(p, i, e, r)
      BY <2>8, <3>1
    <3>5. GoodNext(op_s2(p, e, r), i) /\ StillWait
      BY <1>1, <2>2, <3>2, <3>3, <3>4, op_s2Good
    <3>6. \A k \in DOMAIN stab : GoodNext(stab[k], k)
      BY <3>5, KeptItself, GoodKept DEF VTab, Good
    <3>7. \A k \in DOMAIN stab' : \/ k = i /\ stab'[k] = op_s2(p, e, r)
                                  \/ k \in DOMAIN stab /\ stab'[k] = stab[k]
      BY <2>8, <3>1
    <3>. QED  BY <3>5, <3>6, <3>7, TabGood
  <2>. QED  BY <2>1, <2>7, <2>8
<1>. QED  BY <1>2, <1>3

\* The process that leaves has no vote in the table.
LEMMA LeaveGood ==
  ASSUME TypeOK, VTab, NEW p \in Proc, OpLogoff(p) \/ Dead(p)
  PROVE  VTab'
<1>1. pt_state[p] # "WAITSYNC" /\ stdead(p)
  BY DEF OpLogoff, Ready, Dead
<1>2. StillWait
  BY <1>1 DEF OpLogoff, Dead, Answer, StillWait, TypeOK
<1>3. PICK heir \in [DOMAIN stab -> Proc] :
        /\ \A i \in DOMAIN stab :
                Heirs(p, stab[i]) # {} => heir[i] \in Heirs(p, stab[i])
        /\ stab' = [i \in DOMAIN stab |-> EntryDead(p, stab[i], heir[i])]
  BY <1>1 DEF stdead
<1>4. ASSUME NEW i \in DOMAIN stab'
      PROVE  i \in DOMAIN stab /\ Kept(stab[i], stab'[i])
  <2>1. i \in DOMAIN stab /\ stab'[i] = EntryDead(p, stab[i], heir[i])
    BY <1>3
  <2>2. IsStab(stab[i]) /\ \A u \in DOMAIN stab[i].ud :
                Voted(stab[i].ud[u]) => stab[i].ud[u].ptab # p
    BY <1>1, <2>1 DEF TypeOK, VTab, Good, Waited, WaitsIn
  <2>3. heir[i] \in Proc /\ (Heirs(p, stab[i]) # {} => heir[i] \in Heirs(p, stab[i]))
    BY <1>3, <2>1
  <2>. QED  BY <2>1, <2>2, <2>3, EntryDeadKept
<1>. QED  BY <1>2, <1>4, KeptGood

-----------------------------------------------------------------------------
(* The steps of the server loop.                                           *)

\* The entry that StService() hands to stservice().
Cleared(e) == [e EXCEPT !.flags = e.flags \ {"ATTENTION"}]

LEMMA ClearedType ==
  ASSUME NEW e, IsStab(e)
  PROVE  /\ IsStab(Cleared(e)) /\ Cleared(e).ud = e.ud /\ Cleared(e).sm = e.sm
         /\ Cleared(e).flags = e.flags \ {"ATTENTION"}
<1>1. PICK f : f = Cleared(e)
  OBVIOUS
<1>2. /\ IsStab(f) /\ f.ud = e.ud /\ f.sm = e.sm
      /\ f.flags = e.flags \ {"ATTENTION"}
  BY <1>1 DEF Cleared, IsStab, Stab
<1>. QED  BY <1>1, <1>2

\* The votes that an event has not used up, and their data, stay.
LEMMA EntryAfterGood ==
  ASSUME NEW e, IsStab(e), Sent(e),
         \A u \in DOMAIN e.ud : e.ud[u].spno \in 0..SPMAX
  PROVE  /\ Agreed(EntryAfter(e)) /\ Sent(EntryAfter(e))
         /\ \A u \in DOMAIN EntryAfter(e).ud : Voted(EntryAfter(e).ud[u]) =>
                /\ u \in DOMAIN e.ud
                /\ Voted(e.ud[u])
                /\ EntryAfter(e).ud[u] = e.ud[u]
                /\ e.ud[u].spno > EventSpno(e)
<1>1. PICK f : f = EntryAfter(e)
  OBVIOUS
<1>2. /\ {"ATTENTION", "OK"} \cap f.flags = {}
      /\ f.sm = MsgAfter(e) /\ DOMAIN f.ud = DOMAIN e.ud
      /\ \A u \in DOMAIN e.ud : f.ud[u] = UserAfter(e, e.ud[u])
  <2>1. "OK" \notin f.flags
    BY <1>1 DEF EntryAfter, IsStab, Stab
  <2>. QED  BY <1>1, <2>1, EntryAfterType DEF Same
<1>3. EventSpno(e) \in 0..SPMAX
  BY EventSpnoType
<1>4. ASSUME NEW u \in DOMAIN e.ud
      PROVE  /\ Voted(f.ud[u]) => /\ Voted(e.ud[u]) /\ f.ud[u] = e.ud[u]
                                  /\ e.ud[u].spno > EventSpno(e)
             /\ Voted(e.ud[u]) /\ e.ud[u].spno > EventSpno(e) => f.ud[u] = e.ud[u]
  <2>1. PICK up : up = e.ud[u]
    OBVIOUS
  <2>2. up \in Ustab /\ up.spno \in 0..SPMAX
    BY <2>1 DEF IsStab, IsUd
  <2>3. CASE DoneWithVote(e, up)
    <3>1. UserAfter(e, up).state = "NOTSYNCED"
      BY <2>2, <2>3 DEF UserAfter, Ustab
    <3>2. ~Voted(UserAfter(e, up)) /\ ~(up.spno > EventSpno(e))
      BY <1>3, <2>2, <2>3, <3>1 DEF Voted, DoneWithVote
    <3>. QED  BY <1>2, <2>1, <3>2
  <2>4. CASE /\ ~DoneWithVote(e, up)
             /\ up.state = "NOTSYNCED" /\ {"ERR", "TIMEDOUT"} \subseteq e.flags
    <3>1. UserAfter(e, up).state = "NOTSYNCED"
      BY <2>2, <2>4 DEF UserAfter, Ustab
    <3>. QED  BY <1>2, <2>1, <2>4, <3>1 DEF Voted
  <2>5. CASE /\ ~DoneWithVote(e, up)
             /\ ~(up.state = "NOTSYNCED" /\ {"ERR", "TIMEDOUT"} \subseteq e.flags)
    <3>1. UserAfter(e, up) = up
      BY <2>5, Zenon DEF UserAfter
    <3>2. Voted(up) => up.spno > EventSpno(e)
      BY <1>3, <2>2, <2>5 DEF DoneWithVote
    <3>. QED  BY <1>2, <2>1, <3>1, <3>2
  <2>. QED  BY <2>3, <2>4, <2>5
<1>5. Sent(f)
  <2>1. SUFFICES ASSUME f.sm.sysid >= 0 PROVE Sent(f)
    BY DEF Sent
  <2>2. f.sm = e.sm /\ ~(e.sm.spno <= EventSpno(e))
    BY <1>2, <2>1 DEF MsgAfter, NoMsg
  <2>3. PICK u \in DOMAIN e.ud : /\ Voted(e.ud[u]) /\ u.sysid = e.sm.sysid
                                 /\ e.ud[u].spno = e.sm.spno
    BY <2>1, <2>2 DEF Sent
  <2>4. e.ud[u].spno > EventSpno(e)
    BY <1>3, <2>2, <2>3
  <2>5. f.ud[u] = e.ud[u]
    BY <1>4, <2>3, <2>4
  <2>. QED  BY <1>2, <2>2, <2>3, <2>5 DEF Sent
<1>6. Agreed(f)
  BY <1>2 DEF Agreed
<1>. QED  BY <1>1, <1>2, <1>4, <1>5, <1>6

\* The step in which the event of entry i happens.
Serviced(i) ==
    LET e    == Cleared(stab[i])
        wake == {e.ud[u].ptab : u \in Woken(e)}
        UserOf(p) == CHOOSE u \in Woken(e) : e.ud[u].ptab = p
    IN  /\ NeedsAttention(i)
        /\ SyncmsgAsserts(e)
        /\ stab' = IF NoLongerRequired(e) THEN strm(i)
                   ELSE [stab EXCEPT ![i] = EntryAfter(e)]
        /\ overshot' = (overshot \/ \E u \in Woken(e) : e.ud[u].spno > EventSpno(e))
        /\ pt_state' = [p \in Proc |-> IF p \in wake THEN "SNDMSG" ELSE pt_state[p]]
        /\ sp_stab' = [p \in Proc |-> IF p \in wake THEN 0 ELSE sp_stab[p]]
        /\ ptm' = [p \in Proc |-> IF p \in wake THEN synmsg2(e, UserOf(p)) ELSE ptm[p]]
        /\ phase' = phase

LEMMA StServiceCases ==
  ASSUME NEW i \in DOMAIN stab, StService(i)
  PROVE  \/ /\ ~SyncmsgAsserts(Cleared(stab[i]))
            /\ phase' = "fatal"
            /\ UNCHANGED <<stab, snid, ptabvars, overshot>>
         \/ Serviced(i)
BY Zenon DEF StService, Serviced, Cleared

\* Who is woken has voted.
LEMMA WokenVoted ==
  ASSUME NEW i, Agreed(stab[i]), NeedsAttention(i), NEW e, e.ud = stab[i].ud,
         e.flags = stab[i].flags \ {"ATTENTION"}, NEW u \in Woken(e)
  PROVE  u \in DOMAIN e.ud /\ Voted(e.ud[u])
BY DEF Agreed, NeedsAttention, Woken, Voted

\* Those whose votes stay behind are not woken: they are users of their own,
\* and only an event that overshoots wakes a user who is not through.
LEMMA ServicedGood ==
  ASSUME TypeOK, VTab, NEW i \in DOMAIN stab, Serviced(i), ~overshot'
  PROVE  VTab'
<1>1. PICK e : e = Cleared(stab[i])
  OBVIOUS
<1>. DEFINE wake == {e.ud[u].ptab : u \in Woken(e)}
<1>2. /\ SyncmsgAsserts(e)
      /\ stab' = IF NoLongerRequired(e) THEN strm(i)
                 ELSE [stab EXCEPT ![i] = EntryAfter(e)]
      /\ ~ \E u \in Woken(e) : e.ud[u].spno > EventSpno(e)
      /\ pt_state' = [p \in Proc |-> IF p \in wake THEN "SNDMSG" ELSE pt_state[p]]
      /\ sp_stab' = [p \in Proc |-> IF p \in wake THEN 0 ELSE sp_stab[p]]
  BY <1>1, Zenon DEF Serviced
<1>3. IsStab(e) /\ Waited(e, i) /\ Sent(e)
  <2>1. IsStab(stab[i]) /\ Good(i)
    BY DEF TypeOK, VTab
  <2>. QED  BY <1>1, <2>1, ClearedType DEF Good, Waited, Sent
<1>4. \A q \in Proc : \A k : WaitsIn(q, k) /\ q \notin wake => WaitsNext(q, k)
  BY <1>2 DEF WaitsIn, WaitsNext
<1>5. \A u \in Woken(e) : u \in DOMAIN e.ud /\ Voted(e.ud[u])
  <2>1. /\ Good(i) /\ e.ud = stab[i].ud /\ e.flags = stab[i].flags \ {"ATTENTION"}
    BY <1>1, ClearedType DEF TypeOK, VTab
  <2>. QED  BY <2>1, WokenVoted DEF Good, Serviced
<1>6. ASSUME NEW k \in DOMAIN stab, k # i
      PROVE  GoodNext(stab[k], k)
  <2>1. Agreed(stab[k]) /\ Sent(stab[k]) /\ Waited(stab[k], k)
    BY DEF VTab, Good
  <2>2. ASSUME NEW u \in DOMAIN stab[k].ud, Voted(stab[k].ud[u])
        PROVE  WaitsNext(stab[k].ud[u].ptab, k)
    <3>1. WaitsIn(stab[k].ud[u].ptab, k)
      BY <2>1, <2>2 DEF Waited
    <3>2. stab[k].ud[u].ptab \notin wake
      BY <1>3, <1>5, <1>6, <3>1 DEF Waited, WaitsIn
    <3>. QED  BY <1>4, <3>1, <3>2 DEF WaitsIn
  <2>. QED  BY <2>1, <2>2 DEF GoodNext
<1>7. GoodNext(EntryAfter(e), i)
  <2>1. PICK f : f = EntryAfter(e)
    OBVIOUS
  <2>2. \A u \in DOMAIN e.ud : e.ud[u].spno \in 0..SPMAX
    BY <1>3 DEF IsStab, IsUd, Ustab
  <2>3. /\ Agreed(f) /\ Sent(f)
        /\ \A u \in DOMAIN f.ud : Voted(f.ud[u]) =>
              /\ u \in DOMAIN e.ud /\ Voted(e.ud[u]) /\ f.ud[u] = e.ud[u]
              /\ e.ud[u].spno > EventSpno(e)
    BY <1>3, <2>1, <2>2, EntryAfterGood
  <2>4. ASSUME NEW u \in DOMAIN f.ud, Voted(f.ud[u])
        PROVE  WaitsNext(f.ud[u].ptab, i)
    <3>1. u \in DOMAIN e.ud /\ WaitsIn(e.ud[u].ptab, i) /\ f.ud[u] = e.ud[u]
      BY <1>3, <2>3, <2>4 DEF Waited
    <3>2. u \notin Woken(e)
      BY <1>2, <2>3, <2>4
    <3>3. e.ud[u].ptab \notin wake
      <4>1. ASSUME NEW v \in Woken(e)
            PROVE  e.ud[u].ptab # e.ud[v].ptab
        BY <1>2, <3>1, <3>2 DEF SyncmsgAsserts
      <4>. QED  BY <4>1
    <3>. QED  BY <1>4, <3>1, <3>3 DEF WaitsIn
  <2>. QED  BY <2>1, <2>3, <2>4 DEF GoodNext
<1>8. ASSUME NEW k \in DOMAIN stab'
      PROVE  GoodNext(stab'[k], k)
  <2>1. CASE NoLongerRequired(e)
    BY <1>2, <1>6, <1>8, <2>1 DEF strm
  <2>2. CASE ~NoLongerRequired(e)
    BY <1>2, <1>6, <1>7, <1>8, <2>2
  <2>. QED  BY <2>1, <2>2
<1>. QED  BY <1>8, TabGood

\* The voter whose time is up; the others of its event lose their chance.
LEMMA TimeoutGood ==
  ASSUME TypeOK, VTab, \A k \in DOMAIN stab : Late(stab[k]),
         NEW p \in Proc, Timeout(p)
  PROVE  VTab' /\ (\A k \in DOMAIN stab : Late(stab[k]))'
<1>. DEFINE i == sp_stab[p]
<1>1. StillWait
  BY DEF Timeout, StillWait
<1>2. CASE UNCHANGED stab
  BY <1>1, <1>2, KeptItself, KeptGood
<1>3. CASE ~UNCHANGED stab
  <2>1. PICK u \in DOMAIN stab[i].ud :
          /\ i \in DOMAIN stab
          /\ stab[i].ud[u].state \in {"SYNCYES", "SYNCNO"}
          /\ stab' = [stab EXCEPT ![i] =
                          stcheck([@ EXCEPT !.ud[u].state = "TIMEDOUT"])]
    BY <1>3, Zenon DEF Timeout
  <2>2. PICK e : e = stab[i]
    OBVIOUS
  <2>3. /\ IsStab(e) /\ u \in DOMAIN e.ud /\ e.ud[u] \in Ustab
        /\ Agreed(e) /\ Sent(e) /\ Waited(e, i) /\ Late(e)
    BY <2>1, <2>2 DEF TypeOK, IsStab, IsUd, VTab, Good
  <2>4. PICK up : up = [e.ud[u] EXCEPT !.state = "TIMEDOUT"]
    OBVIOUS
  <2>5. /\ up \in Ustab /\ up.ptab = e.ud[u].ptab /\ up.state = "TIMEDOUT"
        /\ up.spno = e.ud[u].spno /\ Voted(e.ud[u])
    BY <2>1, <2>2, <2>3, <2>4 DEF Ustab, UserState, Voted
  <2>6. PICK g : g = SetUser(e, u, up)
    OBVIOUS
  <2>7. /\ IsStab(g) /\ DOMAIN g.ud = DOMAIN e.ud /\ g.flags = e.flags
        /\ g.sm = e.sm
        /\ g.ud[u] = up
        /\ \A v \in DOMAIN e.ud \ {u} : g.ud[v] = e.ud[v]
    BY <2>3, <2>5, <2>6, SetUserType DEF Same
  <2>8. Late(g) /\ Agreed(g)
    BY <2>3, <2>7 DEF Late, Agreed
  <2>9. /\ \A v \in DOMAIN e.ud : /\ Voted(g.ud[v]) => Voted(e.ud[v])
                                  /\ Voted(e.ud[v]) => Voted(g.ud[v])
        /\ \A v \in DOMAIN e.ud : g.ud[v].ptab = e.ud[v].ptab /\ g.ud[v].spno = e.ud[v].spno
    BY <2>5, <2>7 DEF Voted
  <2>10. Sent(g) /\ Waited(g, i)
    BY <2>3, <2>7, <2>9 DEF Sent, Waited
  <2>11. Agreed(stcheck(g)) /\ Sent(stcheck(g)) /\ stcheck(g).ud = g.ud
    BY <2>7, <2>8, <2>10, stcheckAgreed, stcheckType
  <2>12. Late(stcheck(g))
    <3>1. SomeUser(g, {"TIMEDOUT"})
      BY <2>3, <2>5, <2>7 DEF SomeUser
    <3>. QED  BY <2>7, <2>8, <3>1, stcheckLate
  <2>13. GoodNext(stcheck(g), i)
    BY <1>1, <2>10, <2>11 DEF GoodNext, Waited, WaitsIn, WaitsNext, StillWait
  <2>14. stab' = [stab EXCEPT ![i] = stcheck(g)]
    BY <2>1, <2>2, <2>4, <2>6, Zenon DEF SetUser
  <2>15. /\ DOMAIN stab' = DOMAIN stab
         /\ stab'[i] = stcheck(g)
         /\ \A k \in DOMAIN stab \ {i} : stab'[k] = stab[k]
    BY <2>1, <2>14
  <2>16. \A k \in DOMAIN stab : GoodNext(stab[k], k)
    BY <1>1, KeptItself, GoodKept DEF VTab, Good
  <2>17. VTab'
    BY <2>13, <2>15, <2>16, TabGood
  <2>18. \A k \in DOMAIN stab' : Late(stab'[k])
    BY <2>12, <2>15
  <2>. QED  BY <2>17, <2>18 DEF Late
<1>. QED  BY <1>2, <1>3

LEMMA LoopGood ==
  ASSUME TypeOK, VTab, EndProcrun \/ EndStloop \/ EndTimeouts
  PROVE  VTab' /\ (phase' = "timeouts" => \A k \in DOMAIN stab : Late(stab[k])) /\ stab' = stab
<1>1. StillWait /\ stab' = stab
  BY DEF EndProcrun, EndStloop, EndTimeouts, ptabvars, StillWait
<1>2. phase' = "timeouts" => \A k \in DOMAIN stab : Late(stab[k])
  BY DEF EndProcrun, EndStloop, EndTimeouts, NeedsAttention, Late, VTab, Good, Agreed
<1>. QED  BY <1>1, <1>2, KeptItself, KeptGood

-----------------------------------------------------------------------------
(* The theorems.                                                           *)

\* Requests are handled in si_procrun() and touch neither of these.
LEMMA RequestFrame ==
  ASSUME NEW p, Requests(p) \/ Dead(p)
  PROVE  phase = "procrun" /\ phase' = "procrun" /\ overshot' = overshot
<1>1. CASE OpLogon(p) \/ OpNotLoggedOn(p) \/ OpLogoff(p) \/ OpSnget(p) \/ Dead(p)
  BY <1>1 DEF Refuse, Ready, OpLogon, OpNotLoggedOn, OpLogoff, OpSnget, Dead
<1>2. ASSUME NEW i, OpSnrm(p, i)
      PROVE  phase = "procrun" /\ phase' = "procrun" /\ overshot' = overshot
  BY <1>2 DEF OpSnrm, Refuse, Ready
<1>3. ASSUME NEW i, NEW list, OpSnsys(p, i, list)
      PROVE  phase = "procrun" /\ phase' = "procrun" /\ overshot' = overshot
  BY <1>3 DEF OpSnsys, Refuse, Ready
<1>4. ASSUME NEW i, NEW r, OpAsync(p, i, r)
      PROVE  phase = "procrun" /\ phase' = "procrun" /\ overshot' = overshot
  BY <1>4 DEF OpAsync, Refuse, Ready
<1>5. ASSUME NEW i, NEW list, NEW r, OpUsync(p, i, list, r)
      PROVE  phase = "procrun" /\ phase' = "procrun" /\ overshot' = overshot
  BY <1>5 DEF OpUsync, Refuse, Ready
<1>. QED  BY <1>1, <1>2, <1>3, <1>4, <1>5 DEF Requests

LEMMA VInvStep ==
  ASSUME TypeOK, WaiterHeld, VInv, [Next]_vars
  PROVE  VInv'
<1>1. SUFFICES ASSUME ~Siblings, ~overshot'
               PROVE  VTab' /\ (phase' = "timeouts" => (\A k \in DOMAIN stab : Late(stab[k]))')
  BY DEF VInv, VTab
<1>2. CASE UNCHANGED vars
  <2>1. /\ stab' = stab /\ phase' = phase /\ overshot' = overshot
        /\ pt_state' = pt_state /\ sp_stab' = sp_stab
    BY <1>2 DEF vars, ptabvars
  <2>2. VTab /\ StillWait /\ (phase = "timeouts" => \A k \in DOMAIN stab : Late(stab[k]))
    BY <1>1, <2>1 DEF VInv, VTab, StillWait
  <2>3. VTab'
    BY <2>1, <2>2, KeptItself, KeptGood
  <2>. QED  BY <2>1, <2>2, <2>3 DEF Late
<1>3. ASSUME overshot' = overshot
      PROVE  VTab /\ (phase = "timeouts" => \A k \in DOMAIN stab : Late(stab[k]))
  BY <1>1, <1>3 DEF VInv, VTab
<1>4. ASSUME NEW p \in Proc, Requests(p) \/ Dead(p)
      PROVE  VTab' /\ phase' # "timeouts"
  <2>1. phase' = phase /\ phase = "procrun" /\ overshot' = overshot
    BY <1>4, RequestFrame
  <2>2. VTab
    BY <1>3, <2>1
  <2>3. CASE OpLogon(p) \/ OpNotLoggedOn(p)
    BY <2>1, <2>2, <2>3, LogonGood
  <2>4. CASE OpLogoff(p) \/ Dead(p)
    BY <2>1, <2>2, <2>4, LeaveGood
  <2>5. CASE OpSnget(p)
    BY <2>1, <2>2, <2>5, SngetGood
  <2>6. ASSUME NEW i \in 1..SNIDMAX, OpSnrm(p, i)
        PROVE  VTab'
    BY <2>2, <2>6, SnrmGood
  <2>7. ASSUME NEW i \in 1..SNIDMAX, NEW list \in SysLists, OpSnsys(p, i, list)
        PROVE  VTab'
    BY <1>1, <2>2, <2>7, SnsysGood
  <2>8. ASSUME NEW i \in 1..SNIDMAX, NEW r \in AutoReqs, OpAsync(p, i, r)
        PROVE  VTab'
    BY <1>1, <2>2, <2>8, AsyncGood
  <2>9. ASSUME NEW i \in 1..SNIDMAX, NEW list \in UserLists, NEW r \in UserReqs,
               OpUsync(p, i, list, r)
        PROVE  VTab'
    BY <1>1, <2>2, <2>9, UsyncGood
  <2>. QED
    <3>1. VTab'
      BY <1>4, <2>3, <2>6, <2>7, <2>8, <2>9, <2>4, <2>5 DEF Requests
    <3>. QED  BY <2>1, <3>1
<1>5. ASSUME NEW p \in Proc, Timeout(p)
      PROVE  VTab' /\ (\A k \in DOMAIN stab : Late(stab[k]))'
  <2>1. phase = "timeouts" /\ overshot' = overshot
    BY <1>5 DEF Timeout
  <2>. QED  BY <1>3, <1>5, <2>1, TimeoutGood
<1>6. CASE EndProcrun \/ EndStloop \/ EndTimeouts
  <2>1. overshot' = overshot
    BY <1>6 DEF EndProcrun, EndStloop, EndTimeouts
  <2>2. VTab' /\ stab' = stab /\ (phase' = "timeouts" => \A k \in DOMAIN stab : Late(stab[k]))
    BY <1>3, <1>6, <2>1, LoopGood
  <2>. QED  BY <2>2 DEF Late
<1>7. ASSUME NEW i \in DOMAIN stab, StService(i)
      PROVE  VTab' /\ phase' # "timeouts"
  <2>1. phase = "stloop"
    BY <1>7 DEF StService
  <2>2. CASE phase' = "fatal" /\ UNCHANGED <<stab, snid, ptabvars, overshot>>
    <3>1. VTab /\ StillWait
      BY <1>3, <2>2 DEF ptabvars, StillWait
    <3>. QED  BY <2>2, <3>1, KeptItself, KeptGood
  <2>3. CASE Serviced(i)
    <3>1. ~overshot /\ phase' = phase
      BY <1>1, <2>3 DEF Serviced
    <3>2. VTab
      BY <1>1, <3>1 DEF VInv, VTab
    <3>. QED  BY <1>1, <2>1, <2>3, <3>1, <3>2, ServicedGood
  <2>. QED  BY <1>7, <2>2, <2>3, StServiceCases
<1>. QED  BY <1>2, <1>4, <1>5, <1>6, <1>7 DEF Next, ServerLoop

LEMMA VInvInit == Init => VInv
BY DEF Init, VInv

LEMMA VoteInvariant == Spec => []VInv
<1>1. IInv => TypeOK
  BY DEF IInv
<1>. QED  BY <1>1, VInvInit, VInvStep, Invariant, NobodyForgotten, PTL DEF Spec

\* Where processes of one system do not join each other's events, and no
\* failed event has woken a process that had voted for a later one, every
\* vote in the table is that of a process which waits in this very event.
THEOREM VotesHaveWaiters == Spec => []VoteHasWaiter
<1>1. VInv => VoteHasWaiter
  BY DEF VInv, Good, Waited, VoteHasWaiter
<1>. QED  BY <1>1, VoteInvariant, PTL

-----------------------------------------------------------------------------
(* What the assertions claim of an event.                                  *)

\* A process is one user of an entry.
LEMMA OneUser ==
  ASSUME IInv, NEW i \in DOMAIN stab,
         NEW u \in DOMAIN stab[i].ud, NEW v \in DOMAIN stab[i].ud,
         stab[i].ud[u].ptab = stab[i].ud[v].ptab, stab[i].ud[u].ptab # NoProc
  PROVE  u = v
<1>1. u \in User /\ v \in User
  BY DEF IInv, TypeOK, IsStab, IsUd
<1>2. u.sysid = v.sysid /\ (Usync(stab[i]) => u.ptype = v.ptype)
  BY DEF IInv, NoDanglingPtab, Matches
<1>3. CASE Usync(stab[i])
  BY <1>1, <1>2, <1>3 DEF User
<1>4. CASE ~Usync(stab[i])
  BY <1>2, <1>4 DEF IInv, OnePerSystem, OneEach
<1>. QED  BY <1>3, <1>4

\* Those who are woken wait in the entry, each as one of its users.
LEMMA AssertsGood ==
  ASSUME IInv, NEW i \in DOMAIN stab, Good(i), NeedsAttention(i)
  PROVE  SyncmsgAsserts(Cleared(stab[i]))
<1>1. PICK e : e = Cleared(stab[i])
  OBVIOUS
<1>2. IsStab(stab[i])
  BY DEF IInv, TypeOK
<1>3. e.ud = stab[i].ud /\ e.flags = stab[i].flags \ {"ATTENTION"}
  BY <1>1, <1>2, ClearedType
<1>4. "OK" \in e.flags => \A u \in DOMAIN e.ud : e.ud[u].state = "SYNCYES"
  BY <1>3 DEF Good, Agreed, NeedsAttention
<1>5. ASSUME NEW u \in Woken(e)
      PROVE  /\ e.ud[u].ptab # NoProc
             /\ pt_state[e.ud[u].ptab] = "WAITSYNC"
             /\ \A v \in DOMAIN e.ud \ {u} : e.ud[v].ptab # e.ud[u].ptab
  <2>1. u \in DOMAIN e.ud /\ Voted(e.ud[u])
    BY <1>3, WokenVoted DEF Good
  <2>2. WaitsIn(e.ud[u].ptab, i)
    BY <1>3, <2>1 DEF Good, Waited
  <2>3. e.ud[u].ptab # NoProc
    BY <2>2, SyncdAssumption DEF WaitsIn
  <2>. QED  BY <1>3, <2>1, <2>2, <2>3, OneUser DEF WaitsIn
<1>6. "OK" \in e.flags => \A u \in Woken(e) : e.ud[u].state = "SYNCYES"
  BY <1>4 DEF Woken
<1>. QED  BY <1>1, <1>5, <1>6 DEF SyncmsgAsserts

\* The process whose timer has expired is found in its entry, as a voter.
LEMMA TimeoutNotFatal ==
  ASSUME ~Siblings, IInv, WaiterHeld, NEW p \in Proc, Timeout(p)
  PROVE  phase' # "fatal"
<1>. DEFINE i == sp_stab[p]
<1>1. pt_state[p] = "WAITSYNC" /\ phase = "timeouts"
  BY DEF Timeout
<1>2. i \in DOMAIN stab /\ Holds(stab[i], p)
  BY <1>1 DEF WaiterHeld
<1>3. PICK u \in DOMAIN stab[i].ud : stab[i].ud[u].ptab = p /\ Voted(stab[i].ud[u])
  BY <1>2 DEF Holds
<1>4. p # NoProc
  BY SyncdAssumption
<1>5. \A v \in DOMAIN stab[i].ud : stab[i].ud[v].ptab = p => v = u
  BY <1>2, <1>3, <1>4, OneUser
<1>6. ~ \E v \in DOMAIN stab[i].ud :
            stab[i].ud[v].ptab = p /\ stab[i].ud[v].state = "NOTSYNCED"
  BY <1>3, <1>5 DEF Voted
<1>. QED  BY <1>1, <1>2, <1>3, <1>6, Zenon DEF Timeout

LEMMA NoFatalStep ==
  ASSUME IInv, WaiterHeld, VInv, NoFatal, [Next]_vars
  PROVE  NoFatal'
<1>1. SUFFICES ASSUME ~Siblings, ~overshot' PROVE phase' # "fatal"
  BY DEF NoFatal
<1>2. ASSUME phase' = phase, overshot' = overshot
      PROVE  phase' # "fatal"
  BY <1>1, <1>2 DEF NoFatal
<1>3. ASSUME NEW p \in Proc, Requests(p) \/ Dead(p)
      PROVE  phase' # "fatal"
  BY <1>3, RequestFrame
<1>4. ASSUME NEW p \in Proc, Timeout(p)
      PROVE  phase' # "fatal"
  BY <1>1, <1>4, TimeoutNotFatal
<1>5. CASE EndProcrun \/ EndStloop \/ EndTimeouts
  BY <1>5 DEF EndProcrun, EndStloop, EndTimeouts
<1>6. ASSUME NEW i \in DOMAIN stab, StService(i)
      PROVE  phase' # "fatal"
  <2>1. NeedsAttention(i)
    BY <1>6 DEF StService
  <2>2. CASE Serviced(i)
    <3>1. phase = "stloop"
      BY <1>6 DEF StService
    <3>. QED  BY <2>2, <3>1 DEF Serviced
  <2>3. CASE /\ ~SyncmsgAsserts(Cleared(stab[i]))
             /\ UNCHANGED <<stab, snid, ptabvars, overshot>>
    <3>1. Good(i)
      BY <1>1, <2>3 DEF VInv
    <3>. QED  BY <2>1, <2>3, <3>1, AssertsGood
  <2>. QED  BY <1>6, <2>2, <2>3, StServiceCases
<1>7. CASE UNCHANGED vars
  BY <1>2, <1>7 DEF vars
<1>. QED  BY <1>3, <1>4, <1>5, <1>6, <1>7 DEF Next, ServerLoop

\* The assertions of syncmsg(), synmsg2() and tet_ss_timeout() never fail in
\* the circumstances of VotesHaveWaiters.
THEOREM AssertionsHold == Spec => []NoFatal
<1>1. Init => NoFatal
  BY DEF Init, NoFatal
<1>2. IInv /\ WaiterHeld /\ VInv /\ NoFatal /\ [Next]_vars => NoFatal'
  BY NoFatalStep
<1>. QED  BY <1>1, <1>2, Invariant, NobodyForgotten, VoteInvariant, PTL DEF Spec

-----------------------------------------------------------------------------
(* What the woken are told.                                                *)

LEMMA RequestWaits ==
  ASSUME TypeOK, NEW p \in Proc, Requests(p) \/ Dead(p)
  PROVE  StillWait
<1>1. ASSUME pt_state[p] # "WAITSYNC", NEW rc, Refuse(p, rc)
      PROVE  StillWait
  BY <1>1, AnswerWaits DEF Refuse
<1>2. ASSUME pt_state[p] # "WAITSYNC", NEW i, NEW e, NEW r, S2Ptab(p, i, e, r)
      PROVE  StillWait
  <2>1. \A q \in Proc : p # q => pt_state'[q] = pt_state[q] /\ sp_stab'[q] = sp_stab[q]
    BY <1>2, S2PtabHeld
  <2>. QED  BY <1>2, <2>1 DEF StillWait
<1>3. CASE OpLogon(p) \/ OpNotLoggedOn(p) \/ OpLogoff(p) \/ Dead(p)
  <2>1. pt_state[p] # "WAITSYNC"
    BY <1>3 DEF OpLogon, OpNotLoggedOn, OpLogoff, Dead, Ready
  <2>2. CASE OpLogon(p) \/ OpLogoff(p)
    BY <2>1, <2>2, AnswerWaits DEF OpLogon, OpLogoff
  <2>3. CASE OpNotLoggedOn(p)
    BY <1>1, <2>1, <2>3 DEF OpNotLoggedOn
  <2>4. CASE Dead(p)
    BY <2>1, <2>4 DEF Dead, StillWait, TypeOK
  <2>. QED  BY <1>3, <2>2, <2>3, <2>4
<1>4. CASE OpSnget(p)
  <2>1. pt_state[p] # "WAITSYNC"
    BY <1>4 DEF OpSnget, Ready
  <2>2. Refuse(p, "ERR") \/ (Answer(p, "OK") /\ UNCHANGED sp_stab)
    BY <1>4 DEF OpSnget
  <2>. QED  BY <1>1, <2>1, <2>2, AnswerWaits
<1>5. ASSUME NEW i, OpSnrm(p, i)
      PROVE  StillWait
  <2>1. pt_state[p] # "WAITSYNC"
    BY <1>5 DEF OpSnrm, Ready
  <2>2. (\E rc : Refuse(p, rc)) \/ (Answer(p, "OK") /\ UNCHANGED sp_stab)
    BY <1>5 DEF OpSnrm
  <2>. QED  BY <1>1, <2>1, <2>2, AnswerWaits
<1>6. ASSUME NEW i, NEW list, OpSnsys(p, i, list)
      PROVE  StillWait
  <2>1. pt_state[p] # "WAITSYNC"
    BY <1>6 DEF OpSnsys, Ready
  <2>2. (\E rc : Refuse(p, rc)) \/ (Answer(p, "OK") /\ UNCHANGED sp_stab)
    BY <1>6 DEF OpSnsys
  <2>. QED  BY <1>1, <2>1, <2>2, AnswerWaits
<1>7. ASSUME NEW i, NEW r, OpAsync(p, i, r)
      PROVE  StillWait
  <2>1. pt_state[p] # "WAITSYNC"
    BY <1>7 DEF OpAsync, Ready
  <2>2. (\E rc : Refuse(p, rc)) \/ S2Ptab(p, i, stab[i], r)
    BY <1>7, Zenon DEF OpAsync
  <2>. QED  BY <1>1, <1>2, <2>1, <2>2
<1>8. ASSUME NEW i, NEW list, NEW r, OpUsync(p, i, list, r)
      PROVE  StillWait
  <2>1. pt_state[p] # "WAITSYNC"
    BY <1>8 DEF OpUsync, Ready
  <2>2. (\E rc : Refuse(p, rc)) \/ \E k, e : S2Ptab(p, k, e, r)
    BY <1>8, Zenon DEF OpUsync
  <2>. QED  BY <1>1, <1>2, <2>1, <2>2
<1>. QED  BY <1>3, <1>4, <1>5, <1>6, <1>7, <1>8 DEF Requests

\* Only the servicing of an event wakes a process.
LEMMA ReleasedBy ==
  ASSUME TypeOK, [Next]_vars, NEW p \in Proc, Released(p)
  PROVE  \E i \in DOMAIN stab : NeedsAttention(i) /\ Serviced(i)
<1>1. ~StillWait
  BY DEF Released, StillWait
<1>2. ~ \E q \in Proc : Requests(q) \/ Dead(q)
  BY <1>1, RequestWaits
<1>3. ~ \E q \in Proc : Timeout(q)
  BY <1>1 DEF Timeout, StillWait
<1>4. ~(EndProcrun \/ EndStloop \/ EndTimeouts \/ UNCHANGED vars)
  BY <1>1 DEF EndProcrun, EndStloop, EndTimeouts, vars, ptabvars, StillWait
<1>5. PICK i \in DOMAIN stab : StService(i)
  BY <1>2, <1>3, <1>4 DEF Next, ServerLoop
<1>6. ~UNCHANGED <<stab, snid, ptabvars, overshot>>
  BY <1>1 DEF ptabvars, StillWait
<1>7. NeedsAttention(i)
  BY <1>5 DEF StService
<1>. QED  BY <1>5, <1>6, <1>7, StServiceCases

\* A process that is woken is a user of the event that woke it, waits in it,
\* and is told what synmsg2() makes of its part.
LEMMA ReleasedUser ==
  ASSUME TypeOK, NEW i \in DOMAIN stab, Good(i), Serviced(i),
         NEW p \in Proc, Released(p), NEW e, e = Cleared(stab[i])
  PROVE  \E u \in Woken(e) : /\ u \in DOMAIN e.ud
                             /\ sp_stab[p] = i
                             /\ ptm'[p] = synmsg2(e, u)
<1>. DEFINE c == Cleared(stab[i])
            wake == {c.ud[u].ptab : u \in Woken(c)}
            UserOf(q) == CHOOSE u \in Woken(c) : c.ud[u].ptab = q
<1>1. /\ SyncmsgAsserts(c)
      /\ pt_state' = [q \in Proc |-> IF q \in wake THEN "SNDMSG" ELSE pt_state[q]]
      /\ ptm' = [q \in Proc |-> IF q \in wake THEN synmsg2(c, UserOf(q)) ELSE ptm[q]]
  BY Zenon DEF Serviced
<1>2. p \in wake
  BY <1>1 DEF Released
<1>3. UserOf(p) \in Woken(c) /\ c.ud[UserOf(p)].ptab = p
  BY <1>2
<1>4. UserOf(p) \in DOMAIN c.ud /\ Voted(c.ud[UserOf(p)])
  <2>1. NeedsAttention(i) /\ c.ud = stab[i].ud /\ c.flags = stab[i].flags \ {"ATTENTION"}
    BY ClearedType DEF TypeOK, Serviced
  <2>. HIDE DEF c, UserOf
  <2>. QED  BY <1>3, <2>1, WokenVoted DEF Good
<1>5. ptm'[p] = synmsg2(c, UserOf(p))
  BY <1>1, <1>2
<1>. HIDE DEF UserOf
<1>6. sp_stab[p] = i
  <2>1. c.ud = stab[i].ud
    BY ClearedType DEF TypeOK
  <2>. QED  BY <1>3, <1>4, <2>1 DEF Good, Waited, WaitsIn
<1>. QED  BY <1>3, <1>4, <1>5, <1>6

LEMMA BarrierHolds ==
  ASSUME IInv, VInv, [Next]_vars
  PROVE  BarrierStep
<1>1. SUFFICES ASSUME ~Siblings, ~overshot, NEW p \in Proc, Released(p),
                      ptm'[p].rc = "OK", NEW v \in DOMAIN stab[sp_stab[p]].ud
               PROVE  LET up == stab[sp_stab[p]].ud[v]
                      IN  /\ up.state = "SYNCYES"
                          /\ WaitsIn(up.ptab, sp_stab[p])
                          /\ up.spno # 0 => up.spno >= ptm'[p].spno
  BY Zenon DEF BarrierStep
<1>2. TypeOK
  BY DEF IInv
<1>3. PICK i \in DOMAIN stab : NeedsAttention(i) /\ Serviced(i)
  BY <1>1, <1>2, ReleasedBy
<1>4. Good(i)
  BY <1>1 DEF VInv
<1>5. PICK e : e = Cleared(stab[i])
  OBVIOUS
<1>6. /\ IsStab(e) /\ e.ud = stab[i].ud
      /\ e.flags = stab[i].flags \ {"ATTENTION"}
  BY <1>2, <1>5, ClearedType DEF TypeOK
<1>7. PICK u \in Woken(e) : /\ u \in DOMAIN e.ud
                            /\ sp_stab[p] = i
                            /\ ptm'[p] = synmsg2(e, u)
  BY <1>1, <1>2, <1>3, <1>4, <1>5, ReleasedUser
<1>8. "OK" \in e.flags /\ ptm'[p].spno = LastSpno(e)
  BY <1>1, <1>7 DEF synmsg2
<1>9. \A w \in DOMAIN e.ud : e.ud[w].state = "SYNCYES"
  BY <1>4, <1>6, <1>8 DEF Good, Agreed
<1>10. /\ ptm'[p].spno = EventSpno(e)
       /\ e.ud[v].state = "SYNCYES"
  BY <1>1, <1>6, <1>7, <1>8, <1>9 DEF LastSpno, HasDead
<1>11. Voted(e.ud[v])
  BY <1>10 DEF Voted
<1>12. WaitsIn(e.ud[v].ptab, i)
  BY <1>1, <1>4, <1>6, <1>7, <1>11 DEF Good, Waited
<1>13. e.ud[v].spno # 0 => e.ud[v].spno >= EventSpno(e)
  <2>1. e.ud[v].spno \in 0..SPMAX
    BY <1>1, <1>6, <1>7 DEF IsStab, IsUd, Ustab
  <2>2. EventSpno(e) \in 0..SPMAX
        /\ (e.ud[v].spno # 0 => EventSpno(e) <= e.ud[v].spno)
    BY <1>1, <1>6, <1>7, <1>11, EventSpnoType
  <2>. QED  BY <2>1, <2>2, SyncdAssumption
<1>. QED  BY <1>6, <1>7, <1>9, <1>10, <1>12, <1>13

\* ER_OK is a barrier: who is told it for a sync point leaves an event in
\* which every participant waits, has voted YES and is not beyond that point.
THEOREM Barrier == Spec => OkIsBarrier
<1>1. IInv /\ VInv /\ [Next]_vars => [BarrierStep]_vars
  BY BarrierHolds
<1>. QED  BY <1>1, Invariant, VoteInvariant, PTL DEF Spec, OkIsBarrier

LEMMA DataHolds ==
  ASSUME IInv, VInv, [Next]_vars
  PROVE  DataStep
<1>1. SUFFICES ASSUME ~Siblings, ~overshot, NEW p \in Proc, Released(p),
                      ptm'[p].sm.sysid >= 0
               PROVE  \E q \in Proc : /\ WaitsIn(q, sp_stab[p]) /\ Released(q)
                                      /\ ptr_sysid[q] = ptm'[p].sm.sysid
  BY DEF DataStep
<1>2. TypeOK /\ NoDanglingPtab
  BY DEF IInv
<1>3. PICK i \in DOMAIN stab : NeedsAttention(i) /\ Serviced(i)
  BY <1>1, <1>2, ReleasedBy
<1>4. Good(i)
  BY <1>1 DEF VInv
<1>5. PICK e : e = Cleared(stab[i])
  OBVIOUS
<1>6. IsStab(e) /\ e.ud = stab[i].ud /\ e.sm = stab[i].sm
  BY <1>2, <1>5, ClearedType DEF TypeOK
<1>7. PICK u \in Woken(e) : /\ u \in DOMAIN e.ud
                            /\ sp_stab[p] = i
                            /\ ptm'[p] = synmsg2(e, u)
  BY <1>1, <1>2, <1>3, <1>4, <1>5, ReleasedUser
<1>8. /\ ptm'[p].sm.sysid = e.sm.sysid
      /\ e.sm.spno \in {LastSpno(e), 0}
  <2>1. NoMsg.sysid = -1
    BY DEF NoMsg
  <2>. QED  BY <1>1, <1>7, <2>1 DEF synmsg2, MsgIsFor
<1>9. PICK v \in DOMAIN e.ud : /\ Voted(e.ud[v]) /\ v.sysid = e.sm.sysid
                               /\ e.ud[v].spno = e.sm.spno
  BY <1>1, <1>4, <1>6, <1>8 DEF Good, Sent
<1>10. v \in Woken(e)
  <2>1. LastSpno(e) \in 0..SPMAX
    BY <1>6, LastSpnoType
  <2>. QED  BY <1>8, <1>9, <2>1, SyncdAssumption DEF Woken
<1>11. PICK q : q = e.ud[v].ptab
  OBVIOUS
<1>12. WaitsIn(q, i)
  BY <1>4, <1>6, <1>9, <1>11 DEF Good, Waited
<1>13. ptr_sysid[q] = v.sysid
  BY <1>2, <1>6, <1>9, <1>11, <1>12, SyncdAssumption DEF NoDanglingPtab, Matches, WaitsIn
<1>14. Released(q)
  <2>1. pt_state' = [r \in Proc |-> IF r \in {e.ud[x].ptab : x \in Woken(e)}
                                    THEN "SNDMSG" ELSE pt_state[r]]
    BY <1>3, <1>5, Zenon DEF Serviced
  <2>. QED  BY <1>10, <1>11, <1>12, <2>1 DEF Released, WaitsIn
<1>. QED  BY <1>7, <1>8, <1>9, <1>12, <1>13, <1>14 DEF WaitsIn

\* Data and its sender leave an event together: the system named in a reply
\* with message data is that of a process which the same event releases.
THEOREM DataWithSender == Spec => DataComesFromEvent
<1>1. IInv /\ VInv /\ [Next]_vars => [DataStep]_vars
  BY DataHolds
<1>. QED  BY <1>1, Invariant, VoteInvariant, PTL DEF Spec, DataComesFromEvent
=============================================================================
