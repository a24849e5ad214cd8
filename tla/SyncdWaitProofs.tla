-------------------------- MODULE SyncdWaitProofs --------------------------
(***************************************************************************)
(* No waiting process is forgotten: the proof of WaiterHeld.               *)
(*                                                                         *)
(* Given TypeOK the property is inductive.  What could break it is an      *)
(* operation on the entry a process p waits in, so there is one lemma for  *)
(* each: none takes p's vote out of the entry, and none clears             *)
(* SF_INPROGRESS without setting SF_ATTENTION, unless p is woken.          *)
(***************************************************************************)
EXTENDS SyncdProofs

-----------------------------------------------------------------------------
(* The operations on one entry.                                            *)

LEMMA stcheckHolds ==
  ASSUME NEW e, IsStab(e), NEW p, Holds(e, p)
  PROVE  Holds(stcheck(e), p)
BY stcheckType DEF Holds

\* The voter's own entry.
LEMMA VoteHolds ==
  ASSUME NEW p \in Proc, NEW e, IsStab(e), NEW r, GoodReq(r), HasMyup(p, e)
  PROVE  Holds(Vote(p, e, r), p)
BY VoteType, MyupInUd DEF Holds

\* q's request leaves p's vote alone unless it takes p's place.
LEMMA op_s2Holds ==
  ASSUME NEW q \in Proc, NEW e, IsStab(e), NEW r, GoodReq(r), NEW p, Holds(e, p),
         S2Rc(q, e, r) = "WAIT" =>
            \A u \in DOMAIN e.ud :
                Matches(q, e, u) /\ Voted(e.ud[u]) => e.ud[u].ptab # p \/ p = q
  PROVE  Holds(op_s2(q, e, r), p)
<1>1. PICK u \in DOMAIN e.ud : e.ud[u].ptab = p /\ Voted(e.ud[u])
  BY DEF Holds
<1>2. S2Rc(q, e, r) \in {"WAIT", "DONE", "SYSID"}
  BY DEF S2Rc
<1>3. CASE S2Rc(q, e, r) = "WAIT"
  <2>1. HasMyup(q, e) /\ op_s2(q, e, r) = Vote(q, e, r)
    BY <1>3, S2Wait
  <2>2. CASE p = q
    BY <2>1, <2>2, VoteHolds
  <2>3. CASE p # q
    <3>1. u # Myup(q, e)
      BY <1>1, <1>3, <2>1, <2>3, MyupInUd
    <3>2. /\ u \in DOMAIN Vote(q, e, r).ud
          /\ Vote(q, e, r).ud[u] = e.ud[u]
          /\ Marked(Vote(q, e, r))
      BY <2>1, <3>1, VoteType
    <3>. QED  BY <1>1, <2>1, <3>2 DEF Holds
  <2>. QED  BY <2>2, <2>3
<1>4. CASE S2Rc(q, e, r) = "DONE"
  <2>1. /\ u \in DOMAIN op_s2(q, e, r).ud
        /\ op_s2(q, e, r).ud[u].ptab = e.ud[u].ptab
        /\ op_s2(q, e, r).ud[u].state = e.ud[u].state
        /\ op_s2(q, e, r).flags = e.flags
    BY <1>4, DoneType DEF Same
  <2>. QED  BY <1>1, <2>1 DEF Holds, Marked, Voted
<1>5. CASE S2Rc(q, e, r) = "SYSID"
  BY <1>5 DEF op_s2
<1>. QED  BY <1>2, <1>3, <1>4, <1>5

LEMMA stuendHolds ==
  ASSUME NEW tab, NEW id, NEW n, NEW i \in DOMAIN tab, IsStab(tab[i]),
         NEW p, Holds(tab[i], p)
  PROVE  Holds(stuend(tab, id, n)[i], p)
<1>. DEFINE F == (tab[i].flags \ {"INPROGRESS"}) \cup {"ERR", "ATTENTION"}
<1>1. PICK e : e = tab[i]
  OBVIOUS
<1>2. PICK f : f = [e EXCEPT !.flags = F]
  OBVIOUS
<1>3. stuend(tab, id, n)[i] \in {e, f}
  BY <1>1, <1>2 DEF stuend
<1>4. f.ud = e.ud /\ f.flags = F
  <2>. HIDE DEF F
  <2>. QED  BY <1>1, <1>2 DEF IsStab, Stab
<1>5. Holds(f, p)
  BY <1>1, <1>4 DEF Holds, Marked
<1>. QED  BY <1>1, <1>3, <1>5

\* A vote that the event has not used up stays, and SF_INPROGRESS with it.
LEMMA EntryAfterHolds ==
  ASSUME NEW e, IsStab(e), NEW u \in DOMAIN e.ud, Voted(e.ud[u]),
         ~DoneWithVote(e, e.ud[u])
  PROVE  Holds(EntryAfter(e), e.ud[u].ptab)
<1>1. StillVoted(e)
  BY DEF StillVoted
<1>2. Marked(EntryAfter(e))
  BY <1>1, EntryAfterType
<1>3. e.ud[u] \in Ustab
  BY DEF IsStab, IsUd
<1>4. UserAfter(e, e.ud[u]) = e.ud[u]
  BY DEF UserAfter, Voted
<1>5. u \in DOMAIN EntryAfter(e).ud /\ EntryAfter(e).ud[u] = e.ud[u]
  BY <1>4, EntryAfterType DEF Same
<1>. QED  BY <1>2, <1>5 DEF Holds

\* The death of q does not touch what p, another process, has done.
LEMMA EntryDeadHolds ==
  ASSUME NEW q, NEW e, IsStab(e), NEW heir \in Proc,
         Heirs(q, e) # {} => heir \in Heirs(q, e),
         NEW p, p # q, Holds(e, p)
  PROVE  Holds(EntryDead(q, e, heir), p)
<1>1. PICK u \in DOMAIN e.ud : e.ud[u].ptab = p /\ Voted(e.ud[u])
  BY DEF Holds
<1>2. PICK f : f = EntryDead(q, e, heir)
  OBVIOUS
<1>3. std2(q, e, e.ud[u], heir) = e.ud[u]
  BY <1>1 DEF std2
<1>4. u \in DOMAIN f.ud /\ f.ud[u] = e.ud[u] /\ Marked(f)
  BY <1>1, <1>2, <1>3, EntryDeadType DEF Same, Holds
<1>. QED  BY <1>1, <1>2, <1>4 DEF Holds

-----------------------------------------------------------------------------
(* The steps.  Each lemma speaks of one process p and any action.          *)

Held(p) == pt_state[p] = "WAITSYNC" =>
                sp_stab[p] \in DOMAIN stab /\ Holds(stab[sp_stab[p]], p)

LEMMA AnswerHeld ==
  ASSUME TypeOK, NEW p \in Proc, Held(p), NEW q \in Proc, NEW rc, Answer(q, rc),
         UNCHANGED <<stab, sp_stab>>
  PROVE  Held(p)'
BY DEF TypeOK, Answer, Held

LEMMA RefuseHeld ==
  ASSUME TypeOK, NEW p \in Proc, Held(p), NEW q \in Proc, NEW rc, Refuse(q, rc)
  PROVE  Held(p)'
BY AnswerHeld DEF Refuse

LEMMA SngetHeld ==
  ASSUME TypeOK, NEW p \in Proc, Held(p), NEW q \in Proc, OpSnget(q)
  PROVE  Held(p)'
<1>1. CASE snid = SNIDMAX /\ Refuse(q, "ERR")
  BY <1>1, RefuseHeld
<1>2. CASE ~(snid = SNIDMAX /\ Refuse(q, "ERR"))
  <2>. DEFINE e == [stalloc(snid + 1) EXCEPT !.owner = q]
  <2>1. stab' = stadd(snid + 1, e) /\ Answer(q, "OK") /\ UNCHANGED sp_stab
    BY <1>2 DEF OpSnget
  <2>. HIDE DEF e
  <2>2. snid + 1 \notin DOMAIN stab
    BY SyncdAssumption DEF TypeOK
  <2>3. \A i \in DOMAIN stab : i \in DOMAIN stab' /\ stab'[i] = stab[i]
    BY <2>1, <2>2 DEF stadd
  <2>. QED  BY <2>1, <2>3 DEF TypeOK, Answer, Held
<1>. QED  BY <1>1, <1>2

\* op_snsys() replaces the users of an entry only if it has no waiters.
LEMMA SnsysHeld ==
  ASSUME TypeOK, NEW p \in Proc, Held(p), NEW q \in Proc, NEW i, NEW list,
         OpSnsys(q, i, list)
  PROVE  Held(p)'
<1>1. CASE \E rc : Refuse(q, rc)
  BY <1>1, RefuseHeld
<1>2. CASE ~ \E rc : Refuse(q, rc)
  <2>. DEFINE ud == [u \in SysUsers(list) |-> NewUser]
  <2>1. /\ i \in stafind /\ ~Marked(stab[i])
        /\ stab' = [stab EXCEPT ![i].ud = ud]
        /\ Answer(q, "OK") /\ UNCHANGED sp_stab
    BY <1>2 DEF OpSnsys, Marked
  <2>. HIDE DEF ud
  <2>2. PICK e : stab' = [stab EXCEPT ![i] = e]
    BY <2>1, Zenon
  <2>3. \A k \in DOMAIN stab \ {i} : k \in DOMAIN stab' /\ stab'[k] = stab[k]
    BY <2>2
  <2>. QED  BY <2>1, <2>3 DEF TypeOK, Answer, Held, Holds
<1>. QED  BY <1>1, <1>2

\* op_snrm() removes an entry only if it has no waiters.
LEMMA SnrmHeld ==
  ASSUME TypeOK, NEW p \in Proc, Held(p), NEW q \in Proc, NEW i, OpSnrm(q, i)
  PROVE  Held(p)'
<1>1. CASE \E rc : Refuse(q, rc)
  BY <1>1, RefuseHeld
<1>2. CASE ~ \E rc : Refuse(q, rc)
  <2>1. /\ ~ \E u \in DOMAIN stab[i].ud : Voted(stab[i].ud[u])
        /\ stab' = strm(i)
        /\ Answer(q, "OK") /\ UNCHANGED sp_stab
    BY <1>2, Zenon DEF OpSnrm
  <2>2. \A k \in DOMAIN stab \ {i} : k \in DOMAIN stab' /\ stab'[k] = stab[k]
    BY <2>1 DEF strm
  <2>. QED  BY <2>1, <2>2 DEF TypeOK, Answer, Held, Holds
<1>. QED  BY <1>1, <1>2

LEMMA LogonHeld ==
  ASSUME TypeOK, NEW p \in Proc, Held(p), NEW q \in Proc,
         OpLogon(q) \/ OpNotLoggedOn(q)
  PROVE  Held(p)'
BY AnswerHeld, RefuseHeld DEF OpLogon, OpNotLoggedOn

LEMMA stdeadHeld ==
  ASSUME TypeOK, NEW p, NEW q, p # q, stdead(q),
         NEW i \in DOMAIN stab, Holds(stab[i], p)
  PROVE  i \in DOMAIN stab' /\ Holds(stab'[i], p)
<1>1. PICK heir \in [DOMAIN stab -> Proc] :
        /\ \A k \in DOMAIN stab :
                Heirs(q, stab[k]) # {} => heir[k] \in Heirs(q, stab[k])
        /\ stab' = [k \in DOMAIN stab |-> EntryDead(q, stab[k], heir[k])]
  BY DEF stdead
<1>2. i \in DOMAIN stab' /\ stab'[i] = EntryDead(q, stab[i], heir[i])
  BY <1>1
<1>3. IsStab(stab[i])
  BY DEF TypeOK
<1>4. heir[i] \in Proc /\ (Heirs(q, stab[i]) # {} => heir[i] \in Heirs(q, stab[i]))
  BY <1>1
<1>. QED  BY <1>2, <1>3, <1>4, EntryDeadHolds

\* The process that leaves is not waiting.
LEMMA LeaveHeld ==
  ASSUME TypeOK, NEW p \in Proc, Held(p), NEW q \in Proc, OpLogoff(q) \/ Dead(q)
  PROVE  Held(p)'
<1>1. CASE p = q
  BY <1>1 DEF OpLogoff, Dead, Answer, Held, TypeOK
<1>2. CASE p # q
  <2>1. stdead(q) /\ pt_state'[p] = pt_state[p] /\ sp_stab'[p] = sp_stab[p]
    BY <1>2 DEF OpLogoff, Dead, Answer, TypeOK
  <2>. QED  BY <1>2, <2>1, stdeadHeld DEF Held
<1>. QED  BY <1>1, <1>2

LEMMA S2PtabHeld ==
  ASSUME TypeOK, NEW p \in Proc, NEW q \in Proc, NEW i, NEW e, NEW r,
         S2Ptab(q, i, e, r)
  PROVE  /\ p # q => pt_state'[p] = pt_state[p] /\ sp_stab'[p] = sp_stab[p]
         /\ p = q /\ pt_state'[p] = "WAITSYNC" =>
                S2Rc(q, e, r) = "WAIT" /\ sp_stab'[p] = i
<1>1. CASE S2Rc(q, e, r) # "WAIT"
  <2>1. Answer(q, S2Rc(q, e, r)) /\ sp_stab' = sp_stab
    BY <1>1 DEF S2Ptab
  <2>. QED  BY <2>1 DEF Answer, TypeOK
<1>2. CASE S2Rc(q, e, r) = "WAIT"
  <2>1. /\ pt_state' = [pt_state EXCEPT ![q] = "WAITSYNC"]
        /\ sp_stab' = [sp_stab EXCEPT ![q] = i]
    BY <1>2, Zenon DEF S2Ptab
  <2>. QED  BY <1>2, <2>1 DEF TypeOK
<1>. QED  BY <1>1, <1>2

\* The discipline of the clients, as far as it concerns p's vote in e.
LEMMA MayVoteHolds ==
  ASSUME ~Siblings, TypeOK, NEW p \in Proc, NEW q \in Proc, NEW i, NEW r,
         IsStab(stab[i]), GoodReq(r), MayVote(q, i, stab[i], r),
         WaitsIn(p, i), Holds(stab[i], p)
  PROVE  Holds(op_s2(q, stab[i], r), p)
<1>1. PICK e : e = stab[i]
  OBVIOUS
<1>2. \A u \in DOMAIN e.ud :
        Matches(q, e, u) /\ Voted(e.ud[u]) => e.ud[u].ptab # p \/ p = q
  BY <1>1 DEF MayVote
<1>3. Holds(op_s2(q, e, r), p)
  BY <1>1, <1>2, op_s2Holds
<1>. QED  BY <1>1, <1>3

LEMMA AsyncHeld ==
  ASSUME ~Siblings, TypeOK, NEW p \in Proc, Held(p),
         NEW q \in Proc, NEW i, NEW r \in AutoReqs, OpAsync(q, i, r)
  PROVE  Held(p)'
<1>1. CASE \E rc : Refuse(q, rc)
  BY <1>1, RefuseHeld
<1>2. CASE ~ \E rc : Refuse(q, rc)
  <2>. DEFINE waits == S2Rc(q, stab[i], r) = "WAIT"
              e     == op_s2(q, stab[i], r)
              e2    == IF waits /\ e.xrid < 0 /\ r.xrid > 0
                       THEN [e EXCEPT !.xrid = r.xrid] ELSE e
              tab   == [stab EXCEPT ![i] = e2]
  <2>1. /\ r.spno >= 0
        /\ i \in stafind
        /\ MayVote(q, i, stab[i], r)
        /\ stab' = stuend(tab, i, ptr_sysid[q])
        /\ S2Ptab(q, i, stab[i], r)
    BY <1>2, Zenon DEF OpAsync
  <2>2. i \in DOMAIN stab /\ IsStab(stab[i])
    BY <2>1 DEF stafind, TypeOK
  <2>3. GoodReq(r) /\ r.xrid \in Int
    BY <2>1, SyncdAssumption DEF GoodReq, Request
  <2>4. IsStab(e)
    BY <2>2, <2>3, op_s2Type
  <2>5. IsStab(e2) /\ e2.ud = e.ud /\ e2.flags = e.flags
    <3>1. PICK f : f = e
      OBVIOUS
    <3>2. IsStab(f)
      BY <2>4, <3>1
    <3>. HIDE DEF e, waits
    <3>3. /\ IsStab([f EXCEPT !.xrid = r.xrid])
          /\ [f EXCEPT !.xrid = r.xrid].ud = f.ud
          /\ [f EXCEPT !.xrid = r.xrid].flags = f.flags
      BY <2>3, <3>2, XridType DEF IsStab, Stab
    <3>. QED  BY <3>1, <3>2, <3>3, Zenon
  <2>6. Holds(e, p) => Holds(e2, p)
    BY <2>5 DEF Holds, Marked
  <2>. HIDE DEF e, e2
  <2>7. DOMAIN tab = DOMAIN stab /\ tab[i] = e2
          /\ \A k \in DOMAIN stab \ {i} : tab[k] = stab[k]
    BY <2>2
  <2>. HIDE DEF tab
  <2>8. \A k \in DOMAIN tab : IsStab(tab[k])
    BY <2>5, <2>7 DEF TypeOK
  <2>9. ASSUME NEW k \in DOMAIN tab, Holds(tab[k], p)
        PROVE  k \in DOMAIN stab' /\ Holds(stab'[k], p)
    BY <2>1, <2>8, <2>9, stuendType, stuendHolds
  <2>10. CASE pt_state'[p] = "WAITSYNC" /\ p = q
    <3>1. S2Rc(p, stab[i], r) = "WAIT" /\ sp_stab'[p] = i
      BY <2>1, <2>10, S2PtabHeld
    <3>2. Holds(e, p)
      BY <2>2, <2>3, <2>10, <3>1, S2Wait, VoteHolds DEF e
    <3>. QED  BY <2>2, <2>6, <2>7, <2>9, <3>1, <3>2 DEF Held
  <2>11. CASE pt_state'[p] = "WAITSYNC" /\ p # q
    <3>1. pt_state[p] = "WAITSYNC" /\ sp_stab'[p] = sp_stab[p]
      BY <2>1, <2>11, S2PtabHeld
    <3>2. sp_stab[p] \in DOMAIN stab /\ Holds(stab[sp_stab[p]], p)
      BY <3>1 DEF Held
    <3>3. Holds(tab[sp_stab[p]], p)
      <4>1. CASE sp_stab[p] = i
        BY <2>1, <2>2, <2>3, <2>6, <2>7, <3>1, <3>2, <4>1, MayVoteHolds DEF WaitsIn, e
      <4>2. CASE sp_stab[p] # i
        BY <2>7, <3>2, <4>2
      <4>. QED  BY <4>1, <4>2
    <3>. QED  BY <2>7, <2>9, <3>1, <3>2, <3>3 DEF Held
  <2>. QED  BY <2>10, <2>11 DEF Held
<1>. QED  BY <1>1, <1>2

LEMMA UsyncHeld ==
  ASSUME ~Siblings, TypeOK, NEW p \in Proc, Held(p), NEW q \in Proc, NEW id \in Int,
         NEW list \in UserLists, NEW r \in UserReqs, OpUsync(q, id, list, r)
  PROVE  Held(p)'
<1>. DEFINE users == {Me(q)} \cup Range(list)
            new   == NewUsync(id, r.xrid, users)
            found == stufind(r.xrid, users)
<1>1. CASE \E rc : Refuse(q, rc)
  BY <1>1, RefuseHeld
<1>2. CASE ~ \E rc : Refuse(q, rc)
  <2>1. /\ ~(r.spno < 0)
        /\ \A j \in DOMAIN list : ~(list[j].sysid < 0)
        /\ \/ /\ stab' = stadd(snid + 1, op_s2(q, new, r))
              /\ S2Ptab(q, snid + 1, new, r)
           \/ \E i \in found :
                 /\ MayVote(q, i, stab[i], r)
                 /\ stab' = [stab EXCEPT ![i] = op_s2(q, stab[i], r)]
                 /\ S2Ptab(q, i, stab[i], r)
    BY <1>2 DEF OpUsync
  <2>2. GoodReq(r) /\ r.xrid \in Int
    BY <2>1, SyncdAssumption DEF GoodReq, Request
  <2>3. users \in SUBSET User
    <3>1. list \in Seq([sysid : Int, ptype : Ptype])
      BY SyncdAssumption
    <3>2. ASSUME NEW j \in DOMAIN list
          PROVE  list[j] \in User
      <4>1. list[j] \in [sysid : Int, ptype : Ptype]
        BY <3>1, SeqElement, Zenon
      <4>2. ~(list[j].sysid < 0)
        BY <2>1
      <4>. QED  BY <4>1, <4>2 DEF User
    <3>. QED  BY <3>2, MeType DEF Range
  <2>4. IsStab(new)
    BY <2>2, <2>3, NewUsyncType
  <2>. HIDE DEF new, users, found
  <2>5. CASE /\ stab' = stadd(snid + 1, op_s2(q, new, r))
             /\ S2Ptab(q, snid + 1, new, r)
    <3>1. snid + 1 \notin DOMAIN stab
      BY SyncdAssumption DEF TypeOK
    <3>2. /\ DOMAIN stab' = DOMAIN stab \cup {snid + 1}
          /\ stab'[snid + 1] = op_s2(q, new, r)
          /\ \A k \in DOMAIN stab : stab'[k] = stab[k]
      BY <2>5, <3>1 DEF stadd
    <3>3. CASE pt_state'[p] = "WAITSYNC" /\ p = q
      <4>1. S2Rc(p, new, r) = "WAIT" /\ sp_stab'[p] = snid + 1
        BY <2>5, <3>3, S2PtabHeld
      <4>2. Holds(op_s2(q, new, r), p)
        BY <2>2, <2>4, <3>3, <4>1, S2Wait, VoteHolds
      <4>. QED  BY <3>2, <4>1, <4>2 DEF Held
    <3>4. CASE pt_state'[p] = "WAITSYNC" /\ p # q
      BY <2>5, <3>2, <3>4, S2PtabHeld DEF Held
    <3>. QED  BY <3>3, <3>4 DEF Held
  <2>6. ASSUME NEW i \in found, MayVote(q, i, stab[i], r),
               stab' = [stab EXCEPT ![i] = op_s2(q, stab[i], r)],
               S2Ptab(q, i, stab[i], r)
        PROVE  Held(p)'
    <3>1. i \in DOMAIN stab /\ IsStab(stab[i])
      BY DEF found, stufind, TypeOK
    <3>2. /\ DOMAIN stab' = DOMAIN stab
          /\ stab'[i] = op_s2(q, stab[i], r)
          /\ \A k \in DOMAIN stab \ {i} : stab'[k] = stab[k]
      BY <2>6, <3>1
    <3>3. CASE pt_state'[p] = "WAITSYNC" /\ p = q
      <4>1. S2Rc(p, stab[i], r) = "WAIT" /\ sp_stab'[p] = i
        BY <2>6, <3>3, S2PtabHeld
      <4>2. Holds(op_s2(q, stab[i], r), p)
        BY <2>2, <3>1, <3>3, <4>1, S2Wait, VoteHolds
      <4>. QED  BY <3>1, <3>2, <4>1, <4>2 DEF Held
    <3>4. CASE pt_state'[p] = "WAITSYNC" /\ p # q
      <4>1. pt_state[p] = "WAITSYNC" /\ sp_stab'[p] = sp_stab[p]
        BY <2>6, <3>4, S2PtabHeld
      <4>2. sp_stab[p] \in DOMAIN stab /\ Holds(stab[sp_stab[p]], p)
        BY <4>1 DEF Held
      <4>3. CASE sp_stab[p] = i
        <5>1. WaitsIn(p, i)
          BY <4>1, <4>3 DEF WaitsIn
        <5>2. Holds(op_s2(q, stab[i], r), p)
          BY <2>2, <2>6, <3>1, <4>2, <4>3, <5>1, MayVoteHolds
        <5>. QED  BY <3>1, <3>2, <4>1, <4>3, <5>2 DEF Held
      <4>4. CASE sp_stab[p] # i
        BY <3>2, <4>1, <4>2, <4>4 DEF Held
      <4>. QED  BY <4>3, <4>4
    <3>. QED  BY <3>3, <3>4 DEF Held
  <2>. QED  BY <2>1, <2>5, <2>6
<1>. QED  BY <1>1, <1>2

LEMMA LoopHeld ==
  ASSUME TypeOK, NEW p \in Proc, Held(p), EndProcrun \/ EndStloop \/ EndTimeouts
  PROVE  Held(p)'
BY DEF EndProcrun, EndStloop, EndTimeouts, ptabvars, Held, TypeOK

\* Who is not woken by the event keeps its vote, and with it the entry.
LEMMA StServiceHeld ==
  ASSUME TypeOK, NEW p \in Proc, Held(p), NEW i \in DOMAIN stab, StService(i)
  PROVE  Held(p)'
<1>. DEFINE e == [stab[i] EXCEPT !.flags = @ \ {"ATTENTION"}]
            wake == {e.ud[u].ptab : u \in Woken(e)}
<1>1. CASE UNCHANGED <<stab, snid, ptabvars, overshot>>
  BY <1>1 DEF ptabvars, Held
<1>2. CASE ~UNCHANGED <<stab, snid, ptabvars, overshot>>
  <2>1. /\ stab' = IF NoLongerRequired(e) THEN strm(i)
                   ELSE [stab EXCEPT ![i] = EntryAfter(e)]
        /\ pt_state' = [r \in Proc |-> IF r \in wake THEN "SNDMSG" ELSE pt_state[r]]
        /\ sp_stab' = [r \in Proc |-> IF r \in wake THEN 0 ELSE sp_stab[r]]
    BY <1>2, Zenon DEF StService
  <2>2. SUFFICES ASSUME pt_state'[p] = "WAITSYNC"
                 PROVE  sp_stab'[p] \in DOMAIN stab' /\ Holds(stab'[sp_stab'[p]], p)
    BY DEF Held
  <2>3. p \notin wake /\ pt_state[p] = "WAITSYNC" /\ sp_stab'[p] = sp_stab[p]
    BY <2>1, <2>2
  <2>4. sp_stab[p] \in DOMAIN stab /\ Holds(stab[sp_stab[p]], p)
    BY <2>3 DEF Held
  <2>5. IsStab(e) /\ e.ud = stab[i].ud
    <3>1. PICK e0 : e0 = stab[i]
      OBVIOUS
    <3>2. IsStab(e0)
      BY <3>1 DEF TypeOK
    <3>3. PICK f : f = [e0 EXCEPT !.flags = e0.flags \ {"ATTENTION"}]
      OBVIOUS
    <3>4. IsStab(f) /\ f.ud = e0.ud
      BY <3>2, <3>3 DEF IsStab, Stab
    <3>5. e = f
      BY <3>1, <3>3, Zenon
    <3>. QED  BY <3>1, <3>4, <3>5, Zenon
  <2>. HIDE DEF e
  <2>6. CASE sp_stab[p] # i
    <3>1. sp_stab[p] \in DOMAIN stab' /\ stab'[sp_stab[p]] = stab[sp_stab[p]]
      BY <2>1, <2>4, <2>6 DEF strm
    <3>. QED  BY <2>3, <2>4, <3>1
  <2>7. CASE sp_stab[p] = i
    <3>1. PICK u \in DOMAIN e.ud : e.ud[u].ptab = p /\ Voted(e.ud[u])
      BY <2>4, <2>5, <2>7 DEF Holds
    <3>2. u \notin Woken(e)
      BY <2>3, <3>1
    <3>3. ~DoneWithVote(e, e.ud[u])
      <4>1. e.ud[u].spno \in 0..SPMAX
        BY <2>5 DEF IsStab, IsUd, Ustab
      <4>2. EventSpno(e) \in 0..SPMAX
        BY <2>5, EventSpnoType
      <4>3. e.ud[u].spno <= EventSpno(e) => e.ud[u].spno <= LastSpno(e)
        BY <4>1, <4>2, SyncdAssumption DEF LastSpno
      <4>. QED  BY <3>1, <3>2, <4>3 DEF DoneWithVote, Woken
    <3>4. ~NoLongerRequired(e)
      BY <3>1, <3>3 DEF NoLongerRequired, Voted
    <3>5. i \in DOMAIN stab' /\ stab'[i] = EntryAfter(e)
      BY <2>1, <3>4
    <3>6. Holds(EntryAfter(e), p)
      BY <2>5, <3>1, <3>3, EntryAfterHolds
    <3>. QED  BY <2>3, <2>7, <3>5, <3>6
  <2>. QED  BY <2>6, <2>7
<1>. QED  BY <1>1, <1>2

\* A process whose timeout has expired still waits, until its event, which
\* the timeout has made happen, is serviced.
LEMMA TimeoutHeld ==
  ASSUME TypeOK, NEW p \in Proc, Held(p), NEW q \in Proc, Timeout(q)
  PROVE  Held(p)'
<1>. DEFINE i == sp_stab[q]
<1>1. UNCHANGED <<pt_state, sp_stab>>
  BY DEF Timeout
<1>2. CASE UNCHANGED stab
  BY <1>1, <1>2 DEF Held
<1>3. CASE ~UNCHANGED stab
  <2>1. PICK u \in DOMAIN stab[i].ud :
          /\ i \in DOMAIN stab
          /\ stab[i].ud[u].state \in {"SYNCYES", "SYNCNO"}
          /\ stab' = [stab EXCEPT ![i] =
                          stcheck([@ EXCEPT !.ud[u].state = "TIMEDOUT"])]
    BY <1>3, Zenon DEF Timeout
  <2>2. PICK e : e = stab[i]
    OBVIOUS
  <2>3. IsStab(e) /\ u \in DOMAIN e.ud /\ e.ud[u] \in Ustab
    BY <2>1, <2>2 DEF TypeOK, IsStab, IsUd
  <2>4. PICK up : up = [e.ud[u] EXCEPT !.state = "TIMEDOUT"]
    OBVIOUS
  <2>5. up \in Ustab /\ up.ptab = e.ud[u].ptab /\ Voted(up)
    BY <2>3, <2>4 DEF Ustab, UserState, Voted
  <2>6. PICK g : g = SetUser(e, u, up)
    OBVIOUS
  <2>7. /\ IsStab(g) /\ DOMAIN g.ud = DOMAIN e.ud /\ g.flags = e.flags
        /\ g.ud[u] = up
        /\ \A v \in DOMAIN e.ud \ {u} : g.ud[v] = e.ud[v]
    BY <2>3, <2>5, <2>6, SetUserType DEF Same
  <2>8. Holds(e, p) => Holds(g, p)
    BY <2>5, <2>7 DEF Holds, Marked
  <2>9. stab' = [stab EXCEPT ![i] = stcheck(g)]
    BY <2>1, <2>2, <2>4, <2>6, Zenon DEF SetUser
  <2>10. /\ DOMAIN stab' = DOMAIN stab
         /\ stab'[i] = stcheck(g)
         /\ \A k \in DOMAIN stab \ {i} : stab'[k] = stab[k]
    BY <2>1, <2>9
  <2>11. Holds(e, p) => Holds(stcheck(g), p)
    BY <2>7, <2>8, stcheckHolds
  <2>12. ASSUME NEW k \in DOMAIN stab, Holds(stab[k], p)
         PROVE  k \in DOMAIN stab' /\ Holds(stab'[k], p)
    BY <2>2, <2>10, <2>11, <2>12
  <2>. QED  BY <1>1, <2>12 DEF Held
<1>. QED  BY <1>2, <1>3

-----------------------------------------------------------------------------
LEMMA HeldStep ==
  ASSUME ~Siblings, TypeOK, NEW p \in Proc, Held(p), [Next]_vars
  PROVE  Held(p)'
<1>1. ASSUME NEW q \in Proc, Requests(q)
      PROVE  Held(p)'
  <2>1. CASE OpLogon(q) \/ OpNotLoggedOn(q) \/ OpLogoff(q) \/ OpSnget(q)
    BY <2>1, LogonHeld, LeaveHeld, SngetHeld
  <2>2. ASSUME NEW i \in 1..SNIDMAX, OpSnrm(q, i)
        PROVE  Held(p)'
    BY <2>2, SnrmHeld
  <2>3. ASSUME NEW i \in 1..SNIDMAX, NEW list \in SysLists, OpSnsys(q, i, list)
        PROVE  Held(p)'
    BY <2>3, SnsysHeld
  <2>4. ASSUME NEW i \in 1..SNIDMAX, NEW r \in AutoReqs, OpAsync(q, i, r)
        PROVE  Held(p)'
    BY <2>4, AsyncHeld
  <2>5. ASSUME NEW i \in 1..SNIDMAX, NEW list \in UserLists, NEW r \in UserReqs,
               OpUsync(q, i, list, r)
        PROVE  Held(p)'
    BY <2>5, UsyncHeld
  <2>. QED  BY <1>1, <2>1, <2>2, <2>3, <2>4, <2>5 DEF Requests
<1>2. ASSUME NEW q \in Proc, Dead(q)
      PROVE  Held(p)'
  BY <1>2, LeaveHeld
<1>3. ASSUME NEW q \in Proc, Timeout(q)
      PROVE  Held(p)'
  BY <1>3, TimeoutHeld
<1>4. CASE ServerLoop
  BY <1>4, LoopHeld, StServiceHeld DEF ServerLoop
<1>5. CASE UNCHANGED vars
  BY <1>5 DEF vars, ptabvars, Held
<1>. QED  BY <1>1, <1>2, <1>3, <1>4, <1>5 DEF Next

\* If processes of one system do not join each other's events, then whatever
\* else the clients do, and whenever they die, the event a process waits on
\* stays in the table with its vote until the process is woken.
THEOREM NobodyForgotten == Spec => []WaiterHeld
<1>1. Init => WaiterHeld
  <2>1. ASSUME Init, NEW p \in Proc
        PROVE  pt_state[p] # "WAITSYNC"
    BY <2>1 DEF Init
  <2>. QED  BY <2>1 DEF WaiterHeld
<1>2. TypeOK /\ WaiterHeld /\ [Next]_vars => WaiterHeld'
  BY HeldStep DEF WaiterHeld, Held
<1>. QED  BY <1>1, <1>2, TypeCorrect, PTL DEF Spec
=============================================================================
