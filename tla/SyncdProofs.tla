---------------------------- MODULE SyncdProofs ----------------------------
(***************************************************************************)
(* Proofs about the synchronisation daemon for any number of clients, any  *)
(* requests and any bounds.                                                *)
(***************************************************************************)
EXTENDS Syncd, WellFoundedInduction, TLAPS

-----------------------------------------------------------------------------
(* Facts about the operators of one sync table entry.                      *)

\* A non-empty set of naturals has a least element, which Min() returns.
LEMMA MinNat ==
  ASSUME NEW S \in SUBSET Nat, S # {}
  PROVE  Min(S) \in S /\ \A y \in S : Min(S) <= y
<1>1. \A x, y \in Nat : <<x, y>> \in OpToRel(<, Nat) <=> x < y
  BY Zenon DEF OpToRel
<1>2. \E x \in S : \A y \in S : ~ (<<y, x>> \in OpToRel(<, Nat))
  BY NatLessThanWellFounded, WFMin, Zenon
<1>3. PICK x \in S : \A y \in S : ~ (y < x)
  <2>1. \A y \in S : y \in Nat
    OBVIOUS
  <2>. QED  BY <1>1, <1>2, <2>1, Zenon
<1>4. \A y \in S : x <= y
  BY <1>3
<1>. QED  BY <1>4 DEF Min

\* The event's sync point is that of a voter, and no voter's is lower but 0.
LEMMA EventSpnoType ==
  ASSUME NEW e, IsStab(e)
  PROVE  /\ EventSpno(e) \in 0..SPMAX
         /\ \A u \in DOMAIN e.ud : Voted(e.ud[u]) /\ e.ud[u].spno # 0 =>
                EventSpno(e) <= e.ud[u].spno
<1>. DEFINE S == {e.ud[u].spno : u \in {v \in DOMAIN e.ud : Voted(e.ud[v])}} \ {0}
<1>1. S \in SUBSET (0..SPMAX)
  BY DEF IsStab, IsUd, Ustab
<1>2. \A u \in DOMAIN e.ud : Voted(e.ud[u]) /\ e.ud[u].spno # 0 => e.ud[u].spno \in S
  OBVIOUS
<1>3. CASE S = {}
  <2>1. EventSpno(e) = 0
    BY <1>3 DEF EventSpno
  <2>. HIDE DEF S
  <2>. QED  BY <1>2, <1>3, <2>1, SyncdAssumption
<1>4. CASE S # {}
  <2>1. S \in SUBSET Nat
    BY <1>1
  <2>2. Min(S) \in S /\ \A n \in S : Min(S) <= n
    BY <2>1, <1>4, MinNat
  <2>3. EventSpno(e) = Min(S)
    BY <1>4 DEF EventSpno
  <2>. HIDE DEF S
  <2>. QED  BY <1>1, <1>2, <2>2, <2>3
<1>. QED  BY <1>3, <1>4

LEMMA LastSpnoType ==
  ASSUME NEW e, IsStab(e)
  PROVE  LastSpno(e) \in 0..SPMAX
BY EventSpnoType, SyncdAssumption DEF LastSpno

\* stcheck() changes the flags only, and never SF_USYNC.
LEMMA stcheckType ==
  ASSUME NEW e, IsStab(e)
  PROVE  /\ IsStab(stcheck(e))
         /\ stcheck(e).snid = e.snid
         /\ stcheck(e).xrid = e.xrid
         /\ stcheck(e).owner = e.owner
         /\ stcheck(e).ud = e.ud
         /\ stcheck(e).sm = e.sm
         /\ Usync(stcheck(e)) <=> Usync(e)
         /\ Marked(e) => Marked(stcheck(e))
<1>1. stcheck(e) \in Stab({e.ud})
  BY DEF stcheck, IsStab, Stab, Flag
<1>2. stcheck(e).ud = e.ud
  BY <1>1 DEF Stab
<1>3. /\ stcheck(e).snid = e.snid
      /\ stcheck(e).xrid = e.xrid
      /\ stcheck(e).owner = e.owner
      /\ stcheck(e).sm = e.sm
  BY DEF stcheck, IsStab, Stab
<1>4. Usync(stcheck(e)) <=> Usync(e)
  BY DEF stcheck, IsStab, Stab, Usync
<1>5. Marked(e) => Marked(stcheck(e))
  BY DEF stcheck, IsStab, Stab, Marked
<1>. QED  BY <1>1, <1>2, <1>3, <1>4, <1>5 DEF IsStab

LEMMA procmsdataType ==
  ASSUME NEW sm \in Synmsg, NEW n \in Nat, NEW r \in Request, r.spno >= 0
  PROVE  procmsdata(sm, n, r) \in Synmsg
<1>1. CASE sm.sysid >= 0 /\ (sm.len > 0 \/ r.smlen = 0)
  BY <1>1 DEF procmsdata, Synmsg, MsgFlag
<1>2. CASE ~ (sm.sysid >= 0 /\ (sm.len > 0 \/ r.smlen = 0))
  BY <1>2 DEF procmsdata, Synmsg, MsgFlag, Request
<1>. QED  BY <1>1, <1>2

LEMMA MyupInUd ==
  ASSUME NEW p, NEW e, HasMyup(p, e)
  PROVE  Myup(p, e) \in DOMAIN e.ud /\ Matches(p, e, Myup(p, e))
BY DEF HasMyup, Myup

\* A request that passed the checks of op_async() and op_usync().
GoodReq(r) == r \in Request /\ r.spno \in 0..SPMAX

\* The user that a vote leaves, and the entry that it hands to stcheck().
Voter(p, r) == [state |-> IF r.vote = "YES" THEN "SYNCYES" ELSE "SYNCNO",
                spno |-> r.spno, ntimedout |-> 0, ptab |-> p,
                smflags |-> r.smflags]
VoterSm(p, e, r) == IF "SNDMSG" \in r.smflags
                    THEN procmsdata(e.sm, ptr_sysid[p], r) ELSE e.sm

LEMMA VoteRecord ==
  ASSUME NEW p \in Proc, NEW e, IsStab(e), NEW r, GoodReq(r), HasMyup(p, e)
  PROVE  \E e2 : /\ Vote(p, e, r) = stcheck(e2)
                 /\ IsStab(e2)
                 /\ e2.snid = e.snid /\ e2.xrid = e.xrid /\ e2.owner = e.owner
                 /\ e2.flags = e.flags \cup {"INPROGRESS"}
                 /\ e2.sm = VoterSm(p, e, r)
                 /\ DOMAIN e2.ud = DOMAIN e.ud
                 /\ e2.ud[Myup(p, e)] = Voter(p, r)
                 /\ \A u \in DOMAIN e.ud \ {Myup(p, e)} : e2.ud[u] = e.ud[u]
<1>. DEFINE up == Voter(p, r)
            sm == VoterSm(p, e, r)
            ud == [e.ud EXCEPT ![Myup(p, e)] = up]
            e2 == [e EXCEPT !.ud[Myup(p, e)] = up,
                            !.sm = IF "SNDMSG" \in r.smflags
                                   THEN procmsdata(@, ptr_sysid[p], r) ELSE @,
                            !.flags = @ \cup {"INPROGRESS"}]
<1>1. Vote(p, e, r) = stcheck(e2)
  BY DEF Vote, Voter
<1>2. up \in Ustab
  BY DEF GoodReq, Request, Ustab, UserState, Voter
<1>3. IsUd(ud)
  BY <1>2, MyupInUd DEF IsStab, IsUd
<1>4. sm \in Synmsg
  BY procmsdataType, SyncdAssumption DEF GoodReq, IsStab, Stab, VoterSm
<1>5. e2 = [snid |-> e.snid, xrid |-> e.xrid, lastspno |-> e.lastspno,
            owner |-> e.owner, ud |-> ud, flags |-> e.flags \cup {"INPROGRESS"},
            sm |-> sm]
  <2>1. [e EXCEPT !.ud = ud] =
          [snid |-> e.snid, xrid |-> e.xrid, lastspno |-> e.lastspno,
           owner |-> e.owner, ud |-> ud, flags |-> e.flags, sm |-> e.sm]
    BY DEF IsStab, Stab
  <2>2. e2 = [[[e EXCEPT !.ud = ud] EXCEPT !.sm = sm]
                  EXCEPT !.flags = e.flags \cup {"INPROGRESS"}]
    BY Zenon DEF VoterSm
  <2>. HIDE DEF ud, sm, e2
  <2>. QED  BY <2>1, <2>2
<1>6. IsStab(e2)
  BY <1>3, <1>4, <1>5 DEF IsStab, Stab, Flag
<1>7. e.ud \in [DOMAIN e.ud -> Ustab]
  BY DEF IsStab, IsUd
<1>. HIDE DEF up
<1>8. /\ DOMAIN ud = DOMAIN e.ud /\ ud[Myup(p, e)] = up
      /\ \A u \in DOMAIN e.ud \ {Myup(p, e)} : ud[u] = e.ud[u]
  BY MyupInUd, <1>7
<1>. HIDE DEF ud, e2, sm
<1>9. /\ e2.snid = e.snid /\ e2.xrid = e.xrid /\ e2.owner = e.owner
      /\ e2.flags = e.flags \cup {"INPROGRESS"} /\ e2.sm = sm /\ e2.ud = ud
  BY <1>5
<1>. QED  BY <1>1, <1>6, <1>8, <1>9 DEF up, sm

\* What a vote does to its entry.
LEMMA VoteType ==
  ASSUME NEW p \in Proc, NEW e, IsStab(e), NEW r, GoodReq(r), HasMyup(p, e)
  PROVE  /\ IsStab(Vote(p, e, r))
         /\ Vote(p, e, r).snid = e.snid
         /\ Vote(p, e, r).xrid = e.xrid
         /\ Vote(p, e, r).owner = e.owner
         /\ DOMAIN Vote(p, e, r).ud = DOMAIN e.ud
         /\ \A u \in DOMAIN e.ud \ {Myup(p, e)} : Vote(p, e, r).ud[u] = e.ud[u]
         /\ Vote(p, e, r).ud[Myup(p, e)].ptab = p
         /\ Voted(Vote(p, e, r).ud[Myup(p, e)])
         /\ Usync(Vote(p, e, r)) <=> Usync(e)
         /\ Marked(Vote(p, e, r))
<1>1. PICK e2 : /\ Vote(p, e, r) = stcheck(e2)
                /\ IsStab(e2)
                /\ e2.snid = e.snid /\ e2.xrid = e.xrid /\ e2.owner = e.owner
                /\ e2.flags = e.flags \cup {"INPROGRESS"}
                /\ DOMAIN e2.ud = DOMAIN e.ud
                /\ e2.ud[Myup(p, e)] = Voter(p, r)
                /\ \A u \in DOMAIN e.ud \ {Myup(p, e)} : e2.ud[u] = e.ud[u]
  BY VoteRecord
<1>2. (Usync(e2) <=> Usync(e)) /\ Marked(e2)
  BY <1>1 DEF Usync, Marked
<1>3. Voter(p, r).ptab = p /\ Voted(Voter(p, r))
  BY DEF Voter, Voted
<1>. QED  BY <1>1, <1>2, <1>3, stcheckType

\* What no operation on an entry changes, but for the XRID of an auto sync.
Same(e, f) == /\ f.snid = e.snid
              /\ f.xrid = e.xrid
              /\ DOMAIN f.ud = DOMAIN e.ud
              /\ Usync(f) <=> Usync(e)

\* One user's details are replaced.
SetUser(e, x, up) == [e EXCEPT !.ud = [e.ud EXCEPT ![x] = up]]

LEMMA SetUserType ==
  ASSUME NEW e, IsStab(e), NEW x \in DOMAIN e.ud, NEW up \in Ustab,
         NEW f, f = SetUser(e, x, up)
  PROVE  /\ IsStab(f)
         /\ Same(e, f)
         /\ f.owner = e.owner
         /\ f.flags = e.flags
         /\ f.sm = e.sm
         /\ f.ud[x] = up
         /\ \A u \in DOMAIN e.ud \ {x} : f.ud[u] = e.ud[u]
<1>. DEFINE ud == [e.ud EXCEPT ![x] = up]
<1>1. /\ IsUd(ud)
      /\ DOMAIN ud = DOMAIN e.ud
      /\ ud[x] = up
      /\ \A u \in DOMAIN e.ud \ {x} : ud[u] = e.ud[u]
  BY DEF IsStab, IsUd
<1>. HIDE DEF ud
<1>2. f = [snid |-> e.snid, xrid |-> e.xrid, lastspno |-> e.lastspno,
           owner |-> e.owner, ud |-> ud, flags |-> e.flags, sm |-> e.sm]
  <2>1. f = [e EXCEPT !.ud = ud]
    BY Zenon DEF ud, SetUser
  <2>. QED  BY <2>1 DEF IsStab, Stab
<1>3. IsStab(f) /\ Same(e, f) /\ f.owner = e.owner /\ f.ud = ud
        /\ f.flags = e.flags /\ f.sm = e.sm
  BY <1>1, <1>2 DEF IsStab, Stab, Same, Usync
<1>. QED  BY <1>1, <1>3

\* A process that has missed an event is told so once per missed event.
LEMMA DoneType ==
  ASSUME NEW p \in Proc, NEW e, IsStab(e), NEW r, S2Rc(p, e, r) = "DONE"
  PROVE  /\ IsStab(op_s2(p, e, r))
         /\ Same(e, op_s2(p, e, r))
         /\ op_s2(p, e, r).owner = e.owner
         /\ op_s2(p, e, r).flags = e.flags
         /\ \A u \in DOMAIN e.ud : op_s2(p, e, r).ud[u].ptab = e.ud[u].ptab
         /\ op_s2(p, e, r).sm = e.sm
         /\ \A u \in DOMAIN e.ud : /\ op_s2(p, e, r).ud[u].state = e.ud[u].state
                                   /\ op_s2(p, e, r).ud[u].spno = e.ud[u].spno
<1>. DEFINE x  == Myup(p, e)
            up == [e.ud[x] EXCEPT !.ntimedout = e.ud[x].ntimedout - 1]
<1>1. HasMyup(p, e) /\ e.ud[x].ntimedout > 0
  BY DEF S2Rc
<1>2. x \in DOMAIN e.ud
  BY <1>1, MyupInUd
<1>3. e.ud[x] \in Ustab
  BY <1>2 DEF IsStab, IsUd
<1>. HIDE DEF x
<1>4. up \in Ustab /\ up.ptab = e.ud[x].ptab /\ up.state = e.ud[x].state
        /\ up.spno = e.ud[x].spno
  BY <1>1, <1>3 DEF Ustab
<1>5. op_s2(p, e, r) = SetUser(e, x, up)
  BY Zenon DEF op_s2, SetUser, x
<1>. HIDE DEF up
<1>. QED  BY <1>2, <1>4, <1>5, SetUserType, SMTT(30)

LEMMA S2Wait ==
  ASSUME NEW p, NEW e, NEW r, S2Rc(p, e, r) = "WAIT"
  PROVE  HasMyup(p, e) /\ op_s2(p, e, r) = Vote(p, e, r)
BY DEF S2Rc, op_s2

\* What op_s2() does to its entry, whatever it decides.
LEMMA op_s2Type ==
  ASSUME NEW p \in Proc, NEW e, IsStab(e), NEW r, GoodReq(r)
  PROVE  /\ IsStab(op_s2(p, e, r))
         /\ Same(e, op_s2(p, e, r))
         /\ op_s2(p, e, r).owner = e.owner
         /\ \A u \in DOMAIN e.ud :
                \/ op_s2(p, e, r).ud[u].ptab = e.ud[u].ptab
                \/ op_s2(p, e, r).ud[u].ptab = p /\ Matches(p, e, u)
<1>1. CASE S2Rc(p, e, r) = "WAIT"
  BY <1>1, S2Wait, VoteType, MyupInUd DEF Same
<1>2. CASE S2Rc(p, e, r) = "DONE"
  BY <1>2, DoneType
<1>3. CASE S2Rc(p, e, r) = "SYSID"
  <2>1. op_s2(p, e, r) = e
    BY <1>3 DEF op_s2
  <2>. QED  BY <2>1 DEF Same
<1>4. S2Rc(p, e, r) \in {"WAIT", "DONE", "SYSID"}
  BY DEF S2Rc
<1>. QED  BY <1>1, <1>2, <1>3, <1>4

\* stuend() changes the flags of the entries it ends, and drops none.
LEMMA stuendType ==
  ASSUME NEW tab, NEW id, NEW n, \A i \in DOMAIN tab : IsStab(tab[i])
  PROVE  /\ DOMAIN stuend(tab, id, n) = DOMAIN tab
         /\ \A i \in DOMAIN tab :
              /\ IsStab(stuend(tab, id, n)[i])
              /\ Same(tab[i], stuend(tab, id, n)[i])
              /\ stuend(tab, id, n)[i].owner = tab[i].owner
              /\ stuend(tab, id, n)[i].ud = tab[i].ud
<1>1. DOMAIN stuend(tab, id, n) = DOMAIN tab
  BY DEF stuend
<1>. SUFFICES ASSUME NEW i \in DOMAIN tab
              PROVE  /\ IsStab(stuend(tab, id, n)[i])
                     /\ Same(tab[i], stuend(tab, id, n)[i])
                     /\ stuend(tab, id, n)[i].owner = tab[i].owner
                     /\ stuend(tab, id, n)[i].ud = tab[i].ud
  BY <1>1
<1>. DEFINE e == tab[i]
            F == (e.flags \ {"INPROGRESS"}) \cup {"ERR", "ATTENTION"}
<1>2. stuend(tab, id, n)[i] =
        IF EndedBy(e, id, n) THEN [e EXCEPT !.flags = F] ELSE e
  BY DEF stuend
<1>3. IsStab(e)
  OBVIOUS
<1>. HIDE DEF e
<1>4. /\ [e EXCEPT !.flags = F] \in Stab({e.ud})
      /\ [e EXCEPT !.flags = F].snid = e.snid
      /\ [e EXCEPT !.flags = F].xrid = e.xrid
      /\ [e EXCEPT !.flags = F].owner = e.owner
      /\ [e EXCEPT !.flags = F].ud = e.ud
      /\ Usync([e EXCEPT !.flags = F]) <=> Usync(e)
  BY <1>3 DEF IsStab, Stab, Flag, Usync
<1>5. IsStab([e EXCEPT !.flags = F]) /\ Same(e, [e EXCEPT !.flags = F])
  BY <1>3, <1>4, Zenon DEF IsStab, Same
<1>6. Same(e, e)
  BY DEF Same
<1>. HIDE DEF F
<1>7. CASE EndedBy(e, id, n)
  BY <1>2, <1>4, <1>5, <1>7, Zenon DEF e
<1>8. CASE ~EndedBy(e, id, n)
  BY <1>2, <1>3, <1>6, <1>8, Zenon DEF e
<1>. QED  BY <1>7, <1>8

LEMMA UserAfterType ==
  ASSUME NEW e, NEW up \in Ustab
  PROVE  UserAfter(e, up) \in Ustab /\ UserAfter(e, up).ptab = up.ptab
<1>1. CASE DoneWithVote(e, up)
  BY <1>1 DEF UserAfter, Ustab, UserState
<1>2. CASE ~DoneWithVote(e, up)
  BY <1>2 DEF UserAfter, Ustab
<1>. QED  BY <1>1, <1>2

\* The entry after stservice().
LEMMA EntryAfterType ==
  ASSUME NEW e, IsStab(e)
  PROVE  /\ IsStab(EntryAfter(e))
         /\ Same(e, EntryAfter(e))
         /\ EntryAfter(e).owner = e.owner
         /\ StillVoted(e) => Marked(EntryAfter(e))
         /\ "ATTENTION" \notin EntryAfter(e).flags
         /\ EntryAfter(e).sm = MsgAfter(e)
         /\ \A u \in DOMAIN e.ud : EntryAfter(e).ud[u] = UserAfter(e, e.ud[u])
<1>. DEFINE ud == [u \in DOMAIN e.ud |-> UserAfter(e, e.ud[u])]
            F  == (e.flags \cap {"USYNC"})
                    \cup (IF StillVoted(e) THEN {"INPROGRESS"} ELSE {})
<1>1. IsUd(ud) /\ DOMAIN ud = DOMAIN e.ud
  BY UserAfterType DEF IsStab, IsUd
<1>2. MsgAfter(e) \in Synmsg
  BY DEF MsgAfter, NoMsg, Synmsg, IsStab, Stab, MsgFlag
<1>3. /\ F \subseteq Flag /\ ("USYNC" \in F <=> "USYNC" \in e.flags) /\ "ATTENTION" \notin F
      /\ StillVoted(e) => "INPROGRESS" \in F
  BY DEF Flag
<1>4. EntryAfter(e) = [snid |-> e.snid, xrid |-> e.xrid, lastspno |-> LastSpno(e),
                       owner |-> e.owner, ud |-> ud, flags |-> F, sm |-> MsgAfter(e)]
  <2>1. PICK e1 : e1 = [e EXCEPT !.lastspno = LastSpno(e)]
    OBVIOUS
  <2>2. e1 = [snid |-> e.snid, xrid |-> e.xrid, lastspno |-> LastSpno(e),
              owner |-> e.owner, ud |-> e.ud, flags |-> e.flags, sm |-> e.sm]
    BY <2>1 DEF IsStab, Stab
  <2>3. PICK e2 : e2 = [e1 EXCEPT !.ud = ud]
    OBVIOUS
  <2>4. PICK e3 : e3 = [e2 EXCEPT !.sm = MsgAfter(e)]
    OBVIOUS
  <2>5. EntryAfter(e) = [e3 EXCEPT !.flags = F]
    BY <2>1, <2>3, <2>4, Zenon DEF EntryAfter
  <2>. HIDE DEF ud, F
  <2>6. e2 = [snid |-> e.snid, xrid |-> e.xrid, lastspno |-> LastSpno(e),
              owner |-> e.owner, ud |-> ud, flags |-> e.flags, sm |-> e.sm]
    BY <2>2, <2>3
  <2>7. e3 = [snid |-> e.snid, xrid |-> e.xrid, lastspno |-> LastSpno(e),
              owner |-> e.owner, ud |-> ud, flags |-> e.flags, sm |-> MsgAfter(e)]
    BY <2>4, <2>6
  <2>. QED  BY <2>5, <2>7
<1>. HIDE DEF F
<1>5. IsStab(EntryAfter(e)) /\ Same(e, EntryAfter(e)) /\ EntryAfter(e).owner = e.owner
  <2>. HIDE DEF ud
  <2>. QED  BY <1>1, <1>2, <1>3, <1>4, LastSpnoType DEF IsStab, Stab, Same, Usync
<1>6. EntryAfter(e).ud = ud
  BY <1>4
<1>7. (StillVoted(e) => Marked(EntryAfter(e))) /\ "ATTENTION" \notin EntryAfter(e).flags
  BY <1>3, <1>4 DEF Marked
<1>8. EntryAfter(e).sm = MsgAfter(e)
  BY <1>4
<1>. QED  BY <1>5, <1>6, <1>7, <1>8

\* After p has gone its part is played by an heir or by nobody.
LEMMA std2Type ==
  ASSUME NEW p, NEW e, NEW up \in Ustab, NEW heir \in Proc,
         Heirs(p, e) # {} => heir \in Heirs(p, e)
  PROVE  /\ std2(p, e, up, heir) \in Ustab
         /\ up.ptab # p => std2(p, e, up, heir) = up
         /\ up.ptab = p => std2(p, e, up, heir).ptab \in {NoProc} \cup Heirs(p, e)
<1>1. CASE up.ptab # p
  BY <1>1 DEF std2
<1>2. CASE /\ up.ptab = p
           /\ Usync(e) /\ up.state = "NOTSYNCED" /\ Heirs(p, e) # {}
  BY <1>2 DEF std2, Ustab
<1>3. CASE /\ up.ptab = p
           /\ ~(Usync(e) /\ up.state = "NOTSYNCED" /\ Heirs(p, e) # {})
  <2>1. std2(p, e, up, heir) = [up EXCEPT !.ptab = NoProc, !.state = "DEAD"]
    BY <1>3 DEF std2
  <2>. QED  BY <1>3, <2>1 DEF Ustab, UserState
<1>. QED  BY <1>1, <1>2, <1>3

\* The entry that the death of p hands to stcheck() if p was one of its users.
LEMMA EntryDeadRecord ==
  ASSUME NEW p, NEW e, IsStab(e), NEW heir \in Proc,
         Heirs(p, e) # {} => heir \in Heirs(p, e)
  PROVE  \E e2 : /\ EntryDead(p, e, heir) =
                        IF \E u \in DOMAIN e.ud : e.ud[u].ptab = p THEN stcheck(e2) ELSE e2
                 /\ IsStab(e2) /\ Same(e, e2)
                 /\ e2.owner = IF e.owner = p THEN NoProc ELSE e.owner
                 /\ e2.flags = e.flags /\ e2.sm = e.sm
                 /\ \A u \in DOMAIN e.ud : e2.ud[u] = std2(p, e, e.ud[u], heir)
<1>. DEFINE ud == [u \in DOMAIN e.ud |-> std2(p, e, e.ud[u], heir)]
            o  == IF e.owner = p THEN NoProc ELSE e.owner
<1>1. IsUd(ud) /\ DOMAIN ud = DOMAIN e.ud
  BY std2Type DEF IsStab, IsUd
<1>2. \A u \in DOMAIN e.ud : ud[u] = std2(p, e, e.ud[u], heir)
  OBVIOUS
<1>3. o \in Proc \cup {NoProc}
  BY DEF IsStab, Stab
<1>4. PICK e1 : e1 = [e EXCEPT !.owner = o]
  OBVIOUS
<1>5. PICK e2 : e2 = [e1 EXCEPT !.ud = ud]
  OBVIOUS
<1>6. EntryDead(p, e, heir) =
        IF \E u \in DOMAIN e.ud : e.ud[u].ptab = p THEN stcheck(e2) ELSE e2
  BY <1>4, <1>5, Zenon DEF EntryDead
<1>. HIDE DEF ud, o
<1>7. e2 = [snid |-> e.snid, xrid |-> e.xrid, lastspno |-> e.lastspno,
            owner |-> o, ud |-> ud, flags |-> e.flags, sm |-> e.sm]
  <2>1. e1 = [snid |-> e.snid, xrid |-> e.xrid, lastspno |-> e.lastspno,
              owner |-> o, ud |-> e.ud, flags |-> e.flags, sm |-> e.sm]
    BY <1>4 DEF IsStab, Stab
  <2>. QED  BY <1>5, <2>1
<1>8. /\ IsStab(e2) /\ Same(e, e2) /\ e2.owner = o /\ e2.ud = ud
      /\ e2.flags = e.flags /\ e2.sm = e.sm
  BY <1>1, <1>3, <1>7 DEF IsStab, Stab, Same, Usync
<1>. QED  BY <1>2, <1>6, <1>8, Zenon DEF o

LEMMA EntryDeadType ==
  ASSUME NEW p, NEW e, IsStab(e), NEW heir \in Proc,
         Heirs(p, e) # {} => heir \in Heirs(p, e)
  PROVE  /\ IsStab(EntryDead(p, e, heir))
         /\ Same(e, EntryDead(p, e, heir))
         /\ EntryDead(p, e, heir).owner = IF e.owner = p THEN NoProc ELSE e.owner
         /\ Marked(e) => Marked(EntryDead(p, e, heir))
         /\ \A u \in DOMAIN e.ud :
                EntryDead(p, e, heir).ud[u] = std2(p, e, e.ud[u], heir)
<1>1. PICK e2 : /\ EntryDead(p, e, heir) =
                      IF \E u \in DOMAIN e.ud : e.ud[u].ptab = p THEN stcheck(e2) ELSE e2
                /\ IsStab(e2) /\ Same(e, e2)
                /\ e2.owner = IF e.owner = p THEN NoProc ELSE e.owner
                /\ e2.flags = e.flags
                /\ \A u \in DOMAIN e.ud : e2.ud[u] = std2(p, e, e.ud[u], heir)
  BY EntryDeadRecord
<1>2. Marked(e) => Marked(e2)
  BY <1>1 DEF Marked
<1>3. /\ IsStab(stcheck(e2)) /\ Same(e, stcheck(e2))
      /\ stcheck(e2).owner = e2.owner /\ stcheck(e2).ud = e2.ud
      /\ Marked(e) => Marked(stcheck(e2))
  BY <1>1, <1>2, stcheckType, Zenon DEF Same
<1>4. EntryDead(p, e, heir) \in {e2, stcheck(e2)}
  BY <1>1
<1>. QED  BY <1>1, <1>2, <1>3, <1>4, Zenon

LEMMA synmsg2Type ==
  ASSUME NEW e, IsStab(e), NEW u \in DOMAIN e.ud
  PROVE  synmsg2(e, u) \in Reply
<1>. DEFINE rc == IF "OK" \in e.flags THEN "OK"
                  ELSE IF e.ud[u].state = "TIMEDOUT" THEN "TIMEDOUT" ELSE "SYNCERR"
            rcvmsg == "RCVMSG" \in e.ud[u].smflags \/ e.sm.sysid # u.sysid
            sm == [sysid |-> e.sm.sysid, spno |-> e.sm.spno,
                   len |-> IF rcvmsg THEN e.sm.len ELSE 0,
                   flags |-> (e.sm.flags \ {"SNDMSG", "RCVMSG"})
                                \cup {IF rcvmsg THEN "RCVMSG" ELSE "SNDMSG"}]
<1>1. rc \in Rc
  BY DEF Rc
<1>2. sm \in Synmsg
  BY DEF IsStab, Stab, Synmsg, MsgFlag
<1>3. NoMsg \in Synmsg
  BY DEF NoMsg, Synmsg
<1>4. PICK b : synmsg2(e, u) = [rc |-> rc, spno |-> LastSpno(e),
                                sm |-> IF b THEN sm ELSE NoMsg]
  BY Zenon DEF synmsg2
<1>5. LastSpno(e) \in 0..SPMAX
  BY LastSpnoType
<1>. HIDE DEF rc, sm
<1>. QED  BY <1>1, <1>2, <1>3, <1>4, <1>5 DEF Reply

LEMMA AckType ==
  ASSUME NEW rc \in Rc
  PROVE  Ack(rc) \in Reply
BY SyncdAssumption DEF Ack, Reply, NoMsg, Synmsg

-----------------------------------------------------------------------------
(* The invariant.  TypeOK is inductive by itself, and each of the others   *)
(* given TypeOK; they are carried together because every action meets them *)
(* through the same facts about the table.                                 *)

\* Auto syncs have one user per system: a process is one user of an entry.
OneEach(e)   == ~Usync(e) => \A u, v \in DOMAIN e.ud : u.sysid = v.sysid => u = v
OnePerSystem == \A i \in DOMAIN stab : OneEach(stab[i])

IInv == TypeOK /\ NoDanglingPtab /\ UserSyncUnique /\ OnePerSystem

\* NoDanglingPtab for one entry, L being the processes logged on.
EntryOK(e, L) ==
    /\ e.owner \in L \cup {NoProc}
    /\ \A u \in DOMAIN e.ud : e.ud[u].ptab # NoProc =>
            e.ud[u].ptab \in L /\ Matches(e.ud[u].ptab, e, u)

LEMMA EntriesOK ==
  NoDanglingPtab <=> \A i \in DOMAIN stab : EntryOK(stab[i], pf_loggedon)
BY DEF NoDanglingPtab, EntryOK

LEMMA SameMatches ==
  ASSUME NEW e, NEW f, Same(e, f), NEW p, NEW u
  PROVE  Matches(p, e, u) <=> Matches(p, f, u)
BY DEF Same, Matches

\* The part of the invariant that speaks of the table.
TabOK == /\ DOMAIN stab \subseteq 1..snid
         /\ \A i \in DOMAIN stab : IsStab(stab[i])
         /\ NoDanglingPtab
         /\ UserSyncUnique
         /\ OnePerSystem

\* Entries are removed or change, but a user sync keeps its identity.
LEMMA TabChange ==
  ASSUME TabOK, snid' = snid,
         DOMAIN stab' \subseteq DOMAIN stab,
         \A i \in DOMAIN stab' : /\ IsStab(stab'[i])
                                 /\ EntryOK(stab'[i], pf_loggedon')
                                 /\ \/ Same(stab[i], stab'[i])
                                    \/ ~Usync(stab'[i]) /\ OneEach(stab'[i])
  PROVE  TabOK'
<1>1. (DOMAIN stab \subseteq 1..snid)' /\ (\A i \in DOMAIN stab : IsStab(stab[i]))'
  BY DEF TabOK
<1>2. NoDanglingPtab'
  BY DEF NoDanglingPtab, EntryOK, Matches
<1>3. UserSyncUnique'
  BY DEF TabOK, UserSyncUnique, stafind, Same
<1>4. OnePerSystem'
  BY DEF TabOK, OnePerSystem, OneEach, Usync, Same
<1>. QED  BY <1>1, <1>2, <1>3, <1>4 DEF TabOK

\* The table stays as it is and nobody logs off.
LEMMA TabKept ==
  ASSUME TabOK, snid' = snid, stab' = stab, pf_loggedon \subseteq pf_loggedon'
  PROVE  TabOK'
<1>1. NoDanglingPtab'
  BY DEF TabOK, NoDanglingPtab, Matches
<1>2. UserSyncUnique'
  BY DEF TabOK, UserSyncUnique, stafind
<1>. QED  BY <1>1, <1>2 DEF TabOK, OnePerSystem, OneEach, Usync

\* A new entry gets a number not used before; a user sync is created only if
\* stufind() finds none for its XRID and users.
LEMMA TabAdd ==
  ASSUME TypeOK, TabOK, snid' = snid + 1, pf_loggedon' = pf_loggedon,
         NEW e, IsStab(e), EntryOK(e, pf_loggedon), OneEach(e),
         stab' = stadd(snid + 1, e),
         Usync(e) => stufind(e.xrid, DOMAIN e.ud) = {}
  PROVE  TabOK'
<1>1. snid \in Nat /\ snid + 1 \notin DOMAIN stab
  BY SyncdAssumption DEF TypeOK
<1>2. DOMAIN stab' = DOMAIN stab \cup {snid + 1}
  BY DEF stadd
<1>3. stab'[snid + 1] = e /\ \A i \in DOMAIN stab : stab'[i] = stab[i]
  BY <1>1 DEF stadd
<1>4. (DOMAIN stab \subseteq 1..snid)' /\ (\A i \in DOMAIN stab : IsStab(stab[i]))'
  BY <1>1, <1>2, <1>3 DEF TabOK
<1>5. NoDanglingPtab'
  <2>1. \A i \in DOMAIN stab' : EntryOK(stab'[i], pf_loggedon')
    BY <1>2, <1>3, EntriesOK DEF TabOK
  <2>. QED  BY <2>1 DEF NoDanglingPtab, EntryOK, Matches
<1>6. UserSyncUnique'
  <2>1. ASSUME NEW i \in DOMAIN stab, Usync(e), Usync(stab[i])
        PROVE  ~(stab[i].xrid = e.xrid /\ DOMAIN stab[i].ud = DOMAIN e.ud)
    BY <2>1 DEF stufind
  <2>. QED  BY <1>2, <1>3, <2>1 DEF TabOK, UserSyncUnique, stafind
<1>7. OnePerSystem'
  BY <1>2, <1>3 DEF TabOK, OnePerSystem, OneEach, Usync
<1>. QED  BY <1>4, <1>5, <1>6, <1>7 DEF TabOK

\* The part of the invariant that speaks of the process table and the loop.
PtabOK == /\ snid \in 0..SNIDMAX
          /\ phase \in Phase
          /\ pt_state \in [Proc -> PtState]
          /\ pf_loggedon \subseteq Proc
          /\ pt_timeout \in [Proc -> Timer]
          /\ sp_stab \in [Proc -> 0..SNIDMAX]
          /\ sp_xrid \in [Proc -> Int]
          /\ ptm \in [Proc -> Reply]
          /\ overshot \in BOOLEAN

LEMMA Split == IInv <=> TabOK /\ PtabOK
BY DEF IInv, TabOK, PtabOK, TypeOK

LEMMA SplitNext == IInv' <=> TabOK' /\ PtabOK'
BY DEF IInv, TabOK, PtabOK, TypeOK

LEMMA AnswerType ==
  ASSUME PtabOK, NEW p \in Proc, NEW rc \in Rc, Answer(p, rc)
  PROVE  pt_state' \in [Proc -> PtState] /\ ptm' \in [Proc -> Reply]
BY AckType DEF PtabOK, Answer, PtState

LEMMA RefuseStep ==
  ASSUME IInv, NEW p \in Proc, NEW rc \in Rc, Refuse(p, rc)
  PROVE  IInv'
<1>1. TabOK /\ PtabOK
  BY Split
<1>2. TabOK'
  BY <1>1, TabKept DEF Refuse
<1>3. PtabOK'
  BY <1>1, AnswerType DEF Refuse, PtabOK
<1>. QED  BY <1>2, <1>3, SplitNext

LEMMA LogonStep ==
  ASSUME IInv, NEW p \in Proc, OpLogon(p)
  PROVE  IInv'
<1>1. TabOK /\ PtabOK
  BY Split
<1>2. TabOK'
  BY <1>1, TabKept DEF OpLogon
<1>3. "OK" \in Rc
  BY DEF Rc
<1>4. PtabOK'
  BY <1>1, <1>3, AnswerType DEF OpLogon, PtabOK
<1>. QED  BY <1>2, <1>4, SplitNext

LEMMA NotLoggedOnStep ==
  ASSUME IInv, NEW p \in Proc, OpNotLoggedOn(p)
  PROVE  IInv'
<1>1. "LOGON" \in Rc
  BY DEF Rc
<1>. QED  BY <1>1, RefuseStep DEF OpNotLoggedOn

LEMMA SngetStep ==
  ASSUME IInv, NEW p \in Proc, OpSnget(p)
  PROVE  IInv'
<1>1. TabOK /\ PtabOK /\ TypeOK
  BY Split DEF IInv
<1>2. "ERR" \in Rc /\ "OK" \in Rc
  BY DEF Rc
<1>3. CASE snid = SNIDMAX /\ Refuse(p, "ERR")
  BY <1>2, <1>3, RefuseStep
<1>4. CASE ~(snid = SNIDMAX /\ Refuse(p, "ERR"))
  <2>. DEFINE e == [stalloc(snid + 1) EXCEPT !.owner = p]
  <2>1. /\ snid < SNIDMAX
        /\ snid' = snid + 1
        /\ stab' = stadd(snid + 1, e)
        /\ Answer(p, "OK")
        /\ UNCHANGED <<phase, pf_loggedon, pt_timeout, sp_stab, sp_xrid, overshot>>
        /\ p \in pf_loggedon
    BY <1>4 DEF OpSnget, Ready
  <2>2. e = [snid |-> snid + 1, xrid |-> -1, lastspno |-> 0, owner |-> p,
             ud |-> <<>>, flags |-> {}, sm |-> NoMsg]
    BY DEF stalloc
  <2>. HIDE DEF e
  <2>3. snid + 1 \in Int /\ 0 \in 0..SPMAX
    BY <1>1, SyncdAssumption DEF PtabOK
  <2>4. NoMsg \in Synmsg
    BY DEF NoMsg, Synmsg
  <2>5. DOMAIN e.ud = {} /\ e.ud \in [{} -> Ustab]
    BY <2>2
  <2>6. IsStab(e)
    BY <2>2, <2>3, <2>4, <2>5 DEF IsStab, Stab, IsUd
  <2>7. EntryOK(e, pf_loggedon) /\ ~Usync(e) /\ OneEach(e)
    BY <2>1, <2>2, <2>5 DEF EntryOK, Usync, OneEach
  <2>8. TabOK'
    BY <1>1, <2>1, <2>6, <2>7, TabAdd
  <2>9. PtabOK'
    BY <1>1, <1>2, <2>1, AnswerType, SyncdAssumption DEF PtabOK
  <2>. QED  BY <2>8, <2>9, SplitNext
<1>. QED  BY <1>3, <1>4

LEMMA NewUserType == NewUser \in Ustab /\ NewUser.ptab = NoProc
BY SyncdAssumption DEF NewUser, Ustab, UserState

LEMMA SnsysStep ==
  ASSUME IInv, NEW p \in Proc, NEW i, NEW list \in SysLists, OpSnsys(p, i, list)
  PROVE  IInv'
<1>1. TabOK /\ PtabOK
  BY Split
<1>2. {"OK", "INVAL", "DUPS", "SNID", "INPROGRESS"} \subseteq Rc
  BY DEF Rc
<1>3. CASE \E rc \in {"INVAL", "DUPS", "SNID", "INPROGRESS"} : Refuse(p, rc)
  BY <1>2, <1>3, RefuseStep
<1>4. CASE ~ \E rc \in {"INVAL", "DUPS", "SNID", "INPROGRESS"} : Refuse(p, rc)
  <2>. DEFINE ud == [u \in SysUsers(list) |-> NewUser]
              e  == [stab[i] EXCEPT !.ud = ud]
  <2>1. /\ list # <<>>
        /\ \A j \in DOMAIN list : ~(list[j] < 0)
        /\ IsInjective(list)
        /\ i \in stafind
        /\ stab' = [stab EXCEPT ![i].ud = ud]
        /\ Answer(p, "OK")
        /\ UNCHANGED <<snid, phase, pf_loggedon, pt_timeout, sp_stab, sp_xrid, overshot>>
    BY <1>4 DEF OpSnsys
  <2>2. i \in DOMAIN stab /\ ~Usync(stab[i]) /\ IsStab(stab[i])
    BY <1>1, <2>1 DEF stafind, TabOK
  <2>3. SysUsers(list) \subseteq User
    <3>1. list \in Seq(Int)
      BY SyncdAssumption
    <3>2. \A j \in DOMAIN list : list[j] \in Nat
      BY <2>1, <3>1
    <3>. QED  BY <3>2 DEF SysUsers, User, Ptype
  <2>4. IsUd(ud) /\ \A u \in DOMAIN ud : ud[u].ptab = NoProc
    BY <2>3, NewUserType DEF IsUd
  <2>5. \A u, v \in DOMAIN ud : u.sysid = v.sysid => u = v
    BY <2>1 DEF SysUsers, IsInjective
  <2>6. stab' = [stab EXCEPT ![i] = e]
    BY <2>1, Zenon
  <2>. HIDE DEF ud
  <2>7. e = [snid |-> stab[i].snid, xrid |-> stab[i].xrid,
             lastspno |-> stab[i].lastspno, owner |-> stab[i].owner, ud |-> ud,
             flags |-> stab[i].flags, sm |-> stab[i].sm]
    BY <2>2 DEF IsStab, Stab
  <2>. HIDE DEF e
  <2>8. IsStab(e) /\ ~Usync(e) /\ OneEach(e)
    BY <2>2, <2>4, <2>7, <2>5 DEF IsStab, Stab, Usync, OneEach
  <2>9. EntryOK(e, pf_loggedon)
    BY <1>1, <2>2, <2>4, <2>7, EntriesOK DEF TabOK, EntryOK
  <2>10. /\ DOMAIN stab' = DOMAIN stab
        /\ stab'[i] = e
        /\ \A k \in DOMAIN stab \ {i} : stab'[k] = stab[k]
    BY <2>2, <2>6
  <2>11. TabOK'
    BY <1>1, <2>1, <2>8, <2>9, <2>10, EntriesOK, TabChange DEF TabOK, Same
  <2>12. PtabOK'
    BY <1>1, <1>2, <2>1, AnswerType DEF PtabOK
  <2>. QED  BY <2>11, <2>12, SplitNext
<1>. QED  BY <1>3, <1>4

LEMMA SnrmStep ==
  ASSUME IInv, NEW p \in Proc, NEW i, OpSnrm(p, i)
  PROVE  IInv'
<1>1. TabOK /\ PtabOK
  BY Split
<1>2. {"OK", "SNID", "PERM", "INPROGRESS"} \subseteq Rc
  BY DEF Rc
<1>3. CASE \E rc \in {"SNID", "PERM", "INPROGRESS"} : Refuse(p, rc)
  BY <1>2, <1>3, RefuseStep
<1>4. CASE ~ \E rc \in {"SNID", "PERM", "INPROGRESS"} : Refuse(p, rc)
  <2>1. /\ stab' = strm(i)
        /\ Answer(p, "OK")
        /\ UNCHANGED <<snid, phase, pf_loggedon, pt_timeout, sp_stab, sp_xrid, overshot>>
    BY <1>4 DEF OpSnrm
  <2>2. DOMAIN stab' \subseteq DOMAIN stab /\ \A k \in DOMAIN stab' : stab'[k] = stab[k]
    BY <2>1 DEF strm
  <2>3. TabOK'
    BY <1>1, <2>1, <2>2, EntriesOK, TabChange DEF TabOK, Same
  <2>4. PtabOK'
    BY <1>1, <1>2, <2>1, AnswerType DEF PtabOK
  <2>. QED  BY <2>3, <2>4, SplitNext
<1>. QED  BY <1>3, <1>4

LEMMA S2PtabType ==
  ASSUME PtabOK, NEW p \in Proc, NEW i \in 0..SNIDMAX, NEW e, NEW r \in Request,
         S2Ptab(p, i, e, r), UNCHANGED <<phase, pf_loggedon, overshot>>,
         snid' \in 0..SNIDMAX
  PROVE  PtabOK'
<1>1. {"SYSID", "DONE"} \subseteq Rc
  BY DEF Rc
<1>2. S2Rc(p, e, r) \in {"WAIT", "DONE", "SYSID"}
  BY DEF S2Rc
<1>3. CASE S2Rc(p, e, r) # "WAIT"
  <2>1. Answer(p, S2Rc(p, e, r)) /\ UNCHANGED <<pt_timeout, sp_stab, sp_xrid>>
    BY <1>3 DEF S2Ptab
  <2>2. S2Rc(p, e, r) \in Rc
    BY <1>1, <1>2, <1>3
  <2>. QED  BY <2>1, <2>2, AnswerType DEF PtabOK
<1>4. CASE S2Rc(p, e, r) = "WAIT"
  <2>1. /\ pt_state' = [pt_state EXCEPT ![p] = "WAITSYNC"]
        /\ sp_stab' = [sp_stab EXCEPT ![p] = i]
        /\ pt_timeout' = [q \in Proc |->
                            IF q = p THEN IF r.timed THEN "armed" ELSE "off"
                            ELSE IF q \in Renewed(p, e) THEN "armed"
                            ELSE pt_timeout[q]]
        /\ sp_xrid' = [sp_xrid EXCEPT ![p] =
                          IF sp_xrid[p] < 0 /\ r.xrid > 0 THEN r.xrid ELSE sp_xrid[p]]
        /\ UNCHANGED ptm
    BY <1>4, Zenon DEF S2Ptab
  <2>2. r.xrid \in Int
    BY DEF Request
  <2>3. pt_timeout' \in [Proc -> Timer]
    BY <2>1 DEF PtabOK, Timer
  <2>4. /\ pt_state' \in [Proc -> PtState]
        /\ sp_stab' \in [Proc -> 0..SNIDMAX]
        /\ sp_xrid' \in [Proc -> Int]
        /\ ptm' \in [Proc -> Reply]
    BY <2>1, <2>2 DEF PtabOK, PtState
  <2>. QED  BY <2>3, <2>4 DEF PtabOK
<1>. QED  BY <1>3, <1>4

LEMMA op_s2OK ==
  ASSUME NEW p \in Proc, NEW e, IsStab(e), NEW r, GoodReq(r),
         NEW L, p \in L, EntryOK(e, L)
  PROVE  EntryOK(op_s2(p, e, r), L)
<1>1. PICK f : f = op_s2(p, e, r)
  OBVIOUS
<1>2. /\ Same(e, f) /\ f.owner = e.owner
      /\ \A u \in DOMAIN e.ud : \/ f.ud[u].ptab = e.ud[u].ptab
                                \/ f.ud[u].ptab = p /\ Matches(p, e, u)
  BY <1>1, op_s2Type
<1>3. ASSUME NEW u \in DOMAIN f.ud, f.ud[u].ptab # NoProc
      PROVE  f.ud[u].ptab \in L /\ Matches(f.ud[u].ptab, f, u)
  <2>1. u \in DOMAIN e.ud
    BY <1>2, <1>3 DEF Same
  <2>2. f.ud[u].ptab \in L /\ Matches(f.ud[u].ptab, e, u)
    BY <1>2, <1>3, <2>1 DEF EntryOK
  <2>. QED  BY <1>2, <2>2, SameMatches
<1>4. f.owner \in L \cup {NoProc}
  BY <1>2 DEF EntryOK
<1>5. EntryOK(f, L)
  BY <1>3, <1>4 DEF EntryOK
<1>. QED  BY <1>1, <1>5

LEMMA XridType ==
  ASSUME NEW e, IsStab(e), NEW x \in Int, NEW L
  PROVE  /\ IsStab([e EXCEPT !.xrid = x])
         /\ EntryOK(e, L) => EntryOK([e EXCEPT !.xrid = x], L)
         /\ Usync([e EXCEPT !.xrid = x]) <=> Usync(e)
         /\ [e EXCEPT !.xrid = x].ud = e.ud
<1>1. PICK f : f = [e EXCEPT !.xrid = x]
  OBVIOUS
<1>2. f = [snid |-> e.snid, xrid |-> x, lastspno |-> e.lastspno,
           owner |-> e.owner, ud |-> e.ud, flags |-> e.flags, sm |-> e.sm]
  BY <1>1 DEF IsStab, Stab
<1>3. IsStab(f)
  BY <1>2 DEF IsStab, Stab
<1>4. EntryOK(e, L) => EntryOK(f, L)
  BY <1>2 DEF EntryOK, Matches, Usync
<1>5. (Usync(f) <=> Usync(e)) /\ f.ud = e.ud
  BY <1>2 DEF Usync
<1>. QED  BY <1>1, <1>3, <1>4, <1>5, Zenon

LEMMA AsyncStep ==
  ASSUME IInv, NEW p \in Proc, NEW i, NEW r \in AutoReqs, OpAsync(p, i, r)
  PROVE  IInv'
<1>1. TabOK /\ PtabOK
  BY Split
<1>2. {"INVAL", "SNID"} \subseteq Rc
  BY DEF Rc
<1>3. CASE \E rc \in {"INVAL", "SNID"} : Refuse(p, rc)
  BY <1>2, <1>3, RefuseStep
<1>4. CASE ~ \E rc \in {"INVAL", "SNID"} : Refuse(p, rc)
  <2>. DEFINE waits == S2Rc(p, stab[i], r) = "WAIT"
              e     == op_s2(p, stab[i], r)
              e2    == IF waits /\ e.xrid < 0 /\ r.xrid > 0
                       THEN [e EXCEPT !.xrid = r.xrid] ELSE e
              tab   == [stab EXCEPT ![i] = e2]
  <2>1. /\ r.spno >= 0
        /\ i \in stafind
        /\ stab' = stuend(tab, i, ptr_sysid[p])
        /\ S2Ptab(p, i, stab[i], r)
        /\ UNCHANGED <<snid, phase, pf_loggedon, overshot>>
        /\ p \in pf_loggedon
    BY <1>4, Zenon DEF OpAsync, Ready
  <2>2. i \in DOMAIN stab /\ ~Usync(stab[i]) /\ IsStab(stab[i])
    BY <1>1, <2>1 DEF stafind, TabOK
  <2>3. GoodReq(r) /\ r.xrid \in Int
    BY <2>1, SyncdAssumption DEF GoodReq, Request
  <2>4. IsStab(e) /\ ~Usync(e) /\ DOMAIN e.ud = DOMAIN stab[i].ud
    BY <2>2, <2>3, op_s2Type DEF Same
  <2>5. EntryOK(e, pf_loggedon)
    BY <1>1, <2>1, <2>2, <2>3, op_s2OK, EntriesOK DEF TabOK
  <2>. HIDE DEF e, waits
  <2>6. IsStab(e2) /\ ~Usync(e2) /\ EntryOK(e2, pf_loggedon)
          /\ DOMAIN e2.ud = DOMAIN stab[i].ud
    BY <2>3, <2>4, <2>5, XridType, Zenon
  <2>. HIDE DEF e2
  <2>7. DOMAIN tab = DOMAIN stab /\ tab[i] = e2
          /\ \A k \in DOMAIN stab \ {i} : tab[k] = stab[k]
    BY <2>2
  <2>. HIDE DEF tab
  <2>8. OneEach(e2)
    BY <1>1, <2>2, <2>6 DEF TabOK, OnePerSystem, OneEach
  <2>9. \A k \in DOMAIN tab : /\ IsStab(tab[k])
                              /\ EntryOK(tab[k], pf_loggedon)
                              /\ \/ Same(stab[k], tab[k])
                                 \/ ~Usync(tab[k]) /\ OneEach(tab[k])
    BY <1>1, <2>6, <2>7, <2>8, EntriesOK DEF TabOK, Same
  <2>10. ASSUME NEW k \in DOMAIN stab'
        PROVE  /\ k \in DOMAIN stab
               /\ IsStab(stab'[k])
               /\ EntryOK(stab'[k], pf_loggedon)
               /\ \/ Same(stab[k], stab'[k])
                  \/ ~Usync(stab'[k]) /\ OneEach(stab'[k])
    <3>1. /\ k \in DOMAIN tab /\ IsStab(stab'[k]) /\ Same(tab[k], stab'[k])
          /\ stab'[k].owner = tab[k].owner /\ stab'[k].ud = tab[k].ud
      BY <2>1, <2>9, stuendType
    <3>. QED  BY <2>7, <2>9, <3>1 DEF EntryOK, Same, Matches, OneEach
  <2>11. TabOK'
    BY <1>1, <2>1, <2>10, TabChange
  <2>12. i \in 0..SNIDMAX /\ snid' \in 0..SNIDMAX /\ r \in Request
    BY <1>1, <2>1, <2>2, SyncdAssumption DEF TabOK, PtabOK
  <2>13. PtabOK'
    BY <1>1, <2>1, <2>12, S2PtabType
  <2>. QED  BY <2>11, <2>13, SplitNext
<1>. QED  BY <1>3, <1>4

LEMMA MeType ==
  ASSUME NEW p \in Proc
  PROVE  Me(p) \in User
BY SyncdAssumption DEF Me, User

\* The entry op_usync() allocates.
LEMMA NewUsyncType ==
  ASSUME NEW id \in Int, NEW xrid \in Int, NEW users \in SUBSET User,
         NEW f, f = NewUsync(id, xrid, users)
  PROVE  /\ IsStab(f) /\ Usync(f)
         /\ f.xrid = xrid
         /\ DOMAIN f.ud = users
         /\ \A L : EntryOK(f, L)
<1>. DEFINE ud == [u \in users |-> NewUser]
<1>1. IsUd(ud) /\ DOMAIN ud = users /\ \A u \in users : ud[u].ptab = NoProc
  BY NewUserType DEF IsUd
<1>2. PICK e1 : e1 = [stalloc(id) EXCEPT !.xrid = xrid]
  OBVIOUS
<1>3. PICK e2 : e2 = [e1 EXCEPT !.flags = {"USYNC"}]
  OBVIOUS
<1>4. f = [e2 EXCEPT !.ud = ud]
  BY <1>2, <1>3, Zenon DEF NewUsync
<1>. HIDE DEF ud
<1>5. f = [snid |-> id, xrid |-> xrid, lastspno |-> 0, owner |-> NoProc,
           ud |-> ud, flags |-> {"USYNC"}, sm |-> NoMsg]
  <2>1. e1 = [snid |-> id, xrid |-> xrid, lastspno |-> 0, owner |-> NoProc,
              ud |-> <<>>, flags |-> {}, sm |-> NoMsg]
    BY <1>2 DEF stalloc
  <2>2. e2 = [snid |-> id, xrid |-> xrid, lastspno |-> 0, owner |-> NoProc,
              ud |-> <<>>, flags |-> {"USYNC"}, sm |-> NoMsg]
    BY <1>3, <2>1
  <2>. QED  BY <1>4, <2>2
<1>6. NoMsg \in Synmsg /\ 0 \in 0..SPMAX
  BY SyncdAssumption DEF NoMsg, Synmsg
<1>7. IsStab(f)
  BY <1>1, <1>5, <1>6 DEF IsStab, Stab, Flag
<1>8. \A L : EntryOK(f, L)
  BY <1>1, <1>5 DEF EntryOK
<1>9. Usync(f) /\ f.xrid = xrid /\ DOMAIN f.ud = users
  BY <1>1, <1>5 DEF Usync
<1>. QED  BY <1>7, <1>8, <1>9

LEMMA SeqElement ==
  ASSUME NEW S, NEW s \in Seq(S), NEW j \in DOMAIN s
  PROVE  s[j] \in S
OBVIOUS

LEMMA UsyncStep ==
  ASSUME IInv, NEW p \in Proc, NEW id \in Int, NEW list \in UserLists,
         NEW r \in UserReqs, OpUsync(p, id, list, r)
  PROVE  IInv'
<1>1. TabOK /\ PtabOK /\ TypeOK
  BY Split DEF IInv
<1>2. {"INVAL", "DUPS", "ERR"} \subseteq Rc
  BY DEF Rc
<1>. DEFINE users == {Me(p)} \cup Range(list)
            new   == NewUsync(id, r.xrid, users)
            found == stufind(r.xrid, users)
<1>3. CASE \E rc \in {"INVAL", "DUPS", "ERR"} : Refuse(p, rc)
  BY <1>2, <1>3, RefuseStep
<1>4. CASE ~ \E rc \in {"INVAL", "DUPS", "ERR"} : Refuse(p, rc)
  <2>1. /\ p \in pf_loggedon
        /\ ~(r.spno < 0)
        /\ \A j \in DOMAIN list : ~(list[j].sysid < 0)
        /\ \/ /\ found = {} /\ snid < SNIDMAX
              /\ snid' = snid + 1
              /\ stab' = stadd(snid + 1, op_s2(p, new, r))
              /\ S2Ptab(p, snid + 1, new, r)
              /\ UNCHANGED <<phase, pf_loggedon, overshot>>
           \/ /\ \E i \in found :
                    /\ stab' = [stab EXCEPT ![i] = op_s2(p, stab[i], r)]
                    /\ S2Ptab(p, i, stab[i], r)
              /\ UNCHANGED <<snid, phase, pf_loggedon, overshot>>
    BY <1>4 DEF OpUsync, Ready
  <2>2. GoodReq(r) /\ r.xrid \in Int /\ r \in Request
    BY <2>1, SyncdAssumption DEF GoodReq, Request
  <2>3. users \in SUBSET User
    <3>1. list \in Seq([sysid : Int, ptype : Ptype])
      BY SyncdAssumption
    <3>2. ASSUME NEW j \in DOMAIN list
          PROVE  list[j] \in User
      <4>1. list[j] \in [sysid : Int, ptype : Ptype]
        BY <3>1, SeqElement, Zenon
      <4>2. ~(list[j].sysid < 0)
        BY <2>1
      <4>. QED  BY <4>1, <4>2 DEF User
    <3>. QED  BY <3>2, MeType DEF Range
  <2>4. CASE /\ found = {} /\ snid < SNIDMAX
             /\ snid' = snid + 1
             /\ stab' = stadd(snid + 1, op_s2(p, new, r))
             /\ S2Ptab(p, snid + 1, new, r)
             /\ UNCHANGED <<phase, pf_loggedon, overshot>>
    <3>1. PICK f : f = op_s2(p, new, r)
      OBVIOUS
    <3>2. /\ IsStab(new) /\ Usync(new)
          /\ new.xrid = r.xrid /\ DOMAIN new.ud = users
          /\ EntryOK(new, pf_loggedon)
      BY <2>2, <2>3, NewUsyncType
    <3>. HIDE DEF new
    <3>3. IsStab(f) /\ Same(new, f) /\ EntryOK(f, pf_loggedon)
      BY <2>1, <2>2, <3>1, <3>2, op_s2Type, op_s2OK
    <3>4. stufind(f.xrid, DOMAIN f.ud) = {}
      BY <2>4, <3>2, <3>3 DEF Same
    <3>. HIDE DEF users, found
    <3>5. OneEach(f)
      BY <3>2, <3>3 DEF OneEach, Same
    <3>6. TabOK'
      BY <1>1, <2>4, <3>1, <3>3, <3>4, <3>5, TabAdd
    <3>7. snid + 1 \in 0..SNIDMAX
      BY <1>1, <2>4, SyncdAssumption DEF PtabOK
    <3>8. PtabOK'
      BY <1>1, <2>2, <2>4, <3>7, S2PtabType
    <3>. QED  BY <3>6, <3>8, SplitNext
  <2>5. ASSUME NEW i \in found,
               stab' = [stab EXCEPT ![i] = op_s2(p, stab[i], r)],
               S2Ptab(p, i, stab[i], r),
               UNCHANGED <<snid, phase, pf_loggedon, overshot>>
        PROVE  IInv'
    <3>1. i \in DOMAIN stab /\ IsStab(stab[i])
      BY <1>1 DEF stufind, TabOK
    <3>2. PICK f : f = op_s2(p, stab[i], r)
      OBVIOUS
    <3>3. IsStab(f) /\ Same(stab[i], f) /\ EntryOK(f, pf_loggedon)
      BY <1>1, <2>1, <2>2, <3>1, <3>2, op_s2Type, op_s2OK, EntriesOK DEF TabOK
    <3>4. /\ DOMAIN stab' = DOMAIN stab /\ stab'[i] = f
          /\ \A k \in DOMAIN stab \ {i} : stab'[k] = stab[k]
      BY <2>5, <3>1, <3>2
    <3>5. TabOK'
      BY <1>1, <2>5, <3>3, <3>4, EntriesOK, TabChange DEF TabOK, Same
    <3>6. i \in 0..SNIDMAX /\ snid' \in 0..SNIDMAX
      BY <1>1, <2>5, <3>1, SyncdAssumption DEF TabOK, PtabOK
    <3>7. PtabOK'
      BY <1>1, <2>2, <2>5, <3>6, S2PtabType
    <3>. QED  BY <3>5, <3>7, SplitNext
  <2>. HIDE DEF users, found, new
  <2>. QED  BY <2>1, <2>4, <2>5
<1>. QED  BY <1>3, <1>4

\* After p has left, no entry refers to it.
LEMMA EntryDeadOK ==
  ASSUME NEW p \in Proc, NEW e, IsStab(e), NEW heir \in Proc,
         Heirs(p, e) # {} => heir \in Heirs(p, e),
         EntryOK(e, pf_loggedon)
  PROVE  EntryOK(EntryDead(p, e, heir), pf_loggedon \ {p})
<1>1. PICK f : f = EntryDead(p, e, heir)
  OBVIOUS
<1>2. /\ Same(e, f)
      /\ f.owner = IF e.owner = p THEN NoProc ELSE e.owner
      /\ \A u \in DOMAIN e.ud : f.ud[u] = std2(p, e, e.ud[u], heir)
  BY <1>1, EntryDeadType
<1>3. f.owner \in (pf_loggedon \ {p}) \cup {NoProc}
  BY <1>2 DEF EntryOK
<1>4. ASSUME NEW u \in DOMAIN f.ud, f.ud[u].ptab # NoProc
      PROVE  f.ud[u].ptab \in pf_loggedon \ {p} /\ Matches(f.ud[u].ptab, f, u)
  <2>1. u \in DOMAIN e.ud /\ f.ud[u] = std2(p, e, e.ud[u], heir) /\ e.ud[u] \in Ustab
    BY <1>2 DEF Same, IsStab, IsUd
  <2>2. CASE e.ud[u].ptab # p
    <3>1. f.ud[u] = e.ud[u]
      BY <2>1, <2>2, std2Type
    <3>. QED  BY <1>2, <1>4, <2>1, <2>2, <3>1, SameMatches DEF EntryOK
  <2>3. CASE e.ud[u].ptab = p
    <3>1. f.ud[u].ptab \in Heirs(p, e)
      BY <1>4, <2>1, <2>3, std2Type
    <3>2. Matches(p, e, u)
      BY <2>1, <2>3, SyncdAssumption DEF EntryOK
    <3>3. Matches(f.ud[u].ptab, e, u)
      BY <3>1, <3>2 DEF Heirs, Me, Matches
    <3>. QED  BY <1>2, <3>1, <3>3, SameMatches DEF Heirs
  <2>. QED  BY <2>2, <2>3
<1>. QED  BY <1>1, <1>3, <1>4 DEF EntryOK

LEMMA stdeadStep ==
  ASSUME TabOK, NEW p \in Proc, stdead(p), snid' = snid,
         pf_loggedon' = pf_loggedon \ {p}
  PROVE  TabOK'
<1>1. PICK heir \in [DOMAIN stab -> Proc] :
        /\ \A i \in DOMAIN stab :
                Heirs(p, stab[i]) # {} => heir[i] \in Heirs(p, stab[i])
        /\ stab' = [i \in DOMAIN stab |-> EntryDead(p, stab[i], heir[i])]
  BY DEF stdead
<1>2. DOMAIN stab' = DOMAIN stab
  BY <1>1
<1>3. ASSUME NEW i \in DOMAIN stab'
      PROVE  /\ IsStab(stab'[i])
             /\ EntryOK(stab'[i], pf_loggedon')
             /\ Same(stab[i], stab'[i])
  <2>1. PICK e : e = stab[i]
    OBVIOUS
  <2>2. PICK h : h = heir[i]
    OBVIOUS
  <2>3. IsStab(e) /\ EntryOK(e, pf_loggedon)
    BY <1>2, <2>1, EntriesOK DEF TabOK
  <2>4. h \in Proc /\ (Heirs(p, e) # {} => h \in Heirs(p, e))
    BY <1>1, <1>2, <2>1, <2>2
  <2>5. stab'[i] = EntryDead(p, e, h)
    BY <1>1, <1>2, <2>1, <2>2
  <2>. QED  BY <2>1, <2>3, <2>4, <2>5, EntryDeadType, EntryDeadOK
<1>. QED  BY <1>2, <1>3, TabChange

LEMMA LogoffStep ==
  ASSUME IInv, NEW p \in Proc, OpLogoff(p)
  PROVE  IInv'
<1>1. TabOK /\ PtabOK
  BY Split
<1>2. TabOK'
  BY <1>1, stdeadStep DEF OpLogoff
<1>3. "OK" \in Rc
  BY DEF Rc
<1>4. PtabOK'
  BY <1>1, <1>3, AnswerType DEF OpLogoff, PtabOK
<1>. QED  BY <1>2, <1>4, SplitNext

LEMMA DeadStep ==
  ASSUME IInv, NEW p \in Proc, Dead(p)
  PROVE  IInv'
<1>1. TabOK /\ PtabOK
  BY Split
<1>2. TabOK'
  BY <1>1, stdeadStep DEF Dead
<1>3. NoReply \in Reply
  BY AckType DEF NoReply, Rc
<1>4. PtabOK'
  BY <1>1, <1>3, SyncdAssumption DEF Dead, PtabOK, PtState, Timer
<1>. QED  BY <1>2, <1>4, SplitNext

LEMMA LoopStep ==
  ASSUME IInv, EndProcrun \/ EndStloop \/ EndTimeouts
  PROVE  IInv'
<1>1. TabOK /\ PtabOK
  BY Split
<1>2. TabOK'
  BY <1>1, TabKept DEF EndProcrun, EndStloop, EndTimeouts, ptabvars
<1>3. NoReply \in Reply
  BY AckType DEF NoReply, Rc
<1>4. PtabOK'
  BY <1>1, <1>3 DEF EndProcrun, EndStloop, EndTimeouts, ptabvars, PtabOK, PtState, Phase
<1>. QED  BY <1>2, <1>4, SplitNext

LEMMA StServiceStep ==
  ASSUME IInv, NEW i \in DOMAIN stab, StService(i)
  PROVE  IInv'
<1>1. TabOK /\ PtabOK
  BY Split
<1>. DEFINE e == [stab[i] EXCEPT !.flags = @ \ {"ATTENTION"}]
            wake == {e.ud[u].ptab : u \in Woken(e)}
            UserOf(p) == CHOOSE u \in Woken(e) : e.ud[u].ptab = p
<1>2. IsStab(stab[i]) /\ EntryOK(stab[i], pf_loggedon)
  BY <1>1, EntriesOK DEF TabOK
<1>3. /\ IsStab(e) /\ Same(stab[i], e) /\ EntryOK(e, pf_loggedon)
  <2>1. PICK e0 : e0 = stab[i]
    OBVIOUS
  <2>2. PICK f : f = [e0 EXCEPT !.flags = e0.flags \ {"ATTENTION"}]
    OBVIOUS
  <2>3. f = [snid |-> e0.snid, xrid |-> e0.xrid, lastspno |-> e0.lastspno,
             owner |-> e0.owner, ud |-> e0.ud,
             flags |-> e0.flags \ {"ATTENTION"}, sm |-> e0.sm]
    BY <1>2, <2>1, <2>2 DEF IsStab, Stab
  <2>4. IsStab(f) /\ Same(e0, f)
    BY <1>2, <2>1, <2>3 DEF IsStab, Stab, Same, Usync
  <2>5. EntryOK(f, pf_loggedon)
    BY <1>2, <2>1, <2>3, <2>4, SameMatches DEF EntryOK
  <2>6. e = f
    BY <2>1, <2>2, Zenon
  <2>. QED  BY <2>1, <2>4, <2>5, <2>6, Zenon
<1>4. CASE phase' = "fatal" /\ UNCHANGED <<stab, snid, ptabvars, overshot>>
  <2>1. TabOK'
    BY <1>1, <1>4, TabKept DEF ptabvars
  <2>2. PtabOK'
    BY <1>1, <1>4 DEF ptabvars, PtabOK, Phase
  <2>. QED  BY <2>1, <2>2, SplitNext
<1>5. CASE ~(phase' = "fatal" /\ UNCHANGED <<stab, snid, ptabvars, overshot>>)
  <2>1. /\ stab' = IF NoLongerRequired(e) THEN strm(i)
                   ELSE [stab EXCEPT ![i] = EntryAfter(e)]
        /\ overshot' = (overshot \/ \E u \in Woken(e) : e.ud[u].spno > EventSpno(e))
        /\ pt_state' = [p \in Proc |-> IF p \in wake THEN "SNDMSG" ELSE pt_state[p]]
        /\ sp_stab' = [p \in Proc |-> IF p \in wake THEN 0 ELSE sp_stab[p]]
        /\ pt_timeout' = [p \in Proc |-> IF p \in wake THEN "off" ELSE pt_timeout[p]]
        /\ ptm' = [p \in Proc |-> IF p \in wake THEN synmsg2(e, UserOf(p)) ELSE ptm[p]]
        /\ UNCHANGED <<snid, phase, pf_loggedon, sp_xrid>>
    BY <1>5, Zenon DEF StService
  <2>. HIDE DEF e
  <2>2. /\ IsStab(EntryAfter(e)) /\ Same(stab[i], EntryAfter(e))
        /\ EntryOK(EntryAfter(e), pf_loggedon)
    <3>1. PICK f : f = EntryAfter(e)
      OBVIOUS
    <3>2. /\ IsStab(f) /\ Same(e, f) /\ f.owner = e.owner
          /\ \A u \in DOMAIN e.ud : f.ud[u].ptab = e.ud[u].ptab
      <4>1. /\ IsStab(f) /\ Same(e, f) /\ f.owner = e.owner
            /\ \A u \in DOMAIN e.ud : f.ud[u] = UserAfter(e, e.ud[u])
        BY <1>3, <3>1, EntryAfterType
      <4>2. \A u \in DOMAIN e.ud : e.ud[u] \in Ustab
        BY <1>3 DEF IsStab, IsUd
      <4>. QED  BY <4>1, <4>2, UserAfterType
    <3>3. Same(stab[i], f) /\ EntryOK(f, pf_loggedon)
      BY <1>3, <3>2, SameMatches DEF EntryOK, Same
    <3>. QED  BY <3>1, <3>2, <3>3
  <2>3. TabOK'
    <3>1. CASE stab' = strm(i)
      <4>1. DOMAIN stab' \subseteq DOMAIN stab
              /\ \A k \in DOMAIN stab' : stab'[k] = stab[k]
        BY <3>1 DEF strm
      <4>. QED  BY <1>1, <2>1, <4>1, EntriesOK, TabChange DEF TabOK, Same
    <3>2. CASE stab' = [stab EXCEPT ![i] = EntryAfter(e)]
      <4>1. /\ DOMAIN stab' = DOMAIN stab /\ stab'[i] = EntryAfter(e)
            /\ \A k \in DOMAIN stab \ {i} : stab'[k] = stab[k]
        BY <3>2
      <4>. QED  BY <1>1, <2>1, <2>2, <4>1, EntriesOK, TabChange DEF TabOK, Same
    <3>. QED  BY <2>1, <3>1, <3>2
  <2>4. \A p \in wake : synmsg2(e, UserOf(p)) \in Reply
    <3>1. \A p \in wake : UserOf(p) \in Woken(e)
      OBVIOUS
    <3>. QED  BY <1>3, <3>1, synmsg2Type DEF Woken
  <2>. HIDE DEF wake, UserOf
  <2>5. PtabOK'
    BY <1>1, <2>1, <2>4, SyncdAssumption DEF PtabOK, PtState, Timer
  <2>. QED  BY <2>3, <2>5, SplitNext
<1>. QED  BY <1>4, <1>5

LEMMA TimeoutStep ==
  ASSUME IInv, NEW p \in Proc, Timeout(p)
  PROVE  IInv'
<1>1. TabOK /\ PtabOK
  BY Split
<1>. DEFINE i == sp_stab[p]
<1>2. CASE phase' = "fatal" /\ UNCHANGED <<stab, pt_timeout>>
  <2>1. TabOK'
    BY <1>1, <1>2, TabKept DEF Timeout
  <2>2. PtabOK'
    BY <1>1, <1>2 DEF Timeout, PtabOK, Phase
  <2>. QED  BY <2>1, <2>2, SplitNext
<1>3. CASE ~(phase' = "fatal" /\ UNCHANGED <<stab, pt_timeout>>)
  <2>1. PICK u \in DOMAIN stab[i].ud :
          /\ i \in DOMAIN stab
          /\ stab' = IF stab[i].ud[u].state \in {"SYNCYES", "SYNCNO"}
                     THEN [stab EXCEPT ![i] =
                              stcheck([@ EXCEPT !.ud[u].state = "TIMEDOUT"])]
                     ELSE stab
          /\ pt_timeout' = [pt_timeout EXCEPT ![p] = "expired"]
          /\ UNCHANGED phase
          /\ UNCHANGED <<snid, pt_state, pf_loggedon, sp_stab, sp_xrid, ptm, overshot>>
    BY <1>3, Zenon DEF Timeout
  <2>2. PICK e : e = stab[i]
    OBVIOUS
  <2>3. IsStab(e) /\ EntryOK(e, pf_loggedon) /\ u \in DOMAIN e.ud
    BY <1>1, <2>1, <2>2, EntriesOK DEF TabOK
  <2>4. PICK up : up = [e.ud[u] EXCEPT !.state = "TIMEDOUT"]
    OBVIOUS
  <2>5. PICK f : f = stcheck(SetUser(e, u, up))
    OBVIOUS
  <2>6. IsStab(f) /\ Same(e, f) /\ EntryOK(f, pf_loggedon)
    <3>1. up \in Ustab /\ up.ptab = e.ud[u].ptab
      <4>1. e.ud[u] \in Ustab
        BY <2>3 DEF IsStab, IsUd
      <4>. QED  BY <2>4, <4>1 DEF Ustab, UserState
    <3>2. PICK g : g = SetUser(e, u, up)
      OBVIOUS
    <3>3. /\ IsStab(g) /\ Same(e, g) /\ g.owner = e.owner
          /\ g.ud[u] = up
          /\ \A v \in DOMAIN e.ud \ {u} : g.ud[v] = e.ud[v]
      BY <2>3, <3>1, <3>2, SetUserType
    <3>4. /\ IsStab(f) /\ Same(g, f) /\ f.owner = g.owner /\ f.ud = g.ud
      BY <2>5, <3>2, <3>3, stcheckType DEF Same
    <3>5. Same(e, f) /\ f.owner = e.owner
      BY <3>3, <3>4 DEF Same
    <3>6. \A v \in DOMAIN e.ud : f.ud[v].ptab = e.ud[v].ptab
      BY <3>1, <3>3, <3>4
    <3>. QED  BY <2>3, <3>4, <3>5, <3>6, SameMatches DEF EntryOK, Same
  <2>7. CASE stab' = stab
    BY <1>1, <2>1, <2>7, EntriesOK, TabKept, SplitNext DEF PtabOK, Timer
  <2>8. CASE stab' # stab
    <3>1. stab' = [stab EXCEPT ![i] = f]
      BY <2>1, <2>2, <2>4, <2>5, <2>8, Zenon DEF SetUser
    <3>2. /\ DOMAIN stab' = DOMAIN stab /\ stab'[i] = f
          /\ \A k \in DOMAIN stab \ {i} : stab'[k] = stab[k]
      BY <2>1, <3>1
    <3>3. TabOK'
      BY <1>1, <2>1, <2>2, <2>6, <3>2, EntriesOK, TabChange DEF TabOK, Same
    <3>4. PtabOK'
      BY <1>1, <2>1 DEF PtabOK, Timer
    <3>. QED  BY <3>3, <3>4, SplitNext
  <2>. QED  BY <2>7, <2>8
<1>. QED  BY <1>2, <1>3

-----------------------------------------------------------------------------
(* The theorems.                                                           *)

LEMMA InitInv == Init => IInv
<1>. SUFFICES ASSUME Init PROVE IInv
  OBVIOUS
<1>1. DOMAIN stab = {}
  BY DEF Init
<1>2. TabOK
  BY <1>1 DEF TabOK, NoDanglingPtab, UserSyncUnique, OnePerSystem
<1>3. NoReply \in Reply
  BY AckType DEF NoReply, Rc
<1>4. PtabOK
  <2>1. /\ snid \in 0..SNIDMAX
        /\ pt_state \in [Proc -> PtState]
        /\ sp_stab \in [Proc -> 0..SNIDMAX]
    BY SyncdAssumption DEF Init, PtState
  <2>2. /\ phase \in Phase
        /\ pf_loggedon \subseteq Proc
        /\ pt_timeout \in [Proc -> Timer]
    BY DEF Init, Phase, Timer
  <2>3. sp_xrid \in [Proc -> Int]
    BY DEF Init
  <2>4. ptm \in [Proc -> Reply]
    BY <1>3 DEF Init
  <2>5. overshot \in BOOLEAN
    BY DEF Init
  <2>. QED  BY <2>1, <2>2, <2>3, <2>4, <2>5 DEF PtabOK
<1>. QED  BY <1>2, <1>4, Split

LEMMA NextInv == IInv /\ [Next]_vars => IInv'
<1>. SUFFICES ASSUME IInv, [Next]_vars PROVE IInv'
  OBVIOUS
<1>1. ASSUME NEW p \in Proc, Requests(p)
      PROVE  IInv'
  <2>1. CASE OpLogon(p) \/ OpNotLoggedOn(p) \/ OpLogoff(p) \/ OpSnget(p)
    BY <2>1, LogonStep, NotLoggedOnStep, LogoffStep, SngetStep
  <2>2. ASSUME NEW i \in 1..SNIDMAX, OpSnrm(p, i)
        PROVE  IInv'
    BY <2>2, SnrmStep
  <2>3. ASSUME NEW i \in 1..SNIDMAX, NEW list \in SysLists, OpSnsys(p, i, list)
        PROVE  IInv'
    BY <2>3, SnsysStep
  <2>4. ASSUME NEW i \in 1..SNIDMAX, NEW r \in AutoReqs, OpAsync(p, i, r)
        PROVE  IInv'
    BY <2>4, AsyncStep
  <2>5. ASSUME NEW i \in 1..SNIDMAX, NEW list \in UserLists, NEW r \in UserReqs,
               OpUsync(p, i, list, r)
        PROVE  IInv'
    BY <2>5, UsyncStep
  <2>. QED  BY <1>1, <2>1, <2>2, <2>3, <2>4, <2>5 DEF Requests
<1>2. ASSUME NEW p \in Proc, Dead(p)
      PROVE  IInv'
  BY <1>2, DeadStep
<1>3. ASSUME NEW p \in Proc, Timeout(p)
      PROVE  IInv'
  BY <1>3, TimeoutStep
<1>4. CASE ServerLoop
  BY <1>4, LoopStep, StServiceStep DEF ServerLoop
<1>5. CASE UNCHANGED vars
  <2>1. TabOK /\ PtabOK
    BY Split
  <2>2. TabOK'
    BY <1>5, <2>1, TabKept DEF vars, ptabvars
  <2>3. PtabOK'
    BY <1>5, <2>1 DEF vars, ptabvars, PtabOK
  <2>. QED  BY <2>2, <2>3, SplitNext
<1>. QED  BY <1>1, <1>2, <1>3, <1>4, <1>5 DEF Next

\* The invariant holds in every state, whatever the clients do.
THEOREM Invariant == Spec => []IInv
BY InitInv, NextInv, PTL DEF Spec

\* The values of the daemon's tables stay in their types, for any number of
\* clients, any requests and any bounds.
THEOREM TypeCorrect == Spec => []TypeOK
<1>1. IInv => TypeOK
  BY DEF IInv
<1>. QED  BY <1>1, Invariant, PTL

\* Neither a logoff nor the death of a process leaves a reference to its ptab
\* in the sync table, and no entry's user is played by a process of another
\* system: stdead() and std2() reach every reference.
THEOREM NoDangling == Spec => []NoDanglingPtab
<1>1. IInv => NoDanglingPtab
  BY DEF IInv
<1>. QED  BY <1>1, Invariant, PTL

\* Two user sync entries never stand for the same event, so the participants
\* that name each other under one XRID cannot wait for each other in two.
THEOREM UniqueUserSync == Spec => []UserSyncUnique
<1>1. IInv => UserSyncUnique
  BY DEF IInv
<1>. QED  BY <1>1, Invariant, PTL
=============================================================================
