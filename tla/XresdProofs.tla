---------------------------- MODULE XresdProofs ----------------------------
(***************************************************************************)
(* Proofs about the execution results daemon for any number of clients,    *)
(* any lists of systems and any results.                                   *)
(***************************************************************************)
EXTENDS Xresd, WellFoundedInduction, SequenceTheorems, TLAPS

-----------------------------------------------------------------------------
(* Facts about the operators of the model.                                 *)

\* A non-empty set of naturals has a least element, which Min() returns.
LEMMA MinNat ==
  ASSUME NEW S \in SUBSET Nat, S # {}
  PROVE  Min(S) \in S /\ \A y \in S : Min(S) <= y
<1>1. \A x, y \in Nat : <<x, y>> \in OpToRel(<, Nat) <=> x < y
  BY Zenon DEF OpToRel
<1>2. \E x \in S : \A y \in S : ~ (<<y, x>> \in OpToRel(<, Nat))
  BY NatLessThanWellFounded, WFMin, Zenon
<1>3. PICK x \in S : \A y \in S : ~ (y < x)
  <2>1. \A y \in S : y \in Nat
    OBVIOUS
  <2>. QED  BY <1>1, <1>2, <2>1, Zenon
<1>4. \A y \in S : x <= y
  BY <1>3
<1>. QED  BY <1>4 DEF Min

\* A set of naturals with 0 in it, and with n + 1 whenever n < m is, holds 0..m.
LEMMA UpTo ==
  ASSUME NEW m \in Nat, NEW S, 0 \in S,
         \A n \in 0..m - 1 : n \in S => n + 1 \in S
  PROVE  0..m \subseteq S
<1>. DEFINE Bad == (0..m) \ S
<1>1. CASE Bad = {}
  BY <1>1
<1>2. CASE Bad # {}
  <2>1. Min(Bad) \in Bad /\ \A y \in Bad : Min(Bad) <= y
    BY <1>2, MinNat
  <2>. DEFINE n == Min(Bad)
  <2>. HIDE DEF n
  <2>2. n \in 0..m /\ n \notin S /\ n # 0
    BY <2>1 DEF n
  <2>3. n - 1 \in 0..m - 1 /\ ~(n <= n - 1)
    BY <2>2
  <2>4. n - 1 \in S
    BY <2>1, <2>3 DEF n
  <2>. QED  BY <2>2, <2>3, <2>4
<1>. QED  BY <1>1, <1>2

LEMMA IsSeq ==
  ASSUME NEW S, NEW s, NEW n \in Nat, s = [k \in 1..n |-> s[k]], \A k \in 1..n : s[k] \in S
  PROVE  s \in Seq(S) /\ Len(s) = n /\ DOMAIN s = 1..n /\ (s # <<>> => 1 \in DOMAIN s)
<1>1. s \in [1..n -> S]
  OBVIOUS
<1>2. s \in Seq(S) /\ Len(s) = n
  BY <1>1
<1>. QED  BY <1>1, <1>2

\* tpend() goes through the systems in turn.
IsAcc(acc, ud, n) ==
    acc = [k \in 0..n |->
             IF k = 0 THEN "none" ELSE tet_addresult(acc[k - 1], SystemResult(ud[k]))]

LEMMA AccExists ==
  ASSUME NEW ud, NEW m \in Nat
  PROVE  \E acc : IsAcc(acc, ud, m)
<1>. DEFINE S == {n \in Nat : \E acc : IsAcc(acc, ud, n)}
<1>1. 0 \in S
  <2>1. IsAcc([k \in 0..0 |-> "none"], ud, 0)
    BY DEF IsAcc
  <2>. QED  BY <2>1, Zenon
<1>2. ASSUME NEW n \in 0..m - 1, n \in S
      PROVE  n + 1 \in S
  <2>1. PICK acc : IsAcc(acc, ud, n)
    BY <1>2
  <2>. DEFINE next == [k \in 0..n + 1 |->
                         IF k = n + 1 THEN tet_addresult(acc[n], SystemResult(ud[n + 1]))
                         ELSE acc[k]]
  <2>2. \A k \in 0..n : next[k] = acc[k]
    OBVIOUS
  <2>3. \A k \in 0..n : acc[k] = IF k = 0 THEN "none"
                                 ELSE tet_addresult(acc[k - 1], SystemResult(ud[k]))
    BY <2>1, Zenon DEF IsAcc
  <2>4. ASSUME NEW k \in 0..n + 1
        PROVE  next[k] = IF k = 0 THEN "none"
                         ELSE tet_addresult(next[k - 1], SystemResult(ud[k]))
    <3>1. CASE k = n + 1
      <4>1. k - 1 = n /\ k # 0 /\ n \in 0..n
        BY <3>1
      <4>. QED  BY <4>1, <3>1, <2>2
    <3>2. CASE k = 0
      <4>1. 0 \in 0..n
        OBVIOUS
      <4>. QED  BY <4>1, <3>2, <2>2, <2>3
    <3>3. CASE k \in 1..n
      <4>1. k - 1 \in 0..n /\ k \in 0..n /\ k # 0
        BY <3>3
      <4>. HIDE DEF next
      <4>. QED  BY <4>1, <2>2, <2>3, Zenon
    <3>. QED  BY <3>1, <3>2, <3>3
  <2>5. next = [k \in 0..n + 1 |-> next[k]]
    OBVIOUS
  <2>. HIDE DEF next
  <2>6. IsAcc(next, ud, n + 1)
    BY <2>4, <2>5, Zenon DEF IsAcc
  <2>. QED  BY <2>6
<1>. HIDE DEF S
<1>3. m \in S
  BY <1>1, <1>2, UpTo
<1>. QED  BY <1>3 DEF S

\* What Consolidated() returns is the last of the accumulated results.
LEMMA Accumulates ==
  ASSUME NEW ud, Len(ud) \in Nat
  PROVE  \E acc : /\ acc[0] = "none"
                  /\ \A k \in 1..Len(ud) :
                        acc[k] = tet_addresult(acc[k - 1], SystemResult(ud[k]))
                  /\ Consolidated(ud) = acc[Len(ud)]
<1>. DEFINE acc == CHOOSE acc : IsAcc(acc, ud, Len(ud))
<1>1. IsAcc(acc, ud, Len(ud))
  BY AccExists, Zenon
<1>2. Consolidated(ud) = acc[Len(ud)]
  BY Zenon DEF Consolidated, IsAcc
<1>. HIDE DEF acc
<1>3. \A k \in 0..Len(ud) :
         acc[k] = IF k = 0 THEN "none"
                  ELSE tet_addresult(acc[k - 1], SystemResult(ud[k]))
  BY <1>1, Zenon DEF IsAcc
<1>4. acc[0] = "none"
  BY <1>3
<1>5. \A k \in 1..Len(ud) : acc[k] = tet_addresult(acc[k - 1], SystemResult(ud[k]))
  BY <1>3
<1>. QED  BY <1>2, <1>4, <1>5

\* Each result has one rank.
LEMMA RankType ==
  ASSUME NEW r
  PROVE  /\ Rank(r) \in 0..5
         /\ r = "PASS" => Rank(r) = 0
         /\ r \in Low => Rank(r) = 1
         /\ r \notin Named => Rank(r) = 2
         /\ r = "NORESULT" => Rank(r) = 3
         /\ r \in High => Rank(r) = 4
         /\ r = "FAIL" => Rank(r) = 5
<1>1. /\ "PASS" \notin Low \cup High /\ "NORESULT" \notin Low \cup High
      /\ "FAIL" \notin Low \cup High /\ Low \cap High = {}
      /\ "PASS" # "NORESULT" /\ "PASS" # "FAIL" /\ "NORESULT" # "FAIL"
  BY DEF Low, High
<1>2. Named = {"PASS", "FAIL", "NORESULT"} \cup High \cup Low
  BY DEF Named
<1>. HIDE DEF Low, High, Named
<1>3. CASE r = "PASS"  BY <1>1, <1>2, <1>3 DEF Rank
<1>4. CASE r \in Low  BY <1>1, <1>2, <1>4 DEF Rank
<1>5. CASE r = "NORESULT"  BY <1>1, <1>2, <1>5 DEF Rank
<1>6. CASE r \in High  BY <1>1, <1>2, <1>6 DEF Rank
<1>7. CASE r = "FAIL"  BY <1>1, <1>2, <1>7 DEF Rank
<1>8. CASE r \notin Named  BY <1>1, <1>2, <1>8 DEF Rank
<1>. QED  BY <1>2, <1>3, <1>4, <1>5, <1>6, <1>7, <1>8

\* Whichever of two results prevails is at least as bad as both.
LEMMA WorsePrevails ==
  ASSUME NEW last, NEW this, last # "none"
  PROVE  /\ tet_addresult(last, this) \in {last, this}
         /\ Rank(last) <= Rank(tet_addresult(last, this))
         /\ Rank(this) <= Rank(tet_addresult(last, this))
<1>1. tet_addresult(last, this) = IF Supersedes(this, last) THEN this ELSE last
  BY DEF tet_addresult
<1>2. /\ Rank(last) \in 0..5 /\ Rank(this) \in 0..5
      /\ "PASS" \notin Low \cup High /\ "NORESULT" \notin Low \cup High
      /\ "FAIL" \notin Low \cup High /\ Low \cap High = {}
      /\ Named = {"PASS", "FAIL", "NORESULT"} \cup High \cup Low
  BY RankType DEF Low, High, Named
<1>3. CASE Supersedes(this, last)
  <2>1. Rank(last) <= Rank(this)
    <3>1. CASE this = "FAIL"
      BY <1>2, <3>1, RankType
    <3>2. CASE this \in High /\ last # "FAIL"
      <4>1. Rank(last) <= 4
        BY <1>2, <3>2, RankType
      <4>. QED  BY <3>2, <4>1, RankType
    <3>3. CASE this = "NORESULT" /\ last \notin High \cup {"FAIL"}
      <4>1. Rank(last) <= 3
        BY <1>2, <3>3, RankType
      <4>. QED  BY <3>3, <4>1, RankType
    <3>4. CASE this \notin Named /\ last \in {"PASS"} \cup Low
      BY <3>4, RankType
    <3>5. CASE this \in Low /\ last = "PASS"
      BY <3>5, RankType
    <3>. QED  BY <1>3, <3>1, <3>2, <3>3, <3>4, <3>5 DEF Supersedes
  <2>. QED  BY <1>1, <1>2, <1>3, <2>1
<1>4. CASE ~Supersedes(this, last)
  <2>1. Rank(this) <= Rank(last)
    <3>1. /\ this # "FAIL"
          /\ this \in High => last = "FAIL"
          /\ this = "NORESULT" => last \in High \cup {"FAIL"}
          /\ this \notin Named => last \notin {"PASS"} \cup Low
          /\ this \in Low => last # "PASS"
      BY <1>4 DEF Supersedes
    <3>2. CASE this = "PASS"
      BY <1>2, <3>2, RankType
    <3>3. CASE this \in High
      BY <3>1, <3>3, RankType
    <3>4. CASE this = "NORESULT"
      BY <3>1, <3>4, RankType
    <3>5. CASE this \notin Named
      <4>1. Rank(last) >= 2
        BY <1>2, <3>1, <3>5, RankType
      <4>. QED  BY <3>5, <4>1, RankType
    <3>6. CASE this \in Low
      <4>1. Rank(last) >= 1
        BY <1>2, <3>1, <3>6, RankType
      <4>. QED  BY <3>6, <4>1, RankType
    <3>. QED  BY <1>2, <3>1, <3>2, <3>3, <3>4, <3>5, <3>6
  <2>. QED  BY <1>1, <1>2, <1>4, <2>1
<1>. QED  BY <1>3, <1>4

\* The first result prevails over none.
LEMMA FirstPrevails ==
  ASSUME NEW this
  PROVE  tet_addresult("none", this) = this
BY DEF tet_addresult, Supersedes

\* The consolidated result is that of a system, and the worst of all.
LEMMA WorstOfSystems ==
  ASSUME NEW ud, Len(ud) \in Nat \ {0}, \A k \in 1..Len(ud) : SystemResult(ud[k]) # "none"
  PROVE  /\ \E k \in 1..Len(ud) : Consolidated(ud) = SystemResult(ud[k])
         /\ \A k \in 1..Len(ud) : Rank(SystemResult(ud[k])) <= Rank(Consolidated(ud))
<1>. DEFINE R(k) == SystemResult(ud[k])
<1>0. PICK acc : /\ acc[0] = "none"
                 /\ \A k \in 1..Len(ud) : acc[k] = tet_addresult(acc[k - 1], R(k))
                 /\ Consolidated(ud) = acc[Len(ud)]
  BY Accumulates
<1>. DEFINE Worst(n) == /\ \E k \in 1..n : acc[n] = R(k)
                        /\ \A k \in 1..n : Rank(R(k)) <= Rank(acc[n])
            S == {n \in Nat : n + 1 \in 1..Len(ud) => Worst(n + 1)}
<1>1. \A k \in 1..Len(ud) : R(k) # "none"
  OBVIOUS
<1>. HIDE DEF R
<1>2. 0 \in S
  <2>1. acc[1] = R(1)
    BY <1>0, FirstPrevails
  <2>2. Rank(R(1)) <= Rank(R(1))
    BY RankType
  <2>3. \A k \in 1..1 : k = 1
    OBVIOUS
  <2>4. Worst(1)
    BY <2>1, <2>2, <2>3
  <2>. QED  BY <2>4
<1>3. ASSUME NEW n \in 0..(Len(ud) - 1) - 1, n \in S
      PROVE  n + 1 \in S
  <2>1. n + 1 \in 1..Len(ud) /\ n + 2 \in 1..Len(ud) /\ (n + 2) - 1 = n + 1
    OBVIOUS
  <2>2. Worst(n + 1)
    BY <1>3, <2>1
  <2>3. acc[n + 1] # "none"
    <3>1. 1..n + 1 \subseteq 1..Len(ud)
      BY <2>1
    <3>. QED  BY <1>1, <2>2, <3>1
  <2>4. acc[n + 2] = tet_addresult(acc[n + 1], R(n + 2))
    BY <1>0, <2>1
  <2>5. /\ acc[n + 2] \in {acc[n + 1], R(n + 2)}
        /\ Rank(acc[n + 1]) <= Rank(acc[n + 2])
        /\ Rank(R(n + 2)) <= Rank(acc[n + 2])
    BY <2>3, <2>4, WorsePrevails
  <2>6. ASSUME NEW k \in 1..n + 2
        PROVE  Rank(R(k)) <= Rank(acc[n + 2])
    <3>1. CASE k = n + 2
      BY <2>5, <3>1
    <3>2. CASE k \in 1..n + 1
      <4>1. Rank(R(k)) <= Rank(acc[n + 1])
        BY <2>2, <3>2
      <4>. QED  BY <2>5, <4>1, RankType
    <3>. QED  BY <3>1, <3>2
  <2>7. \E k \in 1..n + 2 : acc[n + 2] = R(k)
    <3>1. \A k \in 1..n + 1 : k \in 1..n + 2
      OBVIOUS
    <3>. QED  BY <2>2, <2>5, <3>1
  <2>8. Worst(n + 2) /\ (n + 1) + 1 = n + 2
    BY <2>6, <2>7
  <2>. HIDE DEF Worst
  <2>. QED  BY <2>8
<1>4. Len(ud) - 1 \in S
  <2>. HIDE DEF S
  <2>1. Len(ud) - 1 \in Nat /\ Len(ud) - 1 \in 0..Len(ud) - 1
    OBVIOUS
  <2>. QED  BY <1>2, <1>3, <2>1, UpTo
<1>5. Worst(Len(ud))
  <2>1. (Len(ud) - 1) + 1 = Len(ud) /\ Len(ud) \in 1..Len(ud)
    OBVIOUS
  <2>. HIDE DEF Worst
  <2>. QED  BY <1>4, <2>1
<1>. QED  BY <1>0, <1>5 DEF R

-----------------------------------------------------------------------------
(* The inductive invariant.  What makes the brackets, the aborts and the   *)
(* consolidated results right is said of each file on its own.             *)

\* the values of the variables that hold no file
Tables ==
    /\ ptab \in Seq(Proc) /\ IsInjective(ptab)
    /\ pt_flags \in [Proc -> {"NONE", "CONNECTED", "LOGGEDON", "LOGGEDOFF"}]
    /\ sp_xrid \in [Proc -> -1..XRIDMAX]
    /\ xrid \in 0..XRIDMAX
    /\ DOMAIN xtab \subseteq 1..xrid /\ DOMAIN xres = 1..xrid /\ DOMAIN given = 1..xrid
    /\ revived \subseteq 1..xrid
    /\ tfid \in 0..TFIDMAX
    /\ DOMAIN tftab \subseteq 1..tfid /\ Range(tftab) \subseteq Proc
    /\ ptm_rc \in Rc

Nested(file) ==
    /\ file \in Seq(Line)
    /\ file # <<>> => file[1].code = "IC_START"
    /\ \A j \in 2..Len(file) : file[j].code \in Follow(file[j - 1].code)

\* a component in progress has its TCMs, but for the dead
Manned(ud) ==
    /\ \A k \in DOMAIN ud : ud[k].ptab = NoProc <=> ud[k].state = "DEAD"
    /\ ud # <<>> => \E k \in DOMAIN ud : ud[k].ptab # NoProc

\* an entry has the worst of the results S its system registered for the TP
Reports(up, S) ==
    /\ up.state # "none"
    /\ up.state = "NOTREPORTED" <=> S = {} /\ up.state # "DEAD"
    /\ S = {} => up.result = "none"
    /\ S # {} => up.result \in S /\ \A q \in S : Rank(q) <= Rank(up.result)

Registering(xt, got) ==
    /\ DOMAIN got = DOMAIN xt.ud
    /\ \A k \in DOMAIN got : Reports(xt.ud[k], got[k])
    /\ "TCABORT" \in xt.flags <=> (UNION Range(got)) \cap AbortOn # {}

EntryOK(x, xt, file, got, lost) ==
    /\ xt \in Xtab
    /\ InIC(xt) <=> ~Complete(file)
    /\ InTP(xt) <=> file # <<>> /\ Last(file).code = "TP_START"
    /\ InIC(xt) => x \in lost \/ Manned(xt.ud)
    /\ InTP(xt) => Registering(xt, got)

FileOK(x) ==
    /\ Nested(xres[x])
    /\ given[x] \in Seq(SUBSET Results)
    /\ x \in DOMAIN xtab => EntryOK(x, xtab[x], xres[x], given[x], revived)
    /\ x \notin DOMAIN xtab => Complete(xres[x])

IInv == Tables /\ NoDanglingPtab /\ \A x \in DOMAIN xres : FileOK(x)

-----------------------------------------------------------------------------
(* The consolidated result of a test purpose.                              *)

\* A system without a result counts for NORESULT, another for its worst one.
LEMMA SystemWorst ==
  ASSUME NEW up, up \in Uxtab, NEW S, S \subseteq Results, Reports(up, S)
  PROVE  /\ SystemResult(up) \in Result \ {"none"}
         /\ S = {} => SystemResult(up) = "NORESULT"
         /\ S # {} => SystemResult(up) \in S
         /\ \A q \in S : Rank(q) <= Rank(SystemResult(up))
<1>1. up.state \in {"NOTREPORTED", "REPORTED", "DEAD"}
  BY DEF Uxtab, State, Reports
<1>2. S # {} => up.result \in S /\ up.result # "none"
  BY XresdAssumption DEF Reports
<1>3. SystemResult(up) = IF S = {} THEN "NORESULT" ELSE up.result
  <2>1. CASE up.state = "NOTREPORTED"
    <3>1. S = {}
      BY <2>1 DEF Reports
    <3>. QED  BY <2>1, <3>1 DEF SystemResult
  <2>2. CASE up.state = "REPORTED"
    <3>1. S # {}
      BY <2>2 DEF Reports
    <3>. QED  BY <2>2, <3>1 DEF SystemResult
  <2>3. CASE up.state = "DEAD"
    <3>1. S = {} => up.result = "none"
      BY DEF Reports
    <3>. QED  BY <1>2, <2>3, <3>1 DEF SystemResult
  <2>. QED  BY <1>1, <2>1, <2>2, <2>3
<1>4. S # {} => \A q \in S : Rank(q) <= Rank(up.result)
  BY DEF Reports
<1>. QED  BY <1>2, <1>3, <1>4 DEF Result

\* The greatest element of a set of integers is what Max() returns.
LEMMA MaxIs ==
  ASSUME NEW S \in SUBSET Int, NEW m \in S, \A n \in S : n <= m
  PROVE  Max(S) = m
<1>1. \E x \in S : \A y \in S : x >= y
  <2>1. \A y \in S : m >= y
    OBVIOUS
  <2>. QED  BY <2>1
<1>2. Max(S) \in S /\ \A y \in S : Max(S) >= y
  BY <1>1, Zenon DEF Max
<1>3. Max(S) \in Int /\ m \in Int /\ Max(S) >= m /\ Max(S) <= m
  BY <1>2
<1>. QED  BY <1>3

\* tpend() writes a result that is as bad as the worst one of any system.
LEMMA ConsolidatedIsWorst ==
  ASSUME NEW ud \in Seq(Uxtab), NEW got \in Seq(SUBSET Results),
         DOMAIN got = DOMAIN ud, \A k \in DOMAIN got : Reports(ud[k], got[k])
  PROVE  Consolidated(ud) \in Result /\ Consolidates(Consolidated(ud), got)
<1>0. /\ Len(ud) \in Nat /\ Len(got) = Len(ud)
      /\ DOMAIN ud = 1..Len(ud) /\ DOMAIN got = 1..Len(ud)
      /\ \A k \in 1..Len(ud) : ud[k] \in Uxtab
      /\ \A k \in 1..Len(ud) : got[k] \in SUBSET Results
  OBVIOUS
<1>. DEFINE R(k) == SystemResult(ud[k])
<1>1. \A k \in 1..Len(ud) :
         /\ R(k) \in Result \ {"none"}
         /\ got[k] = {} => R(k) = "NORESULT"
         /\ got[k] # {} => R(k) \in got[k]
         /\ \A q \in got[k] : Rank(q) <= Rank(R(k))
  BY <1>0, SystemWorst
<1>2. CASE Len(ud) = 0
  <2>1. Consolidated(ud) = "none"
    BY <1>0, <1>2, Accumulates
  <2>2. got = <<>>
    BY <1>0, <1>2
  <2>. QED  BY <2>1, <2>2 DEF Consolidates, Result
<1>3. CASE Len(ud) # 0
  <2>1. /\ \E k \in 1..Len(ud) : Consolidated(ud) = R(k)
        /\ \A k \in 1..Len(ud) : Rank(R(k)) <= Rank(Consolidated(ud))
    BY <1>0, <1>1, <1>3, WorstOfSystems
  <2>. DEFINE ranks == {Rank(q) : q \in UNION Range(got)}
                          \cup (IF {} \in Range(got) THEN {Rank("NORESULT")} ELSE {})
  <2>. HIDE DEF R
  <2>2. Range(got) = {got[k] : k \in 1..Len(ud)}
    BY <1>0 DEF Range
  <2>3. ranks \in SUBSET Int
    BY RankType
  <2>4. Rank(Consolidated(ud)) \in ranks
    <3>1. PICK k \in 1..Len(ud) : Consolidated(ud) = R(k)
      BY <2>1
    <3>2. CASE got[k] = {}
      <4>1. {} \in Range(got)
        BY <2>2, <3>2
      <4>. QED  BY <1>1, <3>1, <3>2, <4>1
    <3>3. CASE got[k] # {}
      <4>1. R(k) \in UNION Range(got)
        BY <1>1, <2>2, <3>3
      <4>. QED  BY <3>1, <4>1
    <3>. QED  BY <3>2, <3>3
  <2>5. ASSUME NEW n \in ranks
        PROVE  n <= Rank(Consolidated(ud))
    <3>1. CASE n \in {Rank(q) : q \in UNION Range(got)}
      <4>1. PICK k \in 1..Len(ud) : \E q \in got[k] : n = Rank(q)
        BY <2>2, <3>1
      <4>2. n <= Rank(R(k)) /\ Rank(R(k)) <= Rank(Consolidated(ud))
        BY <1>1, <2>1, <4>1
      <4>. QED  BY <2>3, <4>2, RankType
    <3>2. CASE {} \in Range(got) /\ n = Rank("NORESULT")
      <4>1. PICK k \in 1..Len(ud) : got[k] = {}
        BY <2>2, <3>2
      <4>. QED  BY <1>1, <2>1, <3>2, <4>1
    <3>. QED  BY <2>5, <3>1, <3>2
  <2>6. Max(ranks) = Rank(Consolidated(ud))
    <3>. HIDE DEF ranks
    <3>. QED  BY <2>3, <2>4, <2>5, MaxIs
  <2>7. got # <<>>
    BY <1>0, <1>3
  <2>. QED  BY <1>1, <2>1, <2>6, <2>7 DEF Consolidates
<1>. QED  BY <1>0, <1>2, <1>3

-----------------------------------------------------------------------------
(* The lines of a file.                                                    *)

\* A line that may follow the last one leaves the file well formed.
LEMMA AddLine ==
  ASSUME NEW file, Nested(file), NEW line \in Line,
         file = <<>> => line.code = "IC_START",
         file # <<>> => line.code \in Follow(Last(file).code)
  PROVE  /\ Nested(Append(file, line))
         /\ Append(file, line) # <<>>
         /\ Len(Append(file, line)) = Len(file) + 1
         /\ Append(file, line)[Len(file) + 1] = line
         /\ Last(Append(file, line)) = line
         /\ Complete(Append(file, line)) <=> line.code = "IC_END"
<1>. DEFINE f == Append(file, line)
<1>1. /\ file \in Seq(Line) /\ Len(file) \in Nat
      /\ f \in Seq(Line) /\ f # <<>> /\ Len(f) = Len(file) + 1
      /\ \A j \in 1..Len(file) : f[j] = file[j]
      /\ f[Len(file) + 1] = line
  BY AppendProperties DEF Nested
<1>. HIDE DEF f
<1>2. Last(f) = line
  BY <1>1 DEF Last
<1>3. f[1].code = "IC_START"
  <2>1. CASE file = <<>>
    BY <1>1, <2>1
  <2>2. CASE file # <<>>
    <3>1. 1 \in 1..Len(file)
      BY <1>1, <2>2
    <3>. QED  BY <1>1, <2>2, <3>1 DEF Nested
  <2>. QED  BY <2>1, <2>2
<1>4. ASSUME NEW j \in 2..Len(f)
      PROVE  f[j].code \in Follow(f[j - 1].code)
  <2>1. CASE j \in 2..Len(file)
    <3>1. j \in 1..Len(file) /\ j - 1 \in 1..Len(file)
      BY <1>1, <2>1
    <3>2. f[j] = file[j] /\ f[j - 1] = file[j - 1]
      BY <1>1, <3>1
    <3>. QED  BY <2>1, <3>2 DEF Nested
  <2>2. CASE j = Len(file) + 1
    <3>1. Len(file) \in 1..Len(file) /\ file # <<>> /\ j - 1 = Len(file)
      BY <1>1, <1>4, <2>2
    <3>2. f[j - 1] = Last(file) /\ f[j] = line
      BY <1>1, <2>2, <3>1 DEF Last
    <3>. QED  BY <3>1, <3>2
  <2>. QED  BY <1>1, <1>4, <2>1, <2>2
<1>5. Nested(f)
  BY <1>1, <1>3, <1>4 DEF Nested
<1>6. Complete(f) <=> line.code = "IC_END"
  BY <1>1, <1>2 DEF Complete
<1>. QED  BY <1>1, <1>2, <1>5, <1>6 DEF f

\* Which line may be last, by what is in progress.
LEMMA LastLine ==
  ASSUME NEW x, NEW xt, NEW file, NEW got, NEW lost, Nested(file), EntryOK(x, xt, file, got, lost)
  PROVE  /\ InTP(xt) => InIC(xt)
         /\ ~InIC(xt) => Complete(file)
         /\ InIC(xt) => file # <<>> /\ Last(file).code \in Codes \ {"IC_END"}
         /\ InTP(xt) => Last(file).code = "TP_START"
         /\ InIC(xt) /\ ~InTP(xt) => Last(file).code \in {"IC_START", "TP_RESULT"}
<1>1. file # <<>> => Last(file) \in Line
  <2>1. file \in Seq(Line)
    BY DEF Nested
  <2>2. file # <<>> => Len(file) \in 1..Len(file)
    BY <2>1
  <2>. QED  BY <2>1, <2>2 DEF Last
<1>2. file # <<>> => Last(file).code \in Codes
  BY <1>1 DEF Line
<1>. QED  BY <1>2 DEF EntryOK, Complete, Codes

\* The lines the brackets write.
LEMMA NoteType ==
  ASSUME NEW code \in Codes
  PROVE  Note(code) \in Line /\ Note(code).code = code
BY DEF Note, Line, Result

LEMMA IcEndType ==
  ASSUME NEW xt \in Xtab
  PROVE  IcEnd(xt) \in Line /\ IcEnd(xt).code = "IC_END"
BY DEF IcEnd, Note, Line, Result, Xtab, Codes

LEMMA TpResultType ==
  ASSUME NEW xt \in Xtab, NEW got \in Seq(SUBSET Results), Registering(xt, got)
  PROVE  /\ TpResult(xt) \in Line /\ TpResult(xt).code = "TP_RESULT"
         /\ Consolidates(TpResult(xt).result, got)
<1>1. xt.ud \in Seq(Uxtab)
  BY DEF Xtab
<1>2. Consolidated(xt.ud) \in Result /\ Consolidates(Consolidated(xt.ud), got)
  BY <1>1, ConsolidatedIsWorst DEF Registering
<1>3. TpResult(xt) = [code |-> "TP_RESULT", result |-> Consolidated(xt.ud), n |-> 0]
  BY DEF TpResult, Note
<1>. QED  BY <1>2, <1>3 DEF Line, Codes

-----------------------------------------------------------------------------
(* What each handler makes of an entry and its file.                       *)


\* op_xropen()
LEMMA NewEntry ==
  ASSUME NEW x, NEW p \in Proc, NEW lost
  PROVE  /\ Nested(<<>>) /\ <<>> \in Seq(SUBSET Results) /\ Complete(<<>>)
         /\ EntryOK(x, [owner |-> p, ud |-> <<>>, tpcount |-> 0, flags |-> {}],
                    <<>>, <<>>, lost)
<1>1. Nested(<<>>)
  BY DEF Nested
<1>2. [owner |-> p, ud |-> <<>>, tpcount |-> 0, flags |-> {}] \in Xtab
  BY DEF Xtab
<1>. QED  BY <1>1, <1>2 DEF EntryOK, Complete, InIC, InTP

\* op_xrsys(), and op_icstart() when a system has no TCM: nothing is in progress
LEMMA NewUsers ==
  ASSUME NEW x, NEW xt, NEW file, NEW got, NEW lost, EntryOK(x, xt, file, got, lost),
         ~InIC(xt), ~InTP(xt), NEW ud \in Seq(Uxtab), NEW lost2
  PROVE  EntryOK(x, [xt EXCEPT !.ud = ud], file, got, lost2)
BY DEF EntryOK, Xtab, InIC, InTP

\* op_icstart(): every system has a TCM
LEMMA IcStarted ==
  ASSUME NEW x, NEW xt, NEW file, NEW got, NEW lost, Nested(file), EntryOK(x, xt, file, got, lost),
         ~InIC(xt), ~InTP(xt), NEW ud \in Seq(Uxtab), NEW lost2,
         \A k \in DOMAIN ud : ud[k].ptab # NoProc /\ (ud[k].state = "DEAD" => x \in lost2)
  PROVE  LET line == Note("IC_START")
         IN  /\ Nested(Append(file, line))
             /\ EntryOK(x, [xt EXCEPT !.ud = ud, !.tpcount = 0,
                                   !.flags = @ \cup {"ICINPROGRESS"}],
                        Append(file, line), got, lost2)
<1>. DEFINE line == Note("IC_START")
            next == [xt EXCEPT !.ud = ud, !.tpcount = 0, !.flags = @ \cup {"ICINPROGRESS"}]
<1>1. line \in Line /\ line.code = "IC_START"
  BY NoteType DEF Codes
<1>2. file # <<>> => line.code \in Follow(Last(file).code)
  BY <1>1, LastLine DEF Complete, Follow
<1>3. /\ Nested(Append(file, line)) /\ Append(file, line) # <<>>
      /\ Last(Append(file, line)) = line
      /\ ~Complete(Append(file, line))
  BY <1>1, <1>2, AddLine
<1>4. /\ xt \in Xtab /\ next \in Xtab /\ next.ud = ud
      /\ InIC(next) /\ ~InTP(next)
  BY DEF EntryOK, Xtab, Flag, InIC, InTP
<1>5. x \in lost2 \/ Manned(ud)
  <2>1. ud # <<>> => 1 \in DOMAIN ud
    OBVIOUS
  <2>. QED  BY <2>1 DEF Manned
<1>. HIDE DEF line, next
<1>6. EntryOK(x, next, Append(file, line), got, lost2)
  BY <1>1, <1>3, <1>4, <1>5 DEF EntryOK
<1>. QED  BY <1>3, <1>6 DEF line, next

\* op_icend()
LEMMA IcEnded ==
  ASSUME NEW x, NEW xt, NEW file, NEW got, NEW lost, Nested(file), EntryOK(x, xt, file, got, lost),
         InIC(xt), ~InTP(xt)
  PROVE  /\ Nested(Append(file, IcEnd(xt)))
         /\ EntryOK(x, [xt EXCEPT !.flags = @ \ {"ICINPROGRESS"}],
                    Append(file, IcEnd(xt)), got, lost)
<1>. DEFINE next == [xt EXCEPT !.flags = @ \ {"ICINPROGRESS"}]
<1>0. IcEnd(xt) \in Line /\ IcEnd(xt).code = "IC_END"
  BY IcEndType DEF EntryOK
<1>1. file # <<>> /\ IcEnd(xt).code \in Follow(Last(file).code)
  BY <1>0, LastLine DEF Follow
<1>2. /\ Nested(Append(file, IcEnd(xt))) /\ Complete(Append(file, IcEnd(xt)))
      /\ Last(Append(file, IcEnd(xt))) = IcEnd(xt)
  BY <1>0, <1>1, AddLine
<1>3. next \in Xtab /\ ~InIC(next) /\ ~InTP(next)
  BY DEF EntryOK, Xtab, InIC, InTP
<1>. HIDE DEF next
<1>4. EntryOK(x, next, Append(file, IcEnd(xt)), got, lost)
  BY <1>0, <1>2, <1>3 DEF EntryOK
<1>. QED  BY <1>2, <1>4 DEF next

\* op_tpstart(): the results of the last test purpose are forgotten
LEMMA TpStarted ==
  ASSUME NEW x, NEW xt, NEW file, NEW got, NEW lost, Nested(file),
         EntryOK(x, xt, file, got, lost), InIC(xt), ~InTP(xt), NEW lost2,
         x \in lost => x \in lost2, \A k \in DOMAIN xt.ud : xt.ud[k].state = "DEAD" => x \in lost2
  PROVE  LET line == Note("TP_START")
             ud   == [k \in DOMAIN xt.ud |-> [xt.ud[k] EXCEPT !.state = "NOTREPORTED",
                                                              !.result = "none"]]
             none == [k \in DOMAIN xt.ud |-> {}]
         IN  /\ Nested(Append(file, line)) /\ none \in Seq(SUBSET Results)
             /\ EntryOK(x, [xt EXCEPT !.ud = ud,
                                   !.flags = (@ \ {"TCABORT"}) \cup {"TPINPROGRESS"}],
                        Append(file, line), none, lost2)
<1>. DEFINE line == Note("TP_START")
            ud   == [k \in DOMAIN xt.ud |-> [xt.ud[k] EXCEPT !.state = "NOTREPORTED",
                                                             !.result = "none"]]
            none == [k \in DOMAIN xt.ud |-> {}]
            next == [xt EXCEPT !.ud = ud, !.flags = (@ \ {"TCABORT"}) \cup {"TPINPROGRESS"}]
<1>1. line \in Line /\ line.code = "TP_START"
  BY NoteType DEF Codes
<1>2. file # <<>> /\ line.code \in Follow(Last(file).code)
  BY <1>1, LastLine DEF Follow
<1>3. /\ Nested(Append(file, line)) /\ Append(file, line) # <<>>
      /\ Last(Append(file, line)) = line
      /\ ~Complete(Append(file, line))
  BY <1>1, <1>2, AddLine
<1>4. /\ xt \in Xtab /\ xt.ud \in Seq(Uxtab)
      /\ Len(xt.ud) \in Nat /\ DOMAIN xt.ud = 1..Len(xt.ud)
      /\ \A k \in DOMAIN xt.ud : xt.ud[k] \in Uxtab
  BY DEF EntryOK, Xtab
<1>5. \A k \in DOMAIN xt.ud :
         /\ ud[k] \in Uxtab /\ ud[k].ptab = xt.ud[k].ptab
         /\ ud[k].state = "NOTREPORTED" /\ ud[k].result = "none"
  BY <1>4 DEF Uxtab, State, Result
<1>6. /\ ud \in Seq(Uxtab) /\ DOMAIN ud = DOMAIN xt.ud
      /\ ud # <<>> => 1 \in DOMAIN ud
  <2>1. \A k \in 1..Len(xt.ud) : ud[k] \in Uxtab
    BY <1>4, <1>5
  <2>2. ud = [k \in 1..Len(xt.ud) |-> ud[k]]
    BY <1>4
  <2>. HIDE DEF line, next, ud
  <2>. QED  BY <1>4, <2>1, <2>2, IsSeq
<1>7. none \in Seq(SUBSET Results) /\ DOMAIN none = DOMAIN xt.ud
  BY <1>4
<1>8. x \in lost2 \/ Manned(ud)
  <2>1. x \notin lost2 => Manned(xt.ud) /\ \A k \in DOMAIN xt.ud : xt.ud[k].state # "DEAD"
    BY DEF EntryOK
  <2>2. \A k \in DOMAIN ud : ud[k].ptab = xt.ud[k].ptab /\ ud[k].state # "DEAD"
    BY <1>5, <1>6
  <2>. HIDE DEF ud, line, next
  <2>. QED  BY <1>6, <2>1, <2>2 DEF Manned
<1>9. /\ next \in Xtab /\ next.ud = ud
      /\ InIC(next) /\ InTP(next) /\ "TCABORT" \notin next.flags
  BY <1>4, <1>6 DEF Xtab, Flag, InIC, InTP
<1>10. Registering(next, none)
  <2>1. \A k \in DOMAIN none : none[k] = {}
    OBVIOUS
  <2>2. UNION Range(none) = {}
    BY <2>1, <1>7 DEF Range
  <2>3. \A k \in DOMAIN none : Reports(ud[k], none[k])
    BY <1>5, <1>7, <2>1 DEF Reports
  <2>. HIDE DEF line, next, ud, none
  <2>. QED  BY <1>6, <1>7, <1>9, <2>2, <2>3 DEF Registering
<1>. HIDE DEF line, next, ud, none
<1>11. EntryOK(x, next, Append(file, line), none, lost2)
  BY <1>1, <1>3, <1>8, <1>9, <1>10 DEF EntryOK
<1>. QED  BY <1>3, <1>7, <1>11 DEF line, next, ud, none

\* op_tpend()
LEMMA TpEnded ==
  ASSUME NEW x, NEW xt, NEW file, NEW got \in Seq(SUBSET Results), NEW lost, Nested(file),
         EntryOK(x, xt, file, got, lost), InTP(xt)
  PROVE  /\ Nested(Append(file, TpResult(xt)))
         /\ EntryOK(x, [xt EXCEPT !.tpcount = @ + 1, !.flags = @ \ {"TPINPROGRESS"}],
                    Append(file, TpResult(xt)), got, lost)
<1>. DEFINE next == [xt EXCEPT !.tpcount = @ + 1, !.flags = @ \ {"TPINPROGRESS"}]
<1>0. TpResult(xt) \in Line /\ TpResult(xt).code = "TP_RESULT"
  BY TpResultType DEF EntryOK
<1>1. InIC(xt) /\ file # <<>> /\ TpResult(xt).code \in Follow(Last(file).code)
  BY <1>0, LastLine DEF Follow
<1>2. /\ Nested(Append(file, TpResult(xt))) /\ ~Complete(Append(file, TpResult(xt)))
      /\ Last(Append(file, TpResult(xt))) = TpResult(xt)
  BY <1>0, <1>1, AddLine
<1>3. next \in Xtab /\ InIC(next) /\ ~InTP(next) /\ next.ud = xt.ud
  <2>1. xt \in Xtab /\ xt.tpcount + 1 \in Nat
    BY DEF EntryOK, Xtab
  <2>2. xt.flags \ {"TPINPROGRESS"} \in SUBSET Flag
    BY <2>1 DEF Xtab
  <2>3. next \in Xtab
    BY <2>1, <2>2, Zenon DEF Xtab
  <2>4. next.flags = xt.flags \ {"TPINPROGRESS"} /\ next.ud = xt.ud
    BY <2>1 DEF Xtab
  <2>. QED  BY <1>1, <2>3, <2>4 DEF InIC, InTP
<1>. HIDE DEF next
<1>4. EntryOK(x, next, Append(file, TpResult(xt)), got, lost)
  BY <1>0, <1>1, <1>2, <1>3 DEF EntryOK
<1>. QED  BY <1>2, <1>4 DEF next

\* what some system has registered
LEMMA AnySystem ==
  ASSUME NEW got
  PROVE  (UNION Range(got)) \cap AbortOn # {}
            <=> \E j \in DOMAIN got : got[j] \cap AbortOn # {}
<1>. DEFINE A == UNION Range(got)
<1>1. Range(got) = {got[j] : j \in DOMAIN got}
  BY Zenon DEF Range
<1>2. ASSUME NEW q \in A
      PROVE  \E j \in DOMAIN got : q \in got[j]
  BY <1>1
<1>3. ASSUME NEW j \in DOMAIN got, NEW q \in got[j]
      PROVE  q \in A
  <2>1. got[j] \in Range(got)
    BY <1>1
  <2>. QED  BY <2>1, Zenon
<1>. HIDE DEF A
<1>4. A \cap AbortOn # {} <=> \E j \in DOMAIN got : got[j] \cap AbortOn # {}
  BY <1>2, <1>3
<1>. QED  BY <1>4, Zenon DEF A

\* op_result(): the entry of the system keeps the worst result
LEMMA ResultRegistered ==
  ASSUME NEW up \in Uxtab, NEW S \in SUBSET Results, Reports(up, S), NEW r \in Results
  PROVE  /\ Registered(up, r) \in Uxtab
         /\ Registered(up, r).ptab = up.ptab
         /\ Registered(up, r).sysid = up.sysid
         /\ Registered(up, r).state = "DEAD" <=> up.state = "DEAD"
         /\ Reports(Registered(up, r), S \cup {r})
<1>. DEFINE next == Registered(up, r)
<1>0. /\ S = {} => up.result = "none"
      /\ S # {} => /\ up.result \in S /\ up.result # "none"
                   /\ \A q \in S : Rank(q) <= Rank(up.result)
      /\ up.state \in {"NOTREPORTED", "REPORTED", "DEAD"}
      /\ r # "none" /\ r \in Result
  BY XresdAssumption DEF Reports, Uxtab, State, Result
<1>1. CASE up.state = "NOTREPORTED"
  <2>1. next = [up EXCEPT !.state = "REPORTED", !.result = r]
    BY <1>1 DEF Registered
  <2>2. /\ next \in Uxtab /\ next.ptab = up.ptab /\ next.sysid = up.sysid
        /\ next.state = "REPORTED" /\ next.result = r
    BY <1>0, <2>1 DEF Uxtab, State
  <2>3. S \cup {r} = {r}
    BY <1>1 DEF Reports
  <2>4. \A q \in {r} : Rank(q) <= Rank(r)
    BY RankType
  <2>. HIDE DEF next
  <2>5. Reports(next, S \cup {r})
    BY <2>2, <2>3, <2>4 DEF Reports
  <2>. QED  BY <1>1, <2>2, <2>5 DEF next
<1>2. CASE up.state # "NOTREPORTED"
  <2>. DEFINE res == tet_addresult(up.result, r)
  <2>1. next = [up EXCEPT !.result = res]
    BY <1>2 DEF Registered
  <2>2. res \in S \cup {r} /\ \A q \in S \cup {r} : Rank(q) <= Rank(res)
    <3>1. CASE S = {}
      <4>1. res = r /\ S \cup {r} = {r}
        BY <1>0, <3>1, FirstPrevails
      <4>2. Rank(r) <= Rank(r)
        BY RankType
      <4>. HIDE DEF res
      <4>. QED  BY <4>1, <4>2
    <3>2. CASE S # {}
      <4>1. /\ res \in {up.result, r}
            /\ Rank(up.result) <= Rank(res) /\ Rank(r) <= Rank(res)
        BY <1>0, <3>2, WorsePrevails
      <4>. HIDE DEF res
      <4>2. \A q \in S : Rank(q) <= Rank(up.result)
        BY <1>0, <3>2
      <4>3. \A q \in S : Rank(q) <= Rank(res)
        BY <4>1, <4>2, RankType
      <4>. QED  BY <1>0, <3>2, <4>1, <4>3
    <3>. QED  BY <3>1, <3>2
  <2>. HIDE DEF res
  <2>3. res \in Result
    BY <2>2 DEF Result
  <2>4. /\ next \in Uxtab /\ next.ptab = up.ptab /\ next.sysid = up.sysid
        /\ next.state = up.state /\ next.result = res
    BY <2>1, <2>3 DEF Uxtab
  <2>. HIDE DEF next
  <2>5. Reports(next, S \cup {r})
    BY <1>0, <1>2, <2>2, <2>4 DEF Reports
  <2>. QED  BY <2>4, <2>5 DEF next
<1>. QED  BY <1>1, <1>2

LEMMA ResultEntry ==
  ASSUME NEW x, NEW xt, NEW file, NEW got \in Seq(SUBSET Results), NEW lost,
         EntryOK(x, xt, file, got, lost), InTP(xt), InIC(xt),
         NEW k \in DOMAIN xt.ud, NEW r \in Results
  PROVE  LET got2 == [got EXCEPT ![k] = @ \cup {r}]
         IN  /\ got2 \in Seq(SUBSET Results)
             /\ EntryOK(x, [xt EXCEPT !.ud[k] = Registered(@, r),
                                   !.flags = @ \cup AbortFlag(xt.ud[k], r)],
                        file, got2, lost)
<1>. DEFINE got2 == [got EXCEPT ![k] = @ \cup {r}]
            ud   == [xt.ud EXCEPT ![k] = Registered(@, r)]
            fl   == xt.flags \cup AbortFlag(xt.ud[k], r)
            next == [xt EXCEPT !.ud[k] = Registered(@, r),
                               !.flags = @ \cup AbortFlag(xt.ud[k], r)]
<1>1. /\ xt \in Xtab /\ xt.ud \in Seq(Uxtab) /\ Registering(xt, got)
      /\ Len(xt.ud) \in Nat /\ DOMAIN xt.ud = 1..Len(xt.ud) /\ Len(got) = Len(xt.ud)
      /\ DOMAIN got = 1..Len(xt.ud)
      /\ \A j \in DOMAIN xt.ud : xt.ud[j] \in Uxtab /\ got[j] \in SUBSET Results
  BY DEF EntryOK, Xtab, Registering
<1>2. /\ Registered(xt.ud[k], r) \in Uxtab
      /\ Registered(xt.ud[k], r).ptab = xt.ud[k].ptab
      /\ Registered(xt.ud[k], r).state = "DEAD" <=> xt.ud[k].state = "DEAD"
      /\ Reports(Registered(xt.ud[k], r), got[k] \cup {r})
  BY <1>1, ResultRegistered, Zenon DEF Registering
<1>3. /\ got2 \in Seq(SUBSET Results) /\ DOMAIN got2 = DOMAIN got
      /\ got2[k] = got[k] \cup {r}
      /\ \A j \in DOMAIN got \ {k} : got2[j] = got[j]
  BY <1>1
<1>4. /\ ud \in Seq(Uxtab) /\ DOMAIN ud = DOMAIN xt.ud
      /\ ud[k] = Registered(xt.ud[k], r)
      /\ \A j \in DOMAIN xt.ud \ {k} : ud[j] = xt.ud[j]
  BY <1>1, <1>2
<1>5. fl \in SUBSET Flag /\ ("TPINPROGRESS" \in fl) /\ ("ICINPROGRESS" \in fl)
      /\ ("TCABORT" \in fl <=> "TCABORT" \in xt.flags \/ r \in AbortOn)
  BY <1>1 DEF Xtab, Flag, AbortFlag, InTP, InIC
<1>6. next = [xt EXCEPT !.ud = ud, !.flags = fl]
  BY <1>1 DEF Xtab
<1>. HIDE DEF next, ud, fl, got2
<1>7. next \in Xtab /\ next.ud = ud /\ next.flags = fl
  BY <1>1, <1>4, <1>5, <1>6 DEF Xtab
<1>8. InIC(next) /\ InTP(next)
  BY <1>5, <1>7 DEF InIC, InTP
<1>9. Registering(next, got2)
  <2>1. \A j \in DOMAIN got2 : Reports(ud[j], got2[j])
    <3>. TAKE j \in DOMAIN got2
    <3>1. CASE j = k
      BY <1>2, <1>3, <1>4, <3>1
    <3>2. CASE j # k
      <4>1. ud[j] = xt.ud[j] /\ got2[j] = got[j] /\ Reports(xt.ud[j], got[j])
        BY <1>1, <1>3, <1>4, <3>2 DEF Registering
      <4>. QED  BY <4>1
    <3>. QED  BY <3>1, <3>2
  <2>2. k \in DOMAIN got /\ got2[k] = got[k] \cup {r}
        /\ \A j \in DOMAIN got \ {k} : got2[j] = got[j]
    BY <1>1, <1>3
  <2>3. "TCABORT" \in xt.flags <=> \E j \in DOMAIN got : got[j] \cap AbortOn # {}
    BY <1>1, AnySystem DEF Registering
  <2>4. (\E j \in DOMAIN got2 : got2[j] \cap AbortOn # {})
            <=> (\E j \in DOMAIN got : got[j] \cap AbortOn # {}) \/ r \in AbortOn
    <3>1. ASSUME NEW j \in DOMAIN got, got[j] \cap AbortOn # {}
          PROVE  got2[j] \cap AbortOn # {}
      BY <2>2, <3>1
    <3>2. r \in AbortOn => got2[k] \cap AbortOn # {}
      BY <2>2
    <3>3. ASSUME NEW j \in DOMAIN got, got2[j] \cap AbortOn # {}
          PROVE  got[j] \cap AbortOn # {} \/ r \in AbortOn
      BY <2>2, <3>3
    <3>. QED  BY <1>3, <2>2, <3>1, <3>2, <3>3, Zenon
  <2>5. "TCABORT" \in fl <=> (UNION Range(got2)) \cap AbortOn # {}
    BY <1>5, <2>3, <2>4, AnySystem
  <2>. QED  BY <1>1, <1>3, <1>4, <1>7, <2>1, <2>5 DEF Registering
<1>10. x \in lost \/ Manned(ud)
  <2>1. x \in lost \/ Manned(xt.ud)
    BY DEF EntryOK
  <2>2. \A j \in DOMAIN ud : /\ ud[j].ptab = xt.ud[j].ptab
                             /\ ud[j].state = "DEAD" <=> xt.ud[j].state = "DEAD"
    BY <1>2, <1>4
  <2>3. xt.ud # <<>>
    BY <1>1
  <2>. QED  BY <1>4, <2>1, <2>2, <2>3 DEF Manned
<1>11. EntryOK(x, next, file, got2, lost)
  BY <1>7, <1>8, <1>9, <1>10 DEF EntryOK
<1>. QED  BY <1>3, <1>11 DEF next, got2

\* xtdead(): a dead system keeps what it has reported
LEMMA BuriedUser ==
  ASSUME NEW up \in Uxtab, NEW S
  PROVE  LET up2 == [up EXCEPT !.state = "DEAD", !.ptab = NoProc]
         IN  /\ up2 \in Uxtab /\ up2.ptab = NoProc /\ up2.state = "DEAD"
             /\ up2.sysid = up.sysid
             /\ Reports(up, S) => Reports(up2, S)
BY DEF Uxtab, State, Reports

\* an entry that has lost p
LEMMA BuriedFields ==
  ASSUME NEW xt \in Xtab, NEW p \in Proc
  PROVE  LET b == Bury(xt, p)
         IN  /\ b \in Xtab /\ b.flags = xt.flags /\ b.tpcount = xt.tpcount
             /\ b.owner = (IF xt.owner = p THEN NoProc ELSE xt.owner)
             /\ DOMAIN b.ud = DOMAIN xt.ud /\ (xt.ud # <<>> => b.ud # <<>>)
             /\ b.ud # <<>> => 1 \in DOMAIN b.ud
             /\ \A k \in DOMAIN xt.ud :
                    /\ b.ud[k].sysid = xt.ud[k].sysid
                    /\ xt.ud[k].ptab # p => b.ud[k] = xt.ud[k]
                    /\ xt.ud[k].ptab = p => b.ud[k].ptab = NoProc /\ b.ud[k].state = "DEAD"
                    /\ \A S : Reports(xt.ud[k], S) => Reports(b.ud[k], S)
<1>. DEFINE b  == Bury(xt, p)
            ud == [k \in DOMAIN xt.ud |->
                     IF xt.ud[k].ptab # p THEN xt.ud[k]
                     ELSE [xt.ud[k] EXCEPT !.state = "DEAD", !.ptab = NoProc]]
            o  == IF xt.owner = p THEN NoProc ELSE xt.owner
<1>1. /\ xt.ud \in Seq(Uxtab) /\ Len(xt.ud) \in Nat /\ DOMAIN xt.ud = 1..Len(xt.ud)
      /\ \A k \in DOMAIN xt.ud : xt.ud[k] \in Uxtab
  BY DEF Xtab
<1>2. \A k \in DOMAIN xt.ud :
         /\ ud[k] \in Uxtab /\ ud[k].sysid = xt.ud[k].sysid
         /\ xt.ud[k].ptab # p => ud[k] = xt.ud[k]
         /\ xt.ud[k].ptab = p => ud[k].ptab = NoProc /\ ud[k].state = "DEAD"
         /\ \A S : Reports(xt.ud[k], S) => Reports(ud[k], S)
  <2>. TAKE k \in DOMAIN xt.ud
  <2>1. ud[k] = IF xt.ud[k].ptab # p THEN xt.ud[k]
                ELSE [xt.ud[k] EXCEPT !.state = "DEAD", !.ptab = NoProc]
    OBVIOUS
  <2>. HIDE DEF ud
  <2>2. CASE xt.ud[k].ptab # p
    BY <1>1, <2>1, <2>2
  <2>3. CASE xt.ud[k].ptab = p
    <3>. DEFINE up2 == [xt.ud[k] EXCEPT !.state = "DEAD", !.ptab = NoProc]
    <3>1. ud[k] = up2
      BY <2>1, <2>3
    <3>2. /\ up2 \in Uxtab /\ up2.ptab = NoProc /\ up2.state = "DEAD"
          /\ up2.sysid = xt.ud[k].sysid
          /\ \A S : Reports(xt.ud[k], S) => Reports(up2, S)
      BY <1>1, BuriedUser, Zenon
    <3>. HIDE DEF up2
    <3>. QED  BY <2>3, <3>1, <3>2
  <2>. QED  BY <2>2, <2>3
<1>3. ud \in Seq(Uxtab) /\ Len(ud) = Len(xt.ud) /\ DOMAIN ud = DOMAIN xt.ud
      /\ (ud # <<>> => 1 \in DOMAIN ud)
  <2>1. ud = [k \in 1..Len(xt.ud) |-> ud[k]]
    BY <1>1
  <2>. HIDE DEF ud
  <2>2. \A k \in 1..Len(xt.ud) : ud[k] \in Uxtab
    BY <1>1, <1>2
  <2>. QED  BY <1>1, <2>1, <2>2, IsSeq
<1>4. b = [xt EXCEPT !.owner = o, !.ud = ud]
  BY Zenon DEF Bury
<1>5. o \in Proc \cup {NoProc}
  BY DEF Xtab
<1>. HIDE DEF b, ud, o
<1>6. /\ b \in Xtab /\ b.flags = xt.flags /\ b.tpcount = xt.tpcount
      /\ b.owner = o /\ b.ud = ud
  BY <1>3, <1>4, <1>5 DEF Xtab
<1>7. xt.ud # <<>> => ud # <<>>
  BY <1>1, <1>3
<1>8. \A k \in DOMAIN xt.ud :
         /\ b.ud[k].sysid = xt.ud[k].sysid
         /\ xt.ud[k].ptab # p => b.ud[k] = xt.ud[k]
         /\ xt.ud[k].ptab = p => b.ud[k].ptab = NoProc /\ b.ud[k].state = "DEAD"
         /\ \A S : Reports(xt.ud[k], S) => Reports(b.ud[k], S)
  BY <1>2, <1>6
<1>. QED  BY <1>3, <1>6, <1>7, <1>8, Zenon DEF b, o

LEMMA BuriedEntry ==
  ASSUME NEW x, NEW xt, NEW file, NEW got, NEW lost, EntryOK(x, xt, file, got, lost),
         NEW p \in Proc
  PROVE  /\ InTP(xt) => Registering(Bury(xt, p), got)
         /\ ~AllDead(Bury(xt, p)) => EntryOK(x, Bury(xt, p), file, got, lost)
<1>. DEFINE b == Bury(xt, p)
<1>0. xt \in Xtab
  BY DEF EntryOK
<1>1. /\ b \in Xtab /\ b.flags = xt.flags
      /\ DOMAIN b.ud = DOMAIN xt.ud /\ (xt.ud # <<>> => b.ud # <<>>)
      /\ b.ud # <<>> => 1 \in DOMAIN b.ud
      /\ \A k \in DOMAIN xt.ud :
             /\ xt.ud[k].ptab # p => b.ud[k] = xt.ud[k]
             /\ xt.ud[k].ptab = p => b.ud[k].ptab = NoProc /\ b.ud[k].state = "DEAD"
             /\ \A S : Reports(xt.ud[k], S) => Reports(b.ud[k], S)
  BY <1>0, BuriedFields, Zenon
<1>. HIDE DEF b
<1>2. InTP(b) <=> InTP(xt)
  BY <1>1 DEF InTP
<1>3. InIC(b) <=> InIC(xt)
  BY <1>1 DEF InIC
<1>4. ASSUME InTP(xt)
      PROVE  Registering(b, got)
  <2>1. Registering(xt, got)
    BY <1>4 DEF EntryOK
  <2>. QED  BY <1>1, <2>1 DEF Registering
<1>5. ASSUME ~AllDead(b), Manned(xt.ud)
      PROVE  Manned(b.ud)
  <2>1. \A k \in DOMAIN b.ud : b.ud[k].ptab = NoProc <=> b.ud[k].state = "DEAD"
    BY <1>1, <1>5, XresdAssumption DEF Manned
  <2>. QED  BY <1>5, <2>1 DEF Manned, AllDead
<1>6. ASSUME ~AllDead(b)
      PROVE  EntryOK(x, b, file, got, lost)
  BY <1>1, <1>2, <1>3, <1>4, <1>5, <1>6 DEF EntryOK
<1>. QED  BY <1>4, <1>6 DEF b

\* the same with the lines of tpend() and icend(), when no system has a TCM
LEMMA EndedEntry ==
  ASSUME NEW x, NEW xt, NEW file, NEW got \in Seq(SUBSET Results), NEW lost, Nested(file),
         EntryOK(x, xt, file, got, lost), NEW p \in Proc
  PROVE  LET b     == Bury(xt, p)
             file2 == file \o Epilogue(b)
         IN  /\ Nested(file2) /\ Complete(file2)
             /\ EntryOK(x, [b EXCEPT !.flags = @ \cap {"TCABORT"}], file2, got, lost)
             /\ file2 # file => Last(file2).code = "IC_END" /\ InIC(xt)
             /\ file2 # file /\ file2[Len(file) + 1].code = "TP_RESULT" =>
                    InTP(xt) /\ Consolidates(file2[Len(file) + 1].result, got)
<1>. DEFINE b     == Bury(xt, p)
            file2 == file \o Epilogue(b)
            next  == [b EXCEPT !.flags = @ \cap {"TCABORT"}]
<1>0. xt \in Xtab
  BY DEF EntryOK
<1>1. b \in Xtab /\ b.flags = xt.flags
  BY <1>0, BuriedFields, Zenon
<1>2. InTP(xt) => Registering(b, got)
  BY BuriedEntry
<1>3. /\ IcEnd(b) \in Line /\ IcEnd(b).code = "IC_END"
      /\ InTP(xt) => /\ TpResult(b) \in Line /\ TpResult(b).code = "TP_RESULT"
                     /\ Consolidates(TpResult(b).result, got)
  BY <1>1, <1>2, IcEndType, TpResultType
<1>4. Epilogue(b) = (IF InTP(xt) THEN <<TpResult(b)>> ELSE <<>>)
                        \o (IF InIC(xt) THEN <<IcEnd(b)>> ELSE <<>>)
  BY <1>1 DEF Epilogue, InTP, InIC
<1>5. file \in Seq(Line) /\ Len(file) \in Nat
  BY DEF Nested
<1>6. next \in Xtab /\ ~InIC(next) /\ ~InTP(next)
  BY <1>1 DEF Xtab, InIC, InTP
<1>. HIDE DEF b
<1>7. CASE InTP(xt)
  <2>. DEFINE mid == Append(file, TpResult(b))
  <2>1. InIC(xt) /\ file # <<>> /\ TpResult(b).code \in Follow(Last(file).code)
    BY <1>3, <1>7, LastLine DEF Follow
  <2>2. /\ Nested(mid) /\ mid # <<>> /\ Last(mid) = TpResult(b)
        /\ Len(mid) = Len(file) + 1 /\ mid[Len(file) + 1] = TpResult(b)
    BY <1>3, <1>7, <2>1, AddLine
  <2>3. IcEnd(b).code \in Follow(Last(mid).code)
    BY <1>3, <1>7, <2>2 DEF Follow
  <2>4. file2 = Append(mid, IcEnd(b))
    BY <1>3, <1>4, <1>5, <1>7, <2>1
  <2>. HIDE DEF mid, file2
  <2>5. /\ Nested(file2) /\ Complete(file2) /\ Last(file2) = IcEnd(b)
        /\ Len(file2) = Len(mid) + 1
    BY <1>3, <2>2, <2>3, <2>4, AddLine
  <2>6. file2[Len(file) + 1] = TpResult(b)
    <3>1. mid \in Seq(Line) /\ Len(file) + 1 \in 1..Len(mid)
      BY <1>5, <2>2 DEF Nested
    <3>. QED  BY <1>3, <2>2, <2>4, <3>1
  <2>. HIDE DEF next
  <2>7. EntryOK(x, next, file2, got, lost)
    BY <1>3, <1>6, <2>5 DEF EntryOK
  <2>. QED  BY <1>3, <1>7, <2>1, <2>5, <2>6, <2>7 DEF b, file2, next
<1>8. CASE ~InTP(xt) /\ InIC(xt)
  <2>1. file # <<>> /\ IcEnd(b).code \in Follow(Last(file).code)
    BY <1>3, <1>8, LastLine DEF Follow
  <2>2. file2 = Append(file, IcEnd(b))
    BY <1>3, <1>4, <1>5, <1>8
  <2>. HIDE DEF file2
  <2>3. /\ Nested(file2) /\ Complete(file2) /\ Last(file2) = IcEnd(b)
        /\ file2[Len(file) + 1] = IcEnd(b)
    BY <1>3, <2>1, <2>2, AddLine
  <2>. HIDE DEF next
  <2>4. EntryOK(x, next, file2, got, lost)
    BY <1>3, <1>6, <2>3 DEF EntryOK
  <2>. QED  BY <1>3, <1>8, <2>3, <2>4 DEF b, file2, next
<1>9. CASE ~InTP(xt) /\ ~InIC(xt)
  <2>1. file2 = file
    BY <1>4, <1>5, <1>9
  <2>2. Complete(file)
    BY <1>9, LastLine
  <2>. HIDE DEF file2
  <2>3. file # <<>> => Last(file).code # "TP_START"
    BY <2>2 DEF Complete
  <2>. HIDE DEF next
  <2>4. EntryOK(x, next, file2, got, lost)
    BY <1>6, <2>1, <2>2, <2>3 DEF EntryOK
  <2>. QED  BY <2>1, <2>2, <2>4 DEF b, file2, next
<1>. QED  BY <1>7, <1>8, <1>9

-----------------------------------------------------------------------------
(* The files: each handler disturbs one, or xtdead() all of p's.           *)

Files == \A x \in DOMAIN xres : FileOK(x)

LEMMA QuietFiles ==
  ASSUME Files, UNCHANGED <<xtab, xres, given, revived>>
  PROVE  Files'
<1>1. ASSUME NEW x \in DOMAIN xres
      PROVE  FileOK(x)'
  <2>1. FileOK(x)
    BY DEF Files
  <2>. QED  BY <2>1 DEF FileOK
<1>. QED  BY <1>1 DEF Files

\* What is known of an open file before a request.
LEMMA OpenFile ==
  ASSUME Tables, Files, NEW x \in DOMAIN xtab
  PROVE  /\ x \in DOMAIN xres /\ x \in DOMAIN given /\ x \in 1..xrid
         /\ xtab[x] \in Xtab /\ xtab[x].ud \in Seq(Uxtab)
         /\ Nested(xres[x]) /\ given[x] \in Seq(SUBSET Results)
         /\ EntryOK(x, xtab[x], xres[x], given[x], revived)
<1>1. x \in DOMAIN xres /\ x \in DOMAIN given /\ x \in 1..xrid
  BY DEF Tables
<1>2. FileOK(x)
  BY <1>1 DEF Files
<1>3. EntryOK(x, xtab[x], xres[x], given[x], revived)
  BY <1>2 DEF FileOK
<1>. QED  BY <1>1, <1>2, <1>3 DEF FileOK, EntryOK, Xtab

LEMMA XropenFiles ==
  ASSUME Tables, Files, NEW p \in Proc, OpXropen(p)
  PROVE  Files'
<1>0. PICK x : x = xrid + 1
  OBVIOUS
<1>1. /\ xrid' = x /\ x \notin DOMAIN xres /\ x \notin DOMAIN xtab
      /\ DOMAIN xres' = DOMAIN xres \cup {x} /\ revived' = revived
      /\ xres'[x] = <<>> /\ given'[x] = <<>>
      /\ \A y \in DOMAIN xres : xres'[y] = xres[y]
      /\ \A y \in DOMAIN xres : given'[y] = given[y]
  BY <1>0 DEF OpXropen, Put, Tables
<1>2. \/ xtab' = Put(xtab, x, [owner |-> p, ud |-> <<>>, tpcount |-> 0, flags |-> {}])
      \/ xtab' = xtab
  BY <1>0 DEF OpXropen
<1>3. \A y \in DOMAIN xres : /\ y \in DOMAIN xtab' <=> y \in DOMAIN xtab
                             /\ y \in DOMAIN xtab => xtab'[y] = xtab[y]
  BY <1>1, <1>2 DEF Put
<1>4. FileOK(x)'
  <2>1. x \in DOMAIN xtab' =>
            xtab'[x] = [owner |-> p, ud |-> <<>>, tpcount |-> 0, flags |-> {}]
    BY <1>1, <1>2 DEF Put
  <2>2. EntryOK(x, [owner |-> p, ud |-> <<>>, tpcount |-> 0, flags |-> {}], <<>>, <<>>,
                revived')
    BY NewEntry
  <2>. QED  BY <1>1, <2>1, <2>2, NewEntry DEF FileOK
<1>5. ASSUME NEW y \in DOMAIN xres
      PROVE  FileOK(y)'
  <2>1. FileOK(y)
    BY DEF Files
  <2>. QED  BY <1>1, <1>3, <2>1 DEF FileOK
<1>. QED  BY <1>1, <1>4, <1>5 DEF Files

LEMMA XrcloseFiles ==
  ASSUME Tables, Files, NEW p \in Proc, NEW x, OpXrclose(p, x)
  PROVE  Files'
<1>0. UNCHANGED <<xres, given, revived>>
  BY DEF OpXrclose
<1>1. CASE xtab' = xtab
  BY <1>0, <1>1, QuietFiles
<1>2. CASE xtab' # xtab
  <2>1. x \in DOMAIN xtab /\ ~InIC(xtab[x]) /\ xtab' = Drop(xtab, {x})
    BY <1>2 DEF OpXrclose
  <2>2. /\ x \in DOMAIN xres /\ Nested(xres[x]) /\ given[x] \in Seq(SUBSET Results)
        /\ Complete(xres[x])
    BY <2>1, OpenFile DEF EntryOK
  <2>3. /\ x \notin DOMAIN xtab'
        /\ \A y \in DOMAIN xres \ {x} : /\ y \in DOMAIN xtab' <=> y \in DOMAIN xtab
                                        /\ y \in DOMAIN xtab => xtab'[y] = xtab[y]
    BY <2>1 DEF Drop
  <2>4. FileOK(x)'
    BY <1>0, <2>2, <2>3 DEF FileOK
  <2>5. ASSUME NEW y \in DOMAIN xres \ {x}
        PROVE  FileOK(y)'
    <3>1. FileOK(y)
      BY DEF Files
    <3>. QED  BY <1>0, <2>3, <3>1 DEF FileOK
  <2>. QED  BY <1>0, <2>4, <2>5 DEF Files
<1>. QED  BY <1>1, <1>2

\* The requests that change one open file.
LEMMA OneFile ==
  ASSUME Tables, Files, NEW x \in DOMAIN xtab,
         DOMAIN xtab' = DOMAIN xtab, DOMAIN xres' = DOMAIN xres,
         \A y \in DOMAIN xres \ {x} :
            /\ xres'[y] = xres[y] /\ given'[y] = given[y]
            /\ y \in DOMAIN xtab => xtab'[y] = xtab[y]
            /\ y \in revived' <=> y \in revived,
         Nested(xres'[x]), given'[x] \in Seq(SUBSET Results),
         EntryOK(x, xtab'[x], xres'[x], given'[x], revived')
  PROVE  Files'
<1>1. FileOK(x)'
  BY DEF FileOK
<1>2. ASSUME NEW y \in DOMAIN xres \ {x}
      PROVE  FileOK(y)'
  <2>1. FileOK(y)
    BY DEF Files
  <2>2. y \in DOMAIN xtab => EntryOK(y, xtab[y], xres[y], given[y], revived')
    BY <2>1 DEF FileOK, EntryOK
  <2>. QED  BY <2>1, <2>2 DEF FileOK
<1>. QED  BY <1>1, <1>2 DEF Files

\* The TCM that is found for a system is one of the system and the test case.
LEMMA BoundUser ==
  ASSUME Tables, NEW x, NEW up \in Uxtab
  PROVE  LET b == Bound(x, up)
         IN  /\ b \in Uxtab /\ b.sysid = up.sysid /\ b.state = up.state
             /\ up.ptab # NoProc => b = up
             /\ b.ptab # NoProc /\ up.ptab = NoProc =>
                    /\ Ready(b.ptab) /\ sp_xrid[b.ptab] = x
                    /\ ptr_sysid[b.ptab] = up.sysid /\ ptr_ptype[b.ptab] \in Tcm
<1>. DEFINE tcms == Candidates(x, up.sysid)
<1>1. CASE up.ptab # NoProc \/ tcms = {}
  <2>1. Bound(x, up) = up
    BY <1>1 DEF Bound
  <2>. QED  BY <1>1, <2>1
<1>2. CASE ~(up.ptab # NoProc \/ tcms = {})
  <2>1. tcms \in SUBSET Nat
    BY DEF Candidates, Tables
  <2>2. Min(tcms) \in tcms
    BY <1>2, <2>1, MinNat
  <2>3. PICK k : k = Min(tcms)
    OBVIOUS
  <2>4. /\ k \in DOMAIN ptab /\ ptr_sysid[ptab[k]] = up.sysid
        /\ pt_flags[ptab[k]] = "LOGGEDON" /\ sp_xrid[ptab[k]] = x
        /\ ptr_ptype[ptab[k]] \in Tcm
    BY <2>2, <2>3 DEF Candidates
  <2>5. Bound(x, up) = [up EXCEPT !.ptab = ptab[k]]
    BY <1>2, <2>3, Zenon DEF Bound
  <2>6. ptab[k] \in Proc
    BY <2>4 DEF Tables
  <2>7. Ready(ptab[k])
    BY <2>4 DEF Ready, Connected, Range
  <2>8. /\ Bound(x, up) \in Uxtab /\ Bound(x, up).sysid = up.sysid
        /\ Bound(x, up).state = up.state /\ Bound(x, up).ptab = ptab[k]
    BY <2>5, <2>6 DEF Uxtab
  <2>. QED  BY <1>2, <2>4, <2>7, <2>8
<1>. QED  BY <1>1, <1>2

LEMMA BoundUsers ==
  ASSUME Tables, NEW x, NEW users \in Seq(Uxtab)
  PROVE  LET ud == [k \in DOMAIN users |-> Bound(x, users[k])]
         IN  ud \in Seq(Uxtab) /\ DOMAIN ud = DOMAIN users
<1>. DEFINE ud == [k \in DOMAIN users |-> Bound(x, users[k])]
<1>1. Len(users) \in Nat /\ DOMAIN users = 1..Len(users)
      /\ \A k \in DOMAIN users : users[k] \in Uxtab
  OBVIOUS
<1>2. \A k \in 1..Len(users) : ud[k] \in Uxtab
  BY <1>1, BoundUser
<1>3. ud = [k \in 1..Len(users) |-> ud[k]]
  BY <1>1
<1>. HIDE DEF ud
<1>4. ud \in Seq(Uxtab) /\ DOMAIN ud = DOMAIN users
  BY <1>1, <1>2, <1>3, IsSeq
<1>. QED  BY <1>4 DEF ud

\* What the codes of the brackets say of the file.
LEMMA XrsysOK ==
  ASSUME NEW p \in Proc, NEW x, NEW list \in SysLists, OpXrsys(p, x, list)
  PROVE  /\ UNCHANGED <<xres, given, revived>>
         /\ \/ xtab' = xtab
            \/ /\ x \in DOMAIN xtab /\ ~InIC(xtab[x]) /\ ~InTP(xtab[x])
               /\ \A k \in DOMAIN list : list[k] >= 0
               /\ xtab' = [xtab EXCEPT ![x].ud = [k \in DOMAIN list |-> NewUser(list[k])]]
<1>. DEFINE bad == {k \in DOMAIN list : list[k] < 0 \/ \E j \in 1..k - 1 : list[j] = list[k]}
            good == bad = {} /\ x \in DOMAIN xtab /\ ~InIC(xtab[x]) /\ ~InTP(xtab[x])
            rc   == IF list = <<>> THEN "INVAL"
                    ELSE IF bad # {} THEN IF list[Min(bad)] < 0 THEN "INVAL" ELSE "DUPS"
                    ELSE IF x \notin DOMAIN xtab THEN "XRID"
                    ELSE IF InIC(xtab[x]) \/ InTP(xtab[x]) THEN "INPROGRESS"
                    ELSE "OK"
            next == [xtab EXCEPT ![x].ud = [k \in DOMAIN list |-> NewUser(list[k])]]
<1>1. xtab' = xtab \/ (good /\ xtab' = next)
  <2>1. xtab' = IF rc # "OK" THEN xtab ELSE next
    BY Zenon DEF OpXrsys
  <2>2. rc = "OK" => good
    <3>. HIDE DEF bad
    <3>. QED  OBVIOUS
  <2>. HIDE DEF rc, good, next
  <2>. QED  BY <2>1, <2>2
<1>2. bad = {} => \A k \in DOMAIN list : list[k] >= 0
  <2>1. \A k \in DOMAIN list : list[k] \in Int
    BY XresdAssumption
  <2>. QED  BY <2>1
<1>. QED  BY <1>1, <1>2 DEF OpXrsys

LEMMA XrsysFiles ==
  ASSUME Tables, Files, NEW p \in Proc, NEW x, NEW list \in SysLists, OpXrsys(p, x, list)
  PROVE  Files'
<1>1. CASE xtab' = xtab
  BY <1>1, XrsysOK, QuietFiles
<1>2. CASE xtab' # xtab
  <2>. DEFINE ud == [k \in DOMAIN list |-> NewUser(list[k])]
  <2>1. /\ x \in DOMAIN xtab /\ ~InIC(xtab[x]) /\ ~InTP(xtab[x])
        /\ xtab' = [xtab EXCEPT ![x].ud = ud] /\ \A k \in DOMAIN list : list[k] >= 0
        /\ UNCHANGED <<xres, given, revived>>
    BY <1>2, XrsysOK
  <2>2. list \in Seq(Int) /\ Len(list) \in Nat /\ DOMAIN list = 1..Len(list)
    BY XresdAssumption
  <2>3. \A k \in 1..Len(list) : ud[k] \in Uxtab
    BY <2>1, <2>2 DEF NewUser, Uxtab, State, Result
  <2>4. ud = [k \in 1..Len(list) |-> ud[k]]
    BY <2>2
  <2>. HIDE DEF ud
  <2>5. ud \in Seq(Uxtab)
    BY <2>2, <2>3, <2>4, IsSeq
  <2>6. EntryOK(x, [xtab[x] EXCEPT !.ud = ud], xres[x], given[x], revived)
    BY <2>1, <2>5, OpenFile, NewUsers
  <2>7. DOMAIN xtab' = DOMAIN xtab /\ xtab'[x] = [xtab[x] EXCEPT !.ud = ud]
        /\ \A y \in DOMAIN xtab \ {x} : xtab'[y] = xtab[y]
    BY <2>1
  <2>. QED  BY <2>1, <2>6, <2>7, OpenFile, OneFile
<1>. QED  BY <1>1, <1>2

\* When op_icstart() changes anything nothing is in progress.
LEMMA IcstartCases ==
  ASSUME NEW p \in Proc, NEW x, OpIcstart(p, x)
  PROVE  LET ud   == [k \in DOMAIN xtab[x].ud |-> Bound(x, xtab[x].ud[k])]
             lost == \E k \in DOMAIN ud : ud[k].state = "DEAD" /\ ud[k].ptab # NoProc
             new  == [xtab[x] EXCEPT !.ud = ud, !.tpcount = 0,
                                     !.flags = @ \cup {"ICINPROGRESS"}]
         IN  /\ UNCHANGED <<ptab, pt_flags, sp_xrid, xrid, given, tftab, tfid>>
             /\ ptm_rc' \in Rc
             /\ \/ UNCHANGED <<xtab, xres, revived>>
                \/ /\ x \in DOMAIN xtab /\ ~InIC(xtab[x]) /\ ~InTP(xtab[x])
                   /\ revived' = IF lost THEN revived \cup {x} ELSE revived
                   /\ \/ xtab' = [xtab EXCEPT ![x].ud = ud] /\ xres' = xres
                      \/ /\ \A k \in DOMAIN ud : ud[k].ptab # NoProc
                         /\ xtab' = [xtab EXCEPT ![x] = new]
                         /\ xres' = [xres EXCEPT ![x] = Append(@, Note("IC_START"))]
<1>. DEFINE ud   == [k \in DOMAIN xtab[x].ud |-> Bound(x, xtab[x].ud[k])]
            lost == \E k \in DOMAIN ud : ud[k].state = "DEAD" /\ ud[k].ptab # NoProc
            none == \E k \in DOMAIN ud : ud[k].ptab = NoProc
            next == [xtab EXCEPT ![x] = [xtab[x] EXCEPT !.ud = ud, !.tpcount = 0,
                                                  !.flags = @ \cup {"ICINPROGRESS"}]]
            file == [xres EXCEPT ![x] = Append(@, Note("IC_START"))]
            rev  == IF lost THEN revived \cup {x} ELSE revived
            rc   == IF ~Mtcm(p) THEN "PERM"
                    ELSE IF x \notin DOMAIN xtab THEN "XRID"
                    ELSE IF InIC(xtab[x]) \/ InTP(xtab[x]) THEN "INPROGRESS"
                    ELSE IF none THEN "SYSID"
                    ELSE "OK"
<1>1. /\ ptm_rc' = rc
      /\ \/ rc \notin {"OK", "SYSID"} /\ UNCHANGED <<xtab, xres, revived>>
         \/ /\ rc \in {"OK", "SYSID"} /\ revived' = rev
            /\ \/ rc = "SYSID" /\ xtab' = [xtab EXCEPT ![x].ud = ud] /\ UNCHANGED xres
               \/ rc = "OK" /\ xtab' = next /\ xres' = file
  BY Zenon DEF OpIcstart
<1>2. /\ rc \in {"OK", "SYSID"} => x \in DOMAIN xtab /\ ~InIC(xtab[x]) /\ ~InTP(xtab[x])
      /\ rc = "OK" => ~none
      /\ rc \in Rc
  <2>. HIDE DEF none
  <2>. QED  BY DEF Rc
<1>3. UNCHANGED <<ptab, pt_flags, sp_xrid, xrid, given, tftab, tfid>>
  BY DEF OpIcstart
<1>4. ~none => \A k \in DOMAIN ud : ud[k].ptab # NoProc
  BY Zenon
<1>5. next = [xtab EXCEPT ![x] = [xtab[x] EXCEPT !.ud = ud, !.tpcount = 0,
                                                 !.flags = @ \cup {"ICINPROGRESS"}]]
  OBVIOUS
<1>. HIDE DEF rc, none, next
<1>. QED  BY <1>1, <1>2, <1>3, <1>4, <1>5, Zenon

LEMMA IcendCases ==
  ASSUME NEW p \in Proc, NEW x, OpIcend(p, x)
  PROVE  /\ UNCHANGED <<ptab, pt_flags, sp_xrid, xrid, given, revived, tftab, tfid>>
         /\ ptm_rc' \in Rc
         /\ \/ UNCHANGED <<xtab, xres>>
            \/ /\ x \in DOMAIN xtab /\ InIC(xtab[x]) /\ ~InTP(xtab[x])
               /\ xtab' = [xtab EXCEPT ![x].flags = @ \ {"ICINPROGRESS"}]
               /\ xres' = [xres EXCEPT ![x] = Append(@, IcEnd(xtab[x]))]
<1>. DEFINE rc == IF ~Mtcm(p) THEN "PERM"
                  ELSE IF x \notin DOMAIN xtab THEN "XRID"
                  ELSE IF ~InIC(xtab[x]) THEN "DONE"
                  ELSE IF InTP(xtab[x]) THEN "INPROGRESS"
                  ELSE "OK"
<1>1. /\ ptm_rc' = rc
      /\ UNCHANGED <<ptab, pt_flags, sp_xrid, xrid, given, revived, tftab, tfid>>
      /\ \/ rc # "OK" /\ UNCHANGED <<xtab, xres>>
         \/ /\ rc = "OK"
            /\ xtab' = [xtab EXCEPT ![x].flags = @ \ {"ICINPROGRESS"}]
            /\ xres' = [xres EXCEPT ![x] = Append(@, IcEnd(xtab[x]))]
  BY Zenon DEF OpIcend
<1>2. /\ rc \in Rc
      /\ rc = "OK" => x \in DOMAIN xtab /\ InIC(xtab[x]) /\ ~InTP(xtab[x])
  BY DEF Rc
<1>. HIDE DEF rc
<1>. QED  BY <1>1, <1>2, Zenon

LEMMA TpstartCases ==
  ASSUME NEW p \in Proc, NEW x, OpTpstart(p, x)
  PROVE  LET ud   == [k \in DOMAIN xtab[x].ud |->
                        [xtab[x].ud[k] EXCEPT !.state = "NOTREPORTED", !.result = "none"]]
             new  == [xtab[x] EXCEPT !.ud = ud,
                                     !.flags = (@ \ {"TCABORT"}) \cup {"TPINPROGRESS"}]
             lost == \E k \in DOMAIN xtab[x].ud : xtab[x].ud[k].state = "DEAD"
         IN  /\ UNCHANGED <<ptab, pt_flags, sp_xrid, xrid, tftab, tfid>>
             /\ ptm_rc' \in Rc
             /\ \/ UNCHANGED <<xtab, xres, given, revived>>
                \/ /\ x \in DOMAIN xtab /\ InIC(xtab[x]) /\ ~InTP(xtab[x])
                   /\ xtab' = [xtab EXCEPT ![x] = new]
                   /\ xres' = [xres EXCEPT ![x] = Append(@, Note("TP_START"))]
                   /\ given' = [given EXCEPT ![x] = [k \in DOMAIN xtab[x].ud |-> {}]]
                   /\ revived' = IF lost THEN revived \cup {x} ELSE revived
<1>. DEFINE rc == IF ~Mtcm(p) THEN "PERM"
                  ELSE IF x \notin DOMAIN xtab THEN "XRID"
                  ELSE IF ~InIC(xtab[x]) THEN "DONE"
                  ELSE IF InTP(xtab[x]) THEN "INPROGRESS"
                  ELSE "OK"
            reset(up) == [up EXCEPT !.state = "NOTREPORTED", !.result = "none"]
            next == [xtab EXCEPT ![x] =
                        [xtab[x] EXCEPT !.ud = [k \in DOMAIN @ |-> reset(@[k])],
                                  !.flags = (@ \ {"TCABORT"}) \cup {"TPINPROGRESS"}]]
            file == [xres EXCEPT ![x] = Append(@, Note("TP_START"))]
            ud   == [k \in DOMAIN xtab[x].ud |->
                        [xtab[x].ud[k] EXCEPT !.state = "NOTREPORTED", !.result = "none"]]
            lost == \E k \in DOMAIN xtab[x].ud : xtab[x].ud[k].state = "DEAD"
            rev  == IF lost THEN revived \cup {x} ELSE revived
<1>1. /\ ptm_rc' = rc
      /\ UNCHANGED <<ptab, pt_flags, sp_xrid, xrid, tftab, tfid>>
      /\ \/ rc # "OK" /\ UNCHANGED <<xtab, xres, given, revived>>
         \/ /\ rc = "OK" /\ xtab' = next /\ xres' = file
            /\ given' = [given EXCEPT ![x] = [k \in DOMAIN xtab[x].ud |-> {}]]
            /\ revived' = rev
  BY Zenon DEF OpTpstart
<1>2. /\ rc \in Rc
      /\ rc = "OK" => x \in DOMAIN xtab /\ InIC(xtab[x]) /\ ~InTP(xtab[x])
  BY DEF Rc
<1>3. next = [xtab EXCEPT ![x] =
                [xtab[x] EXCEPT !.ud = ud,
                                !.flags = (@ \ {"TCABORT"}) \cup {"TPINPROGRESS"}]]
  BY Zenon
<1>. HIDE DEF rc, next
<1>. QED  BY <1>1, <1>2, <1>3, Zenon

LEMMA TpendCases ==
  ASSUME NEW p \in Proc, NEW x, OpTpend(p, x)
  PROVE  /\ UNCHANGED <<ptab, pt_flags, sp_xrid, xrid, given, revived, tftab, tfid>>
         /\ ptm_rc' \in Rc
         /\ \/ UNCHANGED <<xtab, xres>>
            \/ /\ x \in DOMAIN xtab /\ InTP(xtab[x])
               /\ ptm_rc' = "ABORT" <=> "TCABORT" \in xtab[x].flags
               /\ xtab' = [xtab EXCEPT ![x] = [xtab[x] EXCEPT !.tpcount = @ + 1,
                                                     !.flags = @ \ {"TPINPROGRESS"}]]
               /\ xres' = [xres EXCEPT ![x] = Append(@, TpResult(xtab[x]))]
<1>. DEFINE rc == IF ~Mtcm(p) THEN "PERM"
                  ELSE IF x \notin DOMAIN xtab THEN "XRID"
                  ELSE IF ~InIC(xtab[x]) \/ ~InTP(xtab[x]) THEN "DONE"
                  ELSE IF "TCABORT" \in xtab[x].flags THEN "ABORT"
                  ELSE "OK"
            next == [xtab EXCEPT ![x] = [xtab[x] EXCEPT !.tpcount = @ + 1,
                                                  !.flags = @ \ {"TPINPROGRESS"}]]
            file == [xres EXCEPT ![x] = Append(@, TpResult(xtab[x]))]
<1>1. /\ ptm_rc' = rc
      /\ UNCHANGED <<ptab, pt_flags, sp_xrid, xrid, given, revived, tftab, tfid>>
      /\ \/ rc \notin {"OK", "ABORT"} /\ UNCHANGED <<xtab, xres>>
         \/ rc \in {"OK", "ABORT"} /\ xtab' = next /\ xres' = file
  BY Zenon DEF OpTpend
<1>2. /\ rc \in Rc
      /\ rc \in {"OK", "ABORT"} => x \in DOMAIN xtab /\ InTP(xtab[x])
      /\ rc \in {"OK", "ABORT"} => (rc = "ABORT" <=> "TCABORT" \in xtab[x].flags)
  BY DEF Rc
<1>3. next = [xtab EXCEPT ![x] = [xtab[x] EXCEPT !.tpcount = @ + 1,
                                                 !.flags = @ \ {"TPINPROGRESS"}]]
  OBVIOUS
<1>. HIDE DEF rc, next
<1>. QED  BY <1>1, <1>2, <1>3, Zenon

LEMMA IcstartFiles ==
  ASSUME Tables, Files, NEW p \in Proc, NEW x, OpIcstart(p, x)
  PROVE  Files'
<1>. DEFINE ud == [k \in DOMAIN xtab[x].ud |-> Bound(x, xtab[x].ud[k])]
            lost == \E k \in DOMAIN ud : ud[k].state = "DEAD" /\ ud[k].ptab # NoProc
            new == [xtab[x] EXCEPT !.ud = ud, !.tpcount = 0,
                                   !.flags = @ \cup {"ICINPROGRESS"}]
<1>1. \/ UNCHANGED <<xtab, xres, given, revived>>
      \/ /\ x \in DOMAIN xtab /\ ~InIC(xtab[x]) /\ ~InTP(xtab[x]) /\ given' = given
         /\ revived' = IF lost THEN revived \cup {x} ELSE revived
         /\ \/ xtab' = [xtab EXCEPT ![x].ud = ud] /\ xres' = xres
            \/ /\ \A k \in DOMAIN ud : ud[k].ptab # NoProc
               /\ xtab' = [xtab EXCEPT ![x] = new]
               /\ xres' = [xres EXCEPT ![x] = Append(@, Note("IC_START"))]
  <2>1. /\ UNCHANGED <<ptab, pt_flags, sp_xrid, xrid, given, tftab, tfid>>
        /\ \/ UNCHANGED <<xtab, xres, revived>>
           \/ /\ x \in DOMAIN xtab /\ ~InIC(xtab[x]) /\ ~InTP(xtab[x])
              /\ revived' = IF lost THEN revived \cup {x} ELSE revived
              /\ \/ xtab' = [xtab EXCEPT ![x].ud = ud] /\ xres' = xres
                 \/ /\ \A k \in DOMAIN ud : ud[k].ptab # NoProc
                    /\ xtab' = [xtab EXCEPT ![x] = new]
                    /\ xres' = [xres EXCEPT ![x] = Append(@, Note("IC_START"))]
    BY IcstartCases, Zenon
  <2>. HIDE DEF ud, lost, new
  <2>. QED  BY <2>1
<1>2. CASE UNCHANGED <<xtab, xres, given, revived>>
  BY <1>2, QuietFiles
<1>3. CASE ~ UNCHANGED <<xtab, xres, given, revived>>
  <2>1. x \in DOMAIN xtab /\ ~InIC(xtab[x]) /\ ~InTP(xtab[x]) /\ given' = given
        /\ revived' = IF lost THEN revived \cup {x} ELSE revived
    BY <1>1, <1>3
  <2>2. /\ x \in DOMAIN xres /\ xtab[x].ud \in Seq(Uxtab) /\ xtab[x] \in Xtab
        /\ Nested(xres[x]) /\ given[x] \in Seq(SUBSET Results)
        /\ EntryOK(x, xtab[x], xres[x], given[x], revived)
    BY <2>1, OpenFile
  <2>3. ud \in Seq(Uxtab)
    BY <2>2, BoundUsers
  <2>. HIDE DEF ud
  <2>4. CASE xtab' = [xtab EXCEPT ![x].ud = ud] /\ xres' = xres
    <3>1. EntryOK(x, [xtab[x] EXCEPT !.ud = ud], xres[x], given[x], revived')
      BY <2>1, <2>2, <2>3, NewUsers
    <3>2. DOMAIN xtab' = DOMAIN xtab /\ xtab'[x] = [xtab[x] EXCEPT !.ud = ud]
          /\ \A y \in DOMAIN xtab \ {x} : xtab'[y] = xtab[y]
      BY <2>1, <2>4
    <3>. QED  BY <2>1, <2>2, <2>4, <3>1, <3>2, OneFile
  <2>5. CASE /\ \A k \in DOMAIN ud : ud[k].ptab # NoProc
             /\ xtab' = [xtab EXCEPT ![x] = new]
             /\ xres' = [xres EXCEPT ![x] = Append(@, Note("IC_START"))]
    <3>1. \A k \in DOMAIN ud : ud[k].ptab # NoProc
                               /\ (ud[k].state = "DEAD" => x \in revived')
      BY <2>1, <2>5
    <3>2. /\ Nested(Append(xres[x], Note("IC_START")))
          /\ EntryOK(x, new, Append(xres[x], Note("IC_START")), given[x], revived')
      BY <2>1, <2>2, <2>3, <3>1, IcStarted
    <3>. HIDE DEF new
    <3>3. /\ DOMAIN xtab' = DOMAIN xtab /\ xtab'[x] = new
          /\ \A y \in DOMAIN xtab \ {x} : xtab'[y] = xtab[y]
          /\ DOMAIN xres' = DOMAIN xres /\ xres'[x] = Append(xres[x], Note("IC_START"))
          /\ \A y \in DOMAIN xres \ {x} : xres'[y] = xres[y]
      BY <2>1, <2>2, <2>5
    <3>. QED  BY <2>1, <2>2, <3>2, <3>3, OneFile
  <2>. QED  BY <1>1, <1>3, <2>4, <2>5
<1>. QED  BY <1>2, <1>3

LEMMA IcendFiles ==
  ASSUME Tables, Files, NEW p \in Proc, NEW x, OpIcend(p, x)
  PROVE  Files'
<1>. DEFINE new == [xtab[x] EXCEPT !.flags = @ \ {"ICINPROGRESS"}]
            line == IcEnd(xtab[x])
<1>1. \/ UNCHANGED <<xtab, xres, given, revived>>
      \/ /\ x \in DOMAIN xtab /\ InIC(xtab[x]) /\ ~InTP(xtab[x])
         /\ UNCHANGED <<given, revived>>
         /\ xtab' = [xtab EXCEPT ![x].flags = @ \ {"ICINPROGRESS"}]
         /\ xres' = [xres EXCEPT ![x] = Append(@, line)]
  BY IcendCases, Zenon
<1>2. CASE UNCHANGED <<xtab, xres, given, revived>>
  BY <1>2, QuietFiles
<1>3. CASE ~ UNCHANGED <<xtab, xres, given, revived>>
  <2>1. /\ x \in DOMAIN xtab /\ x \in DOMAIN xres
        /\ Nested(xres[x]) /\ given[x] \in Seq(SUBSET Results)
        /\ EntryOK(x, xtab[x], xres[x], given[x], revived)
    BY <1>1, <1>3, OpenFile
  <2>2. Nested(Append(xres[x], line))
        /\ EntryOK(x, new, Append(xres[x], line), given[x], revived)
    BY <1>1, <1>3, <2>1, IcEnded
  <2>3. /\ DOMAIN xtab' = DOMAIN xtab /\ xtab'[x] = new
        /\ \A y \in DOMAIN xtab \ {x} : xtab'[y] = xtab[y]
        /\ DOMAIN xres' = DOMAIN xres /\ xres'[x] = Append(xres[x], line)
        /\ \A y \in DOMAIN xres \ {x} : xres'[y] = xres[y]
    BY <1>1, <1>3, <2>1
  <2>. HIDE DEF new, line
  <2>. QED  BY <1>1, <1>3, <2>1, <2>2, <2>3, OneFile
<1>. QED  BY <1>2, <1>3

LEMMA TpstartFiles ==
  ASSUME Tables, Files, NEW p \in Proc, NEW x, OpTpstart(p, x)
  PROVE  Files'
<1>. DEFINE line == Note("TP_START")
            ud   == [k \in DOMAIN xtab[x].ud |->
                        [xtab[x].ud[k] EXCEPT !.state = "NOTREPORTED", !.result = "none"]]
            none == [k \in DOMAIN xtab[x].ud |-> {}]
            new  == [xtab[x] EXCEPT !.ud = ud,
                                    !.flags = (@ \ {"TCABORT"}) \cup {"TPINPROGRESS"}]
            lost == \E k \in DOMAIN xtab[x].ud : xtab[x].ud[k].state = "DEAD"
<1>1. \/ UNCHANGED <<xtab, xres, given, revived>>
      \/ /\ x \in DOMAIN xtab /\ InIC(xtab[x]) /\ ~InTP(xtab[x])
         /\ xtab' = [xtab EXCEPT ![x] = new]
         /\ xres' = [xres EXCEPT ![x] = Append(@, line)]
         /\ given' = [given EXCEPT ![x] = none]
         /\ revived' = IF lost THEN revived \cup {x} ELSE revived
  BY TpstartCases, Zenon
<1>2. CASE UNCHANGED <<xtab, xres, given, revived>>
  BY <1>2, QuietFiles
<1>3. CASE ~ UNCHANGED <<xtab, xres, given, revived>>
  <2>1. /\ x \in DOMAIN xtab /\ x \in DOMAIN xres /\ x \in DOMAIN given
        /\ Nested(xres[x]) /\ given[x] \in Seq(SUBSET Results)
        /\ EntryOK(x, xtab[x], xres[x], given[x], revived)
    BY <1>1, <1>3, OpenFile
  <2>2. /\ x \in revived => x \in revived'
        /\ \A k \in DOMAIN xtab[x].ud : xtab[x].ud[k].state = "DEAD" => x \in revived'
    BY <1>1, <1>3
  <2>3. /\ Nested(Append(xres[x], line)) /\ none \in Seq(SUBSET Results)
        /\ EntryOK(x, new, Append(xres[x], line), none, revived')
    <3>1. InIC(xtab[x]) /\ ~InTP(xtab[x])
      BY <1>1, <1>3
    <3>. QED  BY <2>1, <2>2, <3>1, TpStarted
  <2>. HIDE DEF new, line, none
  <2>4. /\ DOMAIN xtab' = DOMAIN xtab /\ xtab'[x] = new
        /\ \A y \in DOMAIN xtab \ {x} : xtab'[y] = xtab[y]
        /\ DOMAIN xres' = DOMAIN xres /\ xres'[x] = Append(xres[x], line)
        /\ \A y \in DOMAIN xres \ {x} : xres'[y] = xres[y]
        /\ given'[x] = none
        /\ \A y \in DOMAIN given \ {x} : given'[y] = given[y]
    BY <1>1, <1>3, <2>1
  <2>5. DOMAIN given = DOMAIN xres
    BY DEF Tables
  <2>6. \A y \in DOMAIN xres \ {x} : y \in revived' <=> y \in revived
    BY <1>1, <1>3
  <2>. QED  BY <2>1, <2>3, <2>4, <2>5, <2>6, OneFile
<1>. QED  BY <1>2, <1>3

LEMMA TpendFiles ==
  ASSUME Tables, Files, NEW p \in Proc, NEW x, OpTpend(p, x)
  PROVE  Files'
<1>. DEFINE new == [xtab[x] EXCEPT !.tpcount = @ + 1, !.flags = @ \ {"TPINPROGRESS"}]
            line == TpResult(xtab[x])
<1>1. \/ UNCHANGED <<xtab, xres, given, revived>>
      \/ /\ x \in DOMAIN xtab /\ InTP(xtab[x])
         /\ UNCHANGED <<given, revived>>
         /\ xtab' = [xtab EXCEPT ![x] = new]
         /\ xres' = [xres EXCEPT ![x] = Append(@, line)]
  BY TpendCases, Zenon
<1>2. CASE UNCHANGED <<xtab, xres, given, revived>>
  BY <1>2, QuietFiles
<1>3. CASE ~ UNCHANGED <<xtab, xres, given, revived>>
  <2>1. /\ x \in DOMAIN xtab /\ x \in DOMAIN xres
        /\ Nested(xres[x]) /\ given[x] \in Seq(SUBSET Results)
        /\ EntryOK(x, xtab[x], xres[x], given[x], revived)
    BY <1>1, <1>3, OpenFile
  <2>2. Nested(Append(xres[x], line))
        /\ EntryOK(x, new, Append(xres[x], line), given[x], revived)
    BY <1>1, <1>3, <2>1, TpEnded
  <2>. HIDE DEF new, line
  <2>3. /\ DOMAIN xtab' = DOMAIN xtab /\ xtab'[x] = new
        /\ \A y \in DOMAIN xtab \ {x} : xtab'[y] = xtab[y]
        /\ DOMAIN xres' = DOMAIN xres /\ xres'[x] = Append(xres[x], line)
        /\ \A y \in DOMAIN xres \ {x} : xres'[y] = xres[y]
    BY <1>1, <1>3, <2>1
  <2>. QED  BY <1>1, <1>3, <2>1, <2>2, <2>3, OneFile
<1>. QED  BY <1>2, <1>3

\* op_result() registers r for the system at k
Registers(x, k, r) ==
    /\ xtab' = [xtab EXCEPT ![x] =
                  [xtab[x] EXCEPT !.ud[k] = Registered(@, r),
                                  !.flags = @ \cup AbortFlag(xtab[x].ud[k], r)]]
    /\ given' = [given EXCEPT ![x] = [given[x] EXCEPT ![k] = @ \cup {r}]]

LEMMA ResultCases ==
  ASSUME Tables, Files, NEW p \in Proc, NEW x, NEW r, OpResult(p, x, r)
  PROVE  /\ UNCHANGED <<ptab, pt_flags, sp_xrid, xrid, xres, revived, tftab, tfid>>
         /\ ptm_rc' \in Rc
         /\ \/ UNCHANGED <<xtab, given>>
            \/ /\ r \in Results /\ x \in DOMAIN xtab /\ InIC(xtab[x]) /\ InTP(xtab[x])
               /\ \E k \in DOMAIN xtab[x].ud : Registers(x, k, r)
<1>. DEFINE users == {k \in DOMAIN xtab[x].ud : xtab[x].ud[k].sysid = ptr_sysid[p]}
            rc == IF r \notin Results THEN "INVAL"
                  ELSE IF x \notin DOMAIN xtab THEN "XRID"
                  ELSE IF ~InIC(xtab[x]) \/ ~InTP(xtab[x]) THEN "DONE"
                  ELSE IF users = {} THEN "SYSID"
                  ELSE "OK"
            nextx(k) == [xtab EXCEPT ![x] =
                          [xtab[x] EXCEPT !.ud[k] = Registered(@, r),
                                          !.flags = @ \cup AbortFlag(xtab[x].ud[k], r)]]
            nextg(k) == [given EXCEPT ![x][k] = @ \cup {r}]
            nexth(k) == [given EXCEPT ![x] = [given[x] EXCEPT ![k] = @ \cup {r}]]
<1>1. /\ ptm_rc' = rc
      /\ UNCHANGED <<ptab, pt_flags, sp_xrid, xrid, xres, revived, tftab, tfid>>
      /\ \/ rc # "OK" /\ UNCHANGED <<xtab, given>>
         \/ rc = "OK" /\ xtab' = nextx(Min(users)) /\ given' = nextg(Min(users))
  BY Zenon DEF OpResult
<1>2. /\ rc \in Rc
      /\ rc = "OK" => /\ r \in Results /\ x \in DOMAIN xtab /\ InIC(xtab[x])
                      /\ InTP(xtab[x]) /\ users # {}
  <2>. HIDE DEF users
  <2>. QED  BY DEF Rc
<1>3. rc = "OK" => Min(users) \in DOMAIN xtab[x].ud
  <2>1. SUFFICES ASSUME rc = "OK"
                 PROVE  Min(users) \in DOMAIN xtab[x].ud
    OBVIOUS
  <2>2. xtab[x].ud \in Seq(Uxtab)
    BY <1>2, <2>1, OpenFile
  <2>3. users \in SUBSET Nat
    BY <2>2
  <2>4. Min(users) \in users
    BY <1>2, <2>1, <2>3, MinNat
  <2>. QED  BY <2>4
<1>4. \A k : nextg(k) = nexth(k)
  OBVIOUS
<1>. HIDE DEF rc, users, nextx, nextg, nexth
<1>5. CASE rc # "OK"
  BY <1>1, <1>2, <1>5
<1>6. CASE rc = "OK"
  <2>1. PICK k : k = Min(users)
    OBVIOUS
  <2>2. /\ k \in DOMAIN xtab[x].ud /\ xtab' = nextx(k) /\ given' = nexth(k)
    BY <1>1, <1>3, <1>4, <1>6, <2>1
  <2>3. Registers(x, k, r)
    BY <2>2, Zenon DEF nextx, nexth, Registers
  <2>. QED  BY <1>1, <1>2, <1>6, <2>2, <2>3
<1>. QED  BY <1>5, <1>6

LEMMA ResultFiles ==
  ASSUME Tables, Files, NEW p \in Proc, NEW x, NEW r, OpResult(p, x, r)
  PROVE  Files'
<1>1. CASE UNCHANGED <<xtab, given>>
  BY <1>1, ResultCases, QuietFiles
<1>2. CASE ~UNCHANGED <<xtab, given>>
  <2>1. /\ UNCHANGED <<xres, revived>>
        /\ r \in Results /\ x \in DOMAIN xtab /\ InIC(xtab[x]) /\ InTP(xtab[x])
    BY <1>2, ResultCases
  <2>2. PICK k \in DOMAIN xtab[x].ud : Registers(x, k, r)
    BY <1>2, ResultCases
  <2>. DEFINE new  == [xtab[x] EXCEPT !.ud[k] = Registered(@, r),
                                      !.flags = @ \cup AbortFlag(xtab[x].ud[k], r)]
              got2 == [given[x] EXCEPT ![k] = @ \cup {r}]
  <2>3. /\ x \in DOMAIN xres /\ x \in DOMAIN given
        /\ Nested(xres[x]) /\ given[x] \in Seq(SUBSET Results)
        /\ EntryOK(x, xtab[x], xres[x], given[x], revived)
    BY <2>1, OpenFile
  <2>4. got2 \in Seq(SUBSET Results) /\ EntryOK(x, new, xres[x], got2, revived)
    BY <2>1, <2>3, ResultEntry, Zenon
  <2>5. /\ xtab' = [xtab EXCEPT ![x] = new] /\ given' = [given EXCEPT ![x] = got2]
    BY <2>2, Zenon DEF Registers
  <2>. HIDE DEF new, got2
  <2>6. /\ DOMAIN xtab' = DOMAIN xtab /\ xtab'[x] = new /\ given'[x] = got2
        /\ \A y \in DOMAIN xtab \ {x} : xtab'[y] = xtab[y]
        /\ \A y \in DOMAIN given \ {x} : given'[y] = given[y]
    BY <2>1, <2>3, <2>5
  <2>7. DOMAIN given = DOMAIN xres
    BY DEF Tables
  <2>. QED  BY <2>1, <2>3, <2>4, <2>6, <2>7, OneFile
<1>. QED  BY <1>1, <1>2

LEMMA xtdeadFiles ==
  ASSUME Tables, Files, NEW p \in Proc, xtdead(p), UNCHANGED <<given, revived>>
  PROVE  Files'
<1>1. DOMAIN xres' = DOMAIN xres
  BY DEF xtdead
<1>2. ASSUME NEW x \in DOMAIN xres
      PROVE  FileOK(x)'
  <2>. DEFINE b == Bury(xtab[x], p)
  <2>0. FileOK(x)
    BY DEF Files
  <2>1. CASE x \notin DOMAIN xtab
    <3>1. x \notin DOMAIN xtab' /\ xres'[x] = xres[x]
      BY <2>1 DEF xtdead
    <3>. QED  BY <2>0, <2>1, <3>1 DEF FileOK
  <2>2. CASE x \in DOMAIN xtab /\ ~AllDead(b)
    <3>1. /\ x \in DOMAIN xtab' /\ xtab'[x] = b /\ xres'[x] = xres[x]
      <4>. HIDE DEF b
      <4>1. /\ x \in DOMAIN xtab' /\ xtab'[x] = Bury(xtab[x], p) /\ xres'[x] = xres[x]
        BY <2>2 DEF xtdead, b
      <4>. QED  BY <4>1 DEF b
    <3>2. EntryOK(x, b, xres[x], given[x], revived)
      BY <2>2, OpenFile, BuriedEntry
    <3>. HIDE DEF b
    <3>. QED  BY <2>0, <2>2, <3>1, <3>2 DEF FileOK
  <2>3. CASE x \in DOMAIN xtab /\ AllDead(b)
    <3>. DEFINE file == xres[x] \o Epilogue(b)
                next == [b EXCEPT !.flags = @ \cap {"TCABORT"}]
    <3>1. /\ xres'[x] = file
          /\ x \in DOMAIN xtab' => xtab'[x] = next
      BY <2>3, Zenon DEF xtdead
    <3>2. /\ Nested(file) /\ Complete(file) /\ EntryOK(x, next, file, given[x], revived)
      BY <2>3, OpenFile, EndedEntry, Zenon
    <3>. HIDE DEF file, next
    <3>. QED  BY <2>0, <2>3, <3>1, <3>2 DEF FileOK
  <2>. QED  BY <2>1, <2>2, <2>3
<1>. QED  BY <1>1, <1>2 DEF Files

-----------------------------------------------------------------------------
(* Every step.                                                             *)

LEMMA InitFiles == Init => Files
BY DEF Init, Files

LEMMA StepFiles ==
  ASSUME Tables, Files, [Next]_vars
  PROVE  Files'
<1>1. CASE UNCHANGED vars
  BY <1>1, QuietFiles DEF vars, files
<1>2. CASE Next
  <2>1. PICK p \in Proc :
            \/ Connection(p) \/ OpXropen(p) \/ OpXrsend(p, -1) \/ TransferFile(p)
            \/ \E x \in 1..XRIDMAX : ResultsFile(p, x)
    BY <1>2 DEF Next
  <2>2. CASE Connect(p) \/ OpLogon(p) \/ OpNotLoggedOn(p)
    BY <2>2, QuietFiles DEF Connect, OpLogon, OpNotLoggedOn, Refuse, files
  <2>3. CASE OpLogoff(p)
    BY <2>3, xtdeadFiles DEF OpLogoff
  <2>4. CASE Dead(p)
    BY <2>4, xtdeadFiles DEF Dead
  <2>5. CASE OpXropen(p)
    BY <2>5, XropenFiles
  <2>6. ASSUME NEW x, OpXrsend(p, x)
        PROVE  Files'
    BY <2>6, QuietFiles DEF OpXrsend, files
  <2>7. CASE TransferFile(p)
    BY <2>7, QuietFiles DEF TransferFile, OpTfopen, OpTfclose, OpTfwrite, Refuse, files
  <2>8. CASE \E x \in 1..XRIDMAX : ResultsFile(p, x)
    <3>1. PICK x \in 1..XRIDMAX : ResultsFile(p, x)
      BY <2>8
    <3>2. CASE OpXrclose(p, x)  BY <3>2, XrcloseFiles
    <3>3. CASE OpXrsend(p, x)  BY <3>3, <2>6
    <3>4. CASE Bracket(p, x)
      BY <3>4, IcstartFiles, IcendFiles, TpstartFiles, TpendFiles DEF Bracket
    <3>5. CASE OpXres(p, x)
      BY <3>5, QuietFiles DEF OpXres, Refuse, files
    <3>6. CASE \E list \in SysLists : OpXrsys(p, x, list)
      BY <3>6, XrsysFiles
    <3>7. CASE \E r \in Results \cup {"OUTOFRANGE"} : OpResult(p, x, r)
      BY <3>7, ResultFiles
    <3>. QED  BY <3>1, <3>2, <3>3, <3>4, <3>5, <3>6, <3>7 DEF ResultsFile
  <2>. QED  BY <2>1, <2>2, <2>3, <2>4, <2>5, <2>6, <2>7, <2>8 DEF Connection
<1>. QED  BY <1>1, <1>2

-----------------------------------------------------------------------------
(* The tables of processes and transfer files.                             *)

\* tet_ptrm() takes one process out of the list.
LEMMA Removed ==
  ASSUME NEW s \in Seq(Proc), IsInjective(s), NEW k \in DOMAIN s
  PROVE  /\ RemoveAt(s, k) \in Seq(Proc) /\ IsInjective(RemoveAt(s, k))
         /\ Range(RemoveAt(s, k)) = Range(s) \ {s[k]}
<1>. DEFINE n == Len(s)
            a == SubSeq(s, 1, k - 1)
            b == SubSeq(s, k + 1, n)
            t == RemoveAt(s, k)
<1>1. n \in Nat /\ DOMAIN s = 1..n /\ k \in 1..n /\ \A i \in 1..n : s[i] \in Proc
  OBVIOUS
<1>2. /\ a \in Seq(Proc) /\ Len(a) = k - 1
      /\ \A i \in 1..k - 1 : a[i] = s[i]
  <2>1. k - 1 \in Int /\ \A i \in 1..k - 1 : s[i] \in Proc
    BY <1>1
  <2>2. /\ a \in Seq(Proc) /\ Len(a) = (IF 1 <= k - 1 THEN k - 1 - 1 + 1 ELSE 0)
        /\ \A i \in 1..k - 1 - 1 + 1 : a[i] = s[1 + i - 1]
    <3>. HIDE DEF n
    <3>. QED  BY <2>1, SubSeqProperties
  <2>3. \A i \in 1..k - 1 : i \in 1..k - 1 - 1 + 1 /\ 1 + i - 1 = i
    BY <1>1
  <2>. HIDE DEF a, n
  <2>. QED  BY <1>1, <2>2, <2>3
<1>3. /\ b \in Seq(Proc) /\ Len(b) = n - k
      /\ \A i \in 1..n - k : b[i] = s[k + i]
  <2>1. k + 1 \in Int /\ n \in Int /\ \A i \in k + 1..n : s[i] \in Proc
    BY <1>1
  <2>2. /\ b \in Seq(Proc) /\ Len(b) = (IF k + 1 <= n THEN n - (k + 1) + 1 ELSE 0)
        /\ \A i \in 1..n - (k + 1) + 1 : b[i] = s[k + 1 + i - 1]
    <3>. HIDE DEF n
    <3>. QED  BY <2>1, SubSeqProperties
  <2>3. \A i \in 1..n - k : i \in 1..n - (k + 1) + 1 /\ k + 1 + i - 1 = k + i
    BY <1>1
  <2>. HIDE DEF b, n
  <2>. QED  BY <1>1, <2>2, <2>3
<1>4. t = a \o b
  BY DEF RemoveAt
<1>. HIDE DEF n, a, b, t
<1>5. /\ t \in Seq(Proc) /\ Len(t) = n - 1 /\ DOMAIN t = 1..n - 1
      /\ \A i \in 1..k - 1 : t[i] = s[i]
      /\ \A i \in k..n - 1 : t[i] = s[i + 1]
  <2>1. /\ t \in Seq(Proc) /\ Len(t) = (k - 1) + (n - k)
        /\ \A i \in 1..(k - 1) + (n - k) : t[i] = IF i <= k - 1 THEN a[i] ELSE b[i - (k - 1)]
    BY <1>1, <1>2, <1>3, <1>4, ConcatProperties
  <2>2. ASSUME NEW i \in 1..k - 1
        PROVE  t[i] = s[i]
    BY <1>1, <1>2, <2>1
  <2>3. ASSUME NEW i \in k..n - 1
        PROVE  t[i] = s[i + 1]
    <3>1. i - (k - 1) \in 1..n - k /\ k + (i - (k - 1)) = i + 1
      BY <1>1
    <3>2. t[i] = b[i - (k - 1)]
      BY <1>1, <2>1
    <3>. QED  BY <1>3, <3>1, <3>2
  <2>. QED  BY <1>1, <2>1, <2>2, <2>3
<1>6. \A i, j \in 1..n : s[i] = s[j] => i = j
  BY <1>1 DEF IsInjective
<1>7. IsInjective(t)
  <2>1. ASSUME NEW i \in 1..n - 1, NEW j \in 1..n - 1, t[i] = t[j]
        PROVE  i = j
    <3>1. i \in 1..k - 1 \/ i \in k..n - 1
      BY <1>1
    <3>2. j \in 1..k - 1 \/ j \in k..n - 1
      BY <1>1
    <3>. QED  BY <1>1, <1>5, <1>6, <2>1, <3>1, <3>2
  <2>. QED  BY <1>5, <2>1 DEF IsInjective
<1>8. ASSUME NEW i \in 1..n - 1
      PROVE  t[i] \in Range(s) \ {s[k]}
  <2>1. CASE i \in 1..k - 1
    BY <1>1, <1>5, <1>6, <2>1 DEF Range
  <2>2. CASE i \in k..n - 1
    <3>1. i + 1 \in 1..n /\ i + 1 # k
      BY <1>1, <2>2
    <3>. QED  BY <1>1, <1>5, <1>6, <2>2, <3>1 DEF Range
  <2>. QED  BY <1>1, <2>1, <2>2
<1>9. ASSUME NEW i \in 1..n, s[i] # s[k]
      PROVE  \E j \in 1..n - 1 : t[j] = s[i]
  <2>1. CASE i \in 1..k - 1
    BY <1>1, <1>5, <2>1
  <2>2. CASE i \in k + 1..n
    <3>1. i - 1 \in k..n - 1 /\ i - 1 \in 1..n - 1 /\ (i - 1) + 1 = i
      BY <1>1, <2>2
    <3>. QED  BY <1>5, <3>1
  <2>. QED  BY <1>1, <1>9, <2>1, <2>2
<1>10. Range(t) = Range(s) \ {s[k]}
  <2>1. Range(t) = {t[i] : i \in 1..n - 1} /\ Range(s) = {s[i] : i \in 1..n}
    BY <1>1, <1>5 DEF Range
  <2>2. \A q \in Range(t) : q \in Range(s) \ {s[k]}
    BY <1>8, <2>1
  <2>3. \A q \in Range(s) \ {s[k]} : q \in Range(t)
    BY <1>9, <2>1
  <2>. QED  BY <2>2, <2>3
<1>. QED  BY <1>5, <1>7, <1>10 DEF t

LEMMA Disconnected ==
  ASSUME Tables, NEW p, Disconnect(p)
  PROVE  ptab' \in Seq(Proc) /\ IsInjective(ptab') /\ Range(ptab') = Range(ptab) \ {p}
<1>1. PICK k \in DOMAIN ptab : ptab[k] = p /\ ptab' = RemoveAt(ptab, k)
  BY DEF Disconnect
<1>. QED  BY <1>1, Removed DEF Tables

LEMMA InitTables == Init => Tables
<1>1. <<>> \in Seq(Proc) /\ IsInjective(<<>>)
  BY DEF IsInjective
<1>. QED  BY <1>1, XresdAssumption DEF Init, Tables, Rc, Range

\* The requests about files change no process.
LEMMA XrsysRest ==
  ASSUME NEW p, NEW x, NEW list, OpXrsys(p, x, list)
  PROVE  UNCHANGED <<ptab, pt_flags, sp_xrid, xrid, tftab, tfid>> /\ ptm_rc' \in Rc
<1>1. ptm_rc' \in {"INVAL", "DUPS", "XRID", "INPROGRESS", "OK"}
  BY DEF OpXrsys
<1>. QED  BY <1>1 DEF OpXrsys, Rc

\* xtdead() opens and forgets no file but those that are unused.
LEMMA xtdeadTables ==
  ASSUME NEW p, xtdead(p)
  PROVE  DOMAIN xtab' \subseteq DOMAIN xtab /\ DOMAIN xres' = DOMAIN xres
BY DEF xtdead

LEMMA tfdeadTables ==
  ASSUME NEW p, tfdead(p)
  PROVE  /\ DOMAIN tftab' = {f \in DOMAIN tftab : tftab[f] # p}
         /\ \A f \in DOMAIN tftab' : tftab'[f] = tftab[f]
BY DEF tfdead, Drop

LEMMA BracketTables ==
  ASSUME NEW p \in Proc, NEW x, Bracket(p, x)
  PROVE  /\ UNCHANGED <<ptab, pt_flags, sp_xrid, xrid, tftab, tfid>>
         /\ ptm_rc' \in Rc
         /\ DOMAIN xtab' = DOMAIN xtab /\ DOMAIN xres' = DOMAIN xres
         /\ DOMAIN given' = DOMAIN given
         /\ revived' = revived \/ (x \in DOMAIN xtab /\ revived' = revived \cup {x})
<1>1. CASE OpIcstart(p, x)  BY <1>1, IcstartCases
<1>2. CASE OpIcend(p, x)    BY <1>2, IcendCases
<1>3. CASE OpTpstart(p, x)  BY <1>3, TpstartCases
<1>4. CASE OpTpend(p, x)    BY <1>4, TpendCases
<1>. QED  BY <1>1, <1>2, <1>3, <1>4 DEF Bracket

LEMMA StepTables ==
  ASSUME Tables, Files, [Next]_vars
  PROVE  Tables'
<1>0. /\ xrid \in Nat /\ tfid \in Nat /\ xrid <= XRIDMAX /\ tfid <= TFIDMAX
      /\ XRIDMAX \in Nat /\ TFIDMAX \in Nat
  BY XresdAssumption DEF Tables
<1>1. CASE UNCHANGED vars
  BY <1>1 DEF Tables, vars, files
<1>2. CASE Next
  <2>1. PICK p \in Proc :
            \/ Connection(p) \/ OpXropen(p) \/ OpXrsend(p, -1) \/ TransferFile(p)
            \/ \E x \in 1..XRIDMAX : ResultsFile(p, x)
    BY <1>2 DEF Next
  <2>2. CASE Connect(p)
    <3>1. p \notin Range(ptab) /\ ptab' = Append(ptab, p)
      BY <2>2 DEF Connect, Connected
    <3>2. ptab' \in Seq(Proc) /\ IsInjective(ptab')
      <4>1. ptab \in Seq(Proc) /\ \A i, j \in DOMAIN ptab : ptab[i] = ptab[j] => i = j
        BY DEF Tables, IsInjective
      <4>2. \A i \in DOMAIN ptab : ptab[i] # p
        BY <3>1 DEF Range
      <4>. QED  BY <3>1, <4>1, <4>2 DEF IsInjective
    <3>3. /\ pt_flags' \in [Proc -> {"NONE", "CONNECTED", "LOGGEDON", "LOGGEDOFF"}]
          /\ sp_xrid' \in [Proc -> -1..XRIDMAX] /\ ptm_rc' \in Rc
          /\ UNCHANGED <<xtab, xrid, xres, given, revived, tftab, tfid>>
      BY <1>0, <2>2 DEF Tables, Connect, Rc, files
    <3>. QED  BY <3>2, <3>3 DEF Tables
  <2>3. CASE OpLogon(p)
    <3>1. /\ ptab' \in Seq(Proc) /\ IsInjective(ptab')
          /\ pt_flags' \in [Proc -> {"NONE", "CONNECTED", "LOGGEDON", "LOGGEDOFF"}]
      BY <2>3, Disconnected DEF Tables, OpLogon
    <3>2. /\ ptm_rc' \in Rc
          /\ UNCHANGED <<sp_xrid, xtab, xrid, xres, given, revived, tftab, tfid>>
      BY <2>3 DEF OpLogon, Rc, files
    <3>. QED  BY <3>1, <3>2 DEF Tables
  <2>4. ASSUME NEW rc \in Rc, Refuse(rc)
        PROVE  Tables'
    BY <2>4 DEF Refuse, Tables, files
  <2>5. CASE OpNotLoggedOn(p)
    BY <2>4, <2>5 DEF OpNotLoggedOn, Rc
  <2>6. CASE OpLogoff(p) \/ Dead(p)
    <3>1. /\ xtdead(p) /\ tfdead(p) /\ UNCHANGED <<sp_xrid, xrid, given, revived, tfid>>
          /\ pt_flags' = [pt_flags EXCEPT ![p] = "LOGGEDOFF"]
          /\ ptab' = ptab \/ Disconnect(p)
      BY <2>6 DEF OpLogoff, Dead
    <3>2. /\ DOMAIN xtab' \subseteq DOMAIN xtab /\ DOMAIN xres' = DOMAIN xres
          /\ DOMAIN tftab' \subseteq DOMAIN tftab
          /\ \A f \in DOMAIN tftab' : tftab'[f] = tftab[f]
      BY <3>1, xtdeadTables, tfdeadTables
    <3>3. Range(tftab') \subseteq Range(tftab)
      BY <3>2 DEF Range
    <3>4. ptm_rc' \in Rc
      BY <2>6 DEF OpLogoff, Dead, Rc
    <3>5. /\ ptab' \in Seq(Proc) /\ IsInjective(ptab')
          /\ pt_flags' \in [Proc -> {"NONE", "CONNECTED", "LOGGEDON", "LOGGEDOFF"}]
      BY <3>1, Disconnected DEF Tables
    <3>. QED  BY <3>1, <3>2, <3>3, <3>4, <3>5 DEF Tables
  <2>7. CASE OpXropen(p)
    <3>1. PICK x : x = xrid + 1
      OBVIOUS
    <3>2. /\ xrid' = x /\ x \in 1..XRIDMAX
          /\ DOMAIN xres' = DOMAIN xres \cup {x} /\ DOMAIN given' = DOMAIN given \cup {x}
          /\ DOMAIN xtab' \subseteq DOMAIN xtab \cup {x}
          /\ ptm_rc' \in Rc
          /\ UNCHANGED <<ptab, pt_flags, sp_xrid, revived, tftab, tfid>>
      BY <1>0, <2>7, <3>1 DEF OpXropen, Put, Rc
    <3>3. 1..x = (1..xrid) \cup {x} /\ x \in 0..XRIDMAX
      BY <1>0, <3>1, <3>2
    <3>. QED  BY <3>2, <3>3 DEF Tables
  <2>8. ASSUME NEW x \in -1..XRIDMAX, OpXrsend(p, x)
        PROVE  Tables'
    <3>1. sp_xrid' \in [Proc -> -1..XRIDMAX]
      BY <2>8 DEF OpXrsend, Tables
    <3>2. /\ ptm_rc' \in Rc
          /\ UNCHANGED <<ptab, pt_flags, xtab, xrid, xres, given, revived, tftab, tfid>>
      BY <2>8 DEF OpXrsend, Rc, files
    <3>. QED  BY <3>1, <3>2 DEF Tables
  <2>9. CASE TransferFile(p)
    <3>1. CASE OpTfopen(p)
      <4>1. PICK f : f = tfid + 1
        OBVIOUS
      <4>2. /\ tfid' = f /\ f \in 1..TFIDMAX
            /\ tftab' = tftab \/ tftab' = Put(tftab, f, p)
            /\ ptm_rc' \in Rc
            /\ UNCHANGED <<ptab, pt_flags, sp_xrid, xtab, xrid, xres, given, revived>>
        BY <1>0, <3>1, <4>1 DEF OpTfopen, Rc, files
      <4>3. /\ DOMAIN tftab' \subseteq DOMAIN tftab \cup {f}
            /\ Range(tftab') \subseteq Range(tftab) \cup {p}
        BY <4>2 DEF Put, Range
      <4>4. DOMAIN tftab \cup {f} \subseteq 1..f /\ f \in 0..TFIDMAX
        BY <1>0, <4>1, <4>2 DEF Tables
      <4>. QED  BY <4>2, <4>3, <4>4 DEF Tables
    <3>2. ASSUME NEW f, OpTfclose(p, f)
          PROVE  Tables'
      <4>1. /\ tftab' = Drop(tftab, {f}) /\ ptm_rc' \in Rc
            /\ UNCHANGED <<ptab, pt_flags, sp_xrid, xtab, xrid, xres, given, revived, tfid>>
        BY <3>2 DEF OpTfclose, Rc, files
      <4>2. DOMAIN tftab' \subseteq DOMAIN tftab /\ Range(tftab') \subseteq Range(tftab)
        BY <4>1 DEF Drop, Range
      <4>. QED  BY <4>1, <4>2 DEF Tables
    <3>3. ASSUME NEW f, NEW count, OpTfwrite(p, f, count)
          PROVE  Tables'
      BY <2>4, <3>3 DEF OpTfwrite, Rc
    <3>. QED  BY <2>9, <3>1, <3>2, <3>3 DEF TransferFile
  <2>10. CASE \E x \in 1..XRIDMAX : ResultsFile(p, x)
    <3>1. PICK x \in 1..XRIDMAX : ResultsFile(p, x)
      BY <2>10
    <3>2. CASE OpXrclose(p, x)
      <4>1. /\ xtab' = xtab \/ xtab' = Drop(xtab, {x})
            /\ ptm_rc' \in Rc
            /\ UNCHANGED <<ptab, pt_flags, sp_xrid, xrid, xres, given, revived, tftab, tfid>>
        BY <3>2 DEF OpXrclose, Rc
      <4>2. DOMAIN xtab' \subseteq DOMAIN xtab
        BY <4>1 DEF Drop
      <4>. QED  BY <4>1, <4>2 DEF Tables
    <3>3. CASE OpXrsend(p, x)
      <4>1. x \in -1..XRIDMAX
        BY <1>0
      <4>. QED  BY <2>8, <3>3, <4>1
    <3>4. CASE Bracket(p, x)
      <4>1. revived' \subseteq 1..xrid
        <5>1. revived' = revived \/ (x \in DOMAIN xtab /\ revived' = revived \cup {x})
          BY <3>4, BracketTables
        <5>2. x \in DOMAIN xtab => x \in 1..xrid
          BY DEF Tables
        <5>. QED  BY <5>1, <5>2 DEF Tables
      <4>2. /\ UNCHANGED <<ptab, pt_flags, sp_xrid, xrid, tftab, tfid>>
            /\ ptm_rc' \in Rc
            /\ DOMAIN xtab' = DOMAIN xtab /\ DOMAIN xres' = DOMAIN xres
            /\ DOMAIN given' = DOMAIN given
        BY <3>4, BracketTables
      <4>. QED  BY <4>1, <4>2 DEF Tables
    <3>5. CASE OpXres(p, x)
      BY <2>4, <3>5 DEF OpXres, Rc
    <3>6. CASE \E list \in SysLists : OpXrsys(p, x, list)
      <4>1. PICK list \in SysLists : OpXrsys(p, x, list)
        BY <3>6
      <4>2. DOMAIN xtab' = DOMAIN xtab /\ UNCHANGED <<xres, given, revived>>
        BY <4>1, XrsysOK
      <4>. QED  BY <4>1, <4>2, XrsysRest DEF Tables
    <3>7. CASE \E r \in Results \cup {"OUTOFRANGE"} : OpResult(p, x, r)
      <4>1. PICK r : OpResult(p, x, r)
        BY <3>7
      <4>2. DOMAIN xtab' = DOMAIN xtab /\ DOMAIN given' = DOMAIN given
        BY <4>1, ResultCases DEF Registers
      <4>3. UNCHANGED <<ptab, pt_flags, sp_xrid, xrid, xres, revived, tftab, tfid>>
            /\ ptm_rc' \in Rc
        BY <4>1, ResultCases
      <4>. QED  BY <4>2, <4>3 DEF Tables
    <3>. QED  BY <3>1, <3>2, <3>3, <3>4, <3>5, <3>6, <3>7 DEF ResultsFile
  <2>11. -1 \in -1..XRIDMAX
    BY <1>0
  <2>. QED  BY <2>1, <2>2, <2>3, <2>5, <2>6, <2>7, <2>8, <2>9, <2>10, <2>11 DEF Connection
<1>. QED  BY <1>1, <1>2

-----------------------------------------------------------------------------
(* The pointers into the table of processes.                               *)

\* the pointers of one entry
Points(x, xt) ==
    /\ xt.owner # NoProc => Ready(xt.owner)
    /\ \A k \in DOMAIN xt.ud :
        LET q == xt.ud[k].ptab
        IN  q # NoProc => /\ Ready(q) /\ sp_xrid[q] = x
                          /\ ptr_sysid[q] = xt.ud[k].sysid
                          /\ ptr_ptype[q] \in Tcm

LEMMA DanglingAs ==
  NoDanglingPtab <=> /\ \A x \in DOMAIN xtab : Points(x, xtab[x])
                     /\ \A f \in DOMAIN tftab : Ready(tftab[f])
BY Zenon DEF NoDanglingPtab, Points

\* A process that entries point at stays one.
LEMMA PointsKept ==
  ASSUME Tables, NEW x \in Nat \ {0}, NEW xt, Points(x, xt), NEW xt2,
         xt2.owner \in {xt.owner, NoProc}, DOMAIN xt2.ud = DOMAIN xt.ud,
         \A k \in DOMAIN xt.ud : /\ xt2.ud[k].sysid = xt.ud[k].sysid
                                 /\ xt2.ud[k].ptab \in {xt.ud[k].ptab, NoProc},
         \A q : Ready(q) /\ (q = xt2.owner \/ \E k \in DOMAIN xt.ud : q = xt2.ud[k].ptab) =>
                    Ready(q)' /\ (sp_xrid[q] = x => sp_xrid'[q] = x)
  PROVE  Points(x, xt2)'
<1>1. xt2.owner # NoProc => Ready(xt2.owner)'
  BY DEF Points
<1>2. ASSUME NEW k \in DOMAIN xt2.ud, xt2.ud[k].ptab # NoProc
      PROVE  LET q == xt2.ud[k].ptab
             IN  /\ Ready(q)' /\ sp_xrid'[q] = x
                 /\ ptr_sysid[q] = xt2.ud[k].sysid /\ ptr_ptype[q] \in Tcm
  <2>1. PICK q : q = xt2.ud[k].ptab
    OBVIOUS
  <2>2. q = xt.ud[k].ptab /\ k \in DOMAIN xt.ud
    BY <1>2, <2>1
  <2>3. Ready(q) /\ sp_xrid[q] = x /\ ptr_sysid[q] = xt.ud[k].sysid /\ ptr_ptype[q] \in Tcm
    BY <1>2, <2>1, <2>2 DEF Points
  <2>4. Ready(q)' /\ sp_xrid'[q] = x
    BY <2>1, <2>2, <2>3
  <2>. QED  BY <2>1, <2>2, <2>3, <2>4
<1>. QED  BY <1>1, <1>2, Zenon DEF Points

\* A request about one file leaves the other pointers alone.
LEMMA OnePoints ==
  ASSUME NoDanglingPtab, UNCHANGED <<ptab, pt_flags, sp_xrid, tftab>>, NEW x, NEW xt,
         xtab' = [xtab EXCEPT ![x] = xt], Points(x, xt)
  PROVE  NoDanglingPtab'
<1>1. \A q : Ready(q)' <=> Ready(q)
  BY DEF Ready, Connected
<1>2. \A y, e : Points(y, e)' <=> Points(y, e)
  BY <1>1 DEF Points
<1>3. ASSUME NEW y \in DOMAIN xtab'
      PROVE  Points(y, xtab[y]) /\ (xtab'[y] = xtab[y] \/ (y = x /\ xtab'[y] = xt))
  <2>1. y \in DOMAIN xtab
    OBVIOUS
  <2>. QED  BY <2>1, DanglingAs
<1>4. \A y \in DOMAIN xtab' : Points(y, xtab'[y])
  BY <1>3
<1>5. \A y \in DOMAIN xtab' : Points(y, xtab[y])'
  <2>. TAKE y \in DOMAIN xtab'
  <2>1. PICK e : e = xtab'[y]
    OBVIOUS
  <2>2. Points(y, e)'
    BY <1>2, <1>4, <2>1
  <2>. QED  BY <2>1, <2>2 DEF Points
<1>6. \A f \in DOMAIN tftab : Ready(tftab[f])
  BY DanglingAs
<1>7. \A f \in DOMAIN tftab' : Ready(tftab[f])'
  <2>. TAKE f \in DOMAIN tftab'
  <2>1. PICK q : q = tftab[f]
    OBVIOUS
  <2>2. Ready(q)'
    BY <1>1, <1>6, <2>1
  <2>. QED  BY <2>1, <2>2
<1>. QED  BY <1>5, <1>7, Zenon DEF NoDanglingPtab, Points

\* When no entry and no transfer file changes, processes may come and log on.
LEMMA ProcessPoints ==
  ASSUME Tables, NoDanglingPtab, UNCHANGED <<xtab, tftab>>,
         \A q : Ready(q) => Ready(q)',
         \A q, x : Ready(q) /\ x \in DOMAIN xtab /\ sp_xrid[q] = x => sp_xrid'[q] = x
  PROVE  NoDanglingPtab'
<1>1. \A x \in DOMAIN xtab : Points(x, xtab[x])
  BY DanglingAs
<1>2. ASSUME NEW x \in DOMAIN xtab', NEW xt, xt = xtab[x]
      PROVE  Points(x, xt)'
  <2>1. x \in DOMAIN xtab /\ Points(x, xt)
    BY <1>1, <1>2
  <2>2. x \in Nat \ {0}
    BY <2>1 DEF Tables
  <2>3. xt.owner \in {xt.owner, NoProc}
        /\ \A k \in DOMAIN xt.ud : xt.ud[k].ptab \in {xt.ud[k].ptab, NoProc}
    OBVIOUS
  <2>. QED  BY <2>1, <2>2, <2>3, PointsKept
<1>3. \A x \in DOMAIN xtab' : Points(x, xtab[x])'
  <2>. TAKE x \in DOMAIN xtab'
  <2>1. PICK xt : xt = xtab[x]
    OBVIOUS
  <2>. QED  BY <1>2, <2>1 DEF Points
<1>4. \A f \in DOMAIN tftab' : Ready(tftab[f])'
  <2>. TAKE f \in DOMAIN tftab'
  <2>1. PICK q : q = tftab[f]
    OBVIOUS
  <2>2. Ready(q)
    BY <2>1, DanglingAs
  <2>. QED  BY <2>1, <2>2
<1>. QED  BY <1>3, <1>4, Zenon DEF NoDanglingPtab, Points

LEMMA ConnectPoints ==
  ASSUME Tables, NoDanglingPtab, NEW p \in Proc, Connect(p)
  PROVE  NoDanglingPtab'
<1>1. /\ p \notin Range(ptab) /\ ptab' = Append(ptab, p)
      /\ pt_flags' = [pt_flags EXCEPT ![p] = "CONNECTED"]
      /\ sp_xrid' = [sp_xrid EXCEPT ![p] = -1] /\ UNCHANGED <<xtab, tftab>>
  BY DEF Connect, Connected, files
<1>2. Range(ptab) \subseteq Range(ptab')
  BY <1>1 DEF Range, Tables
<1>3. \A q : Ready(q) => q # p /\ q \in Proc
  BY <1>1 DEF Ready, Connected, Range, Tables
<1>4. \A q \in Proc \ {p} : pt_flags'[q] = pt_flags[q] /\ sp_xrid'[q] = sp_xrid[q]
  BY <1>1 DEF Tables
<1>5. \A q : Ready(q) => Ready(q)'
  BY <1>2, <1>3, <1>4 DEF Ready, Connected
<1>. QED  BY <1>1, <1>3, <1>4, <1>5, ProcessPoints

LEMMA LogonPoints ==
  ASSUME Tables, NoDanglingPtab, NEW p \in Proc, OpLogon(p)
  PROVE  NoDanglingPtab'
<1>1. /\ pt_flags[p] = "CONNECTED" /\ UNCHANGED <<sp_xrid, xtab, tftab>>
      /\ Disconnect(p) \/ ptab' = ptab
      /\ pt_flags' \in {pt_flags, [pt_flags EXCEPT ![p] = "LOGGEDON"]}
  BY DEF OpLogon, files
<1>2. Range(ptab) \ {p} \subseteq Range(ptab')
  BY <1>1, Disconnected
<1>3. \A q : Ready(q) => q # p /\ q \in Proc
  BY <1>1 DEF Ready, Connected, Range, Tables
<1>4. \A q \in Proc \ {p} : pt_flags'[q] = pt_flags[q]
  BY <1>1 DEF Tables
<1>5. \A q : Ready(q) => Ready(q)'
  BY <1>2, <1>3, <1>4 DEF Ready, Connected
<1>. QED  BY <1>1, <1>5, ProcessPoints

LEMMA XrsendPoints ==
  ASSUME Tables, NoDanglingPtab, NEW p \in Proc, NEW y \in Int, OpXrsend(p, y)
  PROVE  NoDanglingPtab'
<1>1. /\ UNCHANGED <<ptab, pt_flags, xtab, tftab>>
      /\ \/ sp_xrid' = sp_xrid
         \/ /\ sp_xrid[p] < 0 \/ sp_xrid[p] = y
            /\ sp_xrid' = [sp_xrid EXCEPT ![p] = y]
  BY DEF OpXrsend, files, Tables
<1>2. \A q : Ready(q) => Ready(q)'
  BY <1>1 DEF Ready, Connected
<1>3. \A q, x : Ready(q) /\ x \in DOMAIN xtab /\ sp_xrid[q] = x => sp_xrid'[q] = x
  <2>1. \A q : Ready(q) => q \in Proc
    BY DEF Ready, Connected, Range, Tables
  <2>2. \A x \in DOMAIN xtab : x \in Nat /\ ~(x < 0)
    BY DEF Tables
  <2>3. sp_xrid \in [Proc -> -1..XRIDMAX]
    BY DEF Tables
  <2>. QED  BY <1>1, <2>1, <2>2, <2>3
<1>. QED  BY <1>1, <1>2, <1>3, ProcessPoints

\* What a process that goes pointed at is let go of.
LEMMA xtdeadPoints ==
  ASSUME Tables, Files, NoDanglingPtab, NEW p \in Proc, xtdead(p), tfdead(p),
         ptab' = ptab \/ Disconnect(p),
         pt_flags' = [pt_flags EXCEPT ![p] = "LOGGEDOFF"], UNCHANGED sp_xrid
  PROVE  NoDanglingPtab'
<1>1. Range(ptab) \ {p} \subseteq Range(ptab')
  BY Disconnected
<1>2. \A q : Ready(q) => q \in Proc
  BY DEF Ready, Connected, Range, Tables
<1>3. \A q \in Proc \ {p} : pt_flags'[q] = pt_flags[q]
  BY DEF Tables
<1>4. \A q : Ready(q) /\ q # p => Ready(q)'
  BY <1>1, <1>2, <1>3 DEF Ready, Connected
<1>5. ASSUME NEW x \in DOMAIN xtab', NEW xt, xt = xtab'[x]
      PROVE  Points(x, xt)'
  <2>. DEFINE old == xtab[x]
              b   == Bury(old, p)
  <2>1. x \in DOMAIN xtab /\ xt \in {b, [b EXCEPT !.flags = @ \cap {"TCABORT"}]}
    BY <1>5 DEF xtdead
  <2>2. old \in Xtab /\ Points(x, old)
    BY <2>1, OpenFile, DanglingAs
  <2>3. x \in Nat \ {0}
    BY <2>1 DEF Tables
  <2>4. /\ b \in Xtab /\ b.owner = (IF old.owner = p THEN NoProc ELSE old.owner)
        /\ DOMAIN b.ud = DOMAIN old.ud
        /\ \A k \in DOMAIN old.ud :
              /\ b.ud[k].sysid = old.ud[k].sysid
              /\ old.ud[k].ptab # p => b.ud[k] = old.ud[k]
              /\ old.ud[k].ptab = p => b.ud[k].ptab = NoProc
    BY <2>2, BuriedFields, Zenon
  <2>5. PICK o : o = old
    OBVIOUS
  <2>. HIDE DEF b, old
  <2>6. xt.owner = b.owner /\ xt.ud = b.ud
    BY <2>1, <2>4 DEF Xtab
  <2>7. /\ xt.owner \in {o.owner, NoProc} /\ xt.owner # p
        /\ DOMAIN xt.ud = DOMAIN o.ud
        /\ \A k \in DOMAIN o.ud : /\ xt.ud[k].sysid = o.ud[k].sysid
                                  /\ xt.ud[k].ptab \in {o.ud[k].ptab, NoProc}
                                  /\ xt.ud[k].ptab # p
    BY <2>4, <2>5, <2>6, XresdAssumption
  <2>8. \A q : Ready(q) /\ (q = xt.owner \/ \E k \in DOMAIN o.ud : q = xt.ud[k].ptab) =>
                  Ready(q)' /\ (sp_xrid[q] = x => sp_xrid'[q] = x)
    BY <1>4, <2>7
  <2>9. Points(x, o)
    BY <2>2, <2>5
  <2>. QED  BY <2>3, <2>7, <2>8, <2>9, PointsKept
<1>6. \A x \in DOMAIN xtab' : Points(x, xtab[x])'
  <2>. TAKE x \in DOMAIN xtab'
  <2>1. PICK xt : xt = xtab'[x]
    OBVIOUS
  <2>. QED  BY <1>5, <2>1 DEF Points
<1>7. \A f \in DOMAIN tftab' : Ready(tftab[f])'
  <2>. TAKE f \in DOMAIN tftab'
  <2>1. PICK q : q = tftab'[f]
    OBVIOUS
  <2>2. f \in DOMAIN tftab /\ q = tftab[f] /\ q # p
    BY <2>1 DEF tfdead, Drop
  <2>3. Ready(q)
    BY <2>2, DanglingAs
  <2>4. Ready(q)'
    BY <1>4, <2>2, <2>3
  <2>. QED  BY <2>1, <2>4
<1>. QED  BY <1>6, <1>7, Zenon DEF NoDanglingPtab, Points

LEMMA XropenPoints ==
  ASSUME Tables, NoDanglingPtab, NEW p \in Proc, OpXropen(p)
  PROVE  NoDanglingPtab'
<1>1. PICK x : x = xrid + 1
  OBVIOUS
<1>. DEFINE new == [owner |-> p, ud |-> <<>>, tpcount |-> 0, flags |-> {}]
<1>2. /\ xtab' = xtab \/ xtab' = Put(xtab, x, new)
      /\ Ready(p) /\ UNCHANGED <<ptab, pt_flags, sp_xrid, tftab>>
  BY <1>1 DEF OpXropen
<1>3. Points(x, new)
  BY <1>2 DEF Points
<1>. HIDE DEF new
<1>4. \A q : Ready(q)' <=> Ready(q)
  BY <1>2 DEF Ready, Connected
<1>5. ASSUME NEW y \in DOMAIN xtab', NEW xt, xt = xtab'[y]
      PROVE  Points(y, xt)'
  <2>1. Points(y, xt)
    <3>1. (y \in DOMAIN xtab /\ xt = xtab[y]) \/ (y = x /\ xt = new)
      BY <1>2, <1>5 DEF Put
    <3>. QED  BY <1>3, <3>1, DanglingAs
  <2>. QED  BY <1>2, <1>4, <2>1 DEF Points
<1>6. \A y \in DOMAIN xtab' : Points(y, xtab[y])'
  <2>. TAKE y \in DOMAIN xtab'
  <2>1. PICK xt : xt = xtab'[y]
    OBVIOUS
  <2>. QED  BY <1>5, <2>1 DEF Points
<1>7. \A f \in DOMAIN tftab' : Ready(tftab[f])'
  <2>. TAKE f \in DOMAIN tftab'
  <2>1. PICK q : q = tftab[f]
    OBVIOUS
  <2>2. Ready(q)
    BY <1>2, <2>1, DanglingAs
  <2>3. Ready(q)'
    BY <1>4, <2>2
  <2>. QED  BY <1>2, <2>1, <2>3
<1>. QED  BY <1>6, <1>7, Zenon DEF NoDanglingPtab, Points

LEMMA XrclosePoints ==
  ASSUME NoDanglingPtab, NEW p \in Proc, NEW x, OpXrclose(p, x)
  PROVE  NoDanglingPtab'
<1>1. UNCHANGED <<ptab, pt_flags, sp_xrid, tftab>>
  BY DEF OpXrclose
<1>2. \A y \in DOMAIN xtab' : y \in DOMAIN xtab /\ xtab'[y] = xtab[y]
  BY DEF OpXrclose, Drop
<1>3. \A q : Ready(q)' <=> Ready(q)
  BY <1>1 DEF Ready, Connected
<1>4. \A y \in DOMAIN xtab' : Points(y, xtab[y])'
  <2>. TAKE y \in DOMAIN xtab'
  <2>1. PICK xt : xt = xtab[y]
    OBVIOUS
  <2>2. Points(y, xt)
    BY <1>2, <2>1, DanglingAs
  <2>3. Points(y, xt)'
    BY <1>1, <1>3, <2>2 DEF Points
  <2>. QED  BY <1>2, <2>1, <2>3 DEF Points
<1>5. \A f \in DOMAIN tftab' : Ready(tftab[f])'
  <2>. TAKE f \in DOMAIN tftab'
  <2>1. PICK q : q = tftab[f]
    OBVIOUS
  <2>2. Ready(q)
    BY <1>1, <2>1, DanglingAs
  <2>3. Ready(q)'
    BY <1>3, <2>2
  <2>. QED  BY <1>1, <2>1, <2>3
<1>. QED  BY <1>4, <1>5, Zenon DEF NoDanglingPtab, Points

LEMMA SamePoints ==
  ASSUME NoDanglingPtab, UNCHANGED <<ptab, pt_flags, sp_xrid, xtab, tftab>>
  PROVE  NoDanglingPtab'
BY DEF NoDanglingPtab, Ready, Connected

\* An entry whose pointers and systems are those of another points as it does.
LEMMA LikePoints ==
  ASSUME NEW x, NEW xt, Points(x, xt), NEW xt2, xt2.owner = xt.owner,
         DOMAIN xt2.ud = DOMAIN xt.ud,
         \A k \in DOMAIN xt.ud : /\ xt2.ud[k].sysid = xt.ud[k].sysid
                                 /\ xt2.ud[k].ptab = xt.ud[k].ptab
  PROVE  Points(x, xt2)
BY DEF Points

LEMMA XrsysPoints ==
  ASSUME Tables, Files, NoDanglingPtab, NEW p \in Proc, NEW x, NEW list \in SysLists,
         OpXrsys(p, x, list)
  PROVE  NoDanglingPtab'
<1>1. UNCHANGED <<ptab, pt_flags, sp_xrid, tftab>>
  BY XrsysRest
<1>2. CASE xtab' = xtab
  BY <1>1, <1>2, SamePoints
<1>3. CASE xtab' # xtab
  <2>. DEFINE ud == [k \in DOMAIN list |-> NewUser(list[k])]
  <2>1. x \in DOMAIN xtab /\ xtab' = [xtab EXCEPT ![x].ud = ud]
    BY <1>3, XrsysOK
  <2>2. PICK xt : xt = [xtab[x] EXCEPT !.ud = ud]
    OBVIOUS
  <2>3. \A k \in DOMAIN ud : ud[k].ptab = NoProc
    BY DEF NewUser
  <2>. HIDE DEF ud
  <2>4. xt.owner = xtab[x].owner /\ xt.ud = ud /\ xtab' = [xtab EXCEPT ![x] = xt]
    BY <2>1, <2>2, OpenFile DEF Xtab
  <2>5. Points(x, xtab[x])
    BY <2>1, DanglingAs
  <2>6. Points(x, xt)
    BY <2>3, <2>4, <2>5 DEF Points
  <2>. QED  BY <1>1, <2>4, <2>6, OnePoints
<1>. QED  BY <1>2, <1>3

LEMMA BracketPoints ==
  ASSUME Tables, Files, NoDanglingPtab, NEW p \in Proc, NEW x, Bracket(p, x)
  PROVE  NoDanglingPtab'
<1>1. UNCHANGED <<ptab, pt_flags, sp_xrid, tftab>>
  BY BracketTables
<1>2. CASE xtab' = xtab
  BY <1>1, <1>2, SamePoints
<1>. SUFFICES ASSUME xtab' # xtab
              PROVE  NoDanglingPtab'
  BY <1>2
<1>3. CASE OpIcstart(p, x)
  <2>. DEFINE ud  == [k \in DOMAIN xtab[x].ud |-> Bound(x, xtab[x].ud[k])]
              new == [xtab[x] EXCEPT !.ud = ud, !.tpcount = 0,
                                     !.flags = @ \cup {"ICINPROGRESS"}]
  <2>1. x \in DOMAIN xtab
        /\ (xtab' = [xtab EXCEPT ![x].ud = ud] \/ xtab' = [xtab EXCEPT ![x] = new])
    BY <1>3, IcstartCases, Zenon
  <2>2. xtab[x] \in Xtab /\ xtab[x].ud \in Seq(Uxtab) /\ Points(x, xtab[x])
        /\ \A k \in DOMAIN xtab[x].ud : xtab[x].ud[k] \in Uxtab
    BY <2>1, OpenFile, DanglingAs
  <2>3. DOMAIN ud = DOMAIN xtab[x].ud
        /\ \A k \in DOMAIN ud : ud[k] = Bound(x, xtab[x].ud[k])
    OBVIOUS
  <2>. HIDE DEF ud
  <2>4. PICK xt : xtab' = [xtab EXCEPT ![x] = xt] /\ xt.owner = xtab[x].owner /\ xt.ud = ud
    <3>1. CASE xtab' = [xtab EXCEPT ![x].ud = ud]
      <4>1. /\ xtab' = [xtab EXCEPT ![x] = [xtab[x] EXCEPT !.ud = ud]]
            /\ [xtab[x] EXCEPT !.ud = ud].owner = xtab[x].owner
            /\ [xtab[x] EXCEPT !.ud = ud].ud = ud
        BY <2>2, <3>1 DEF Xtab
      <4>. QED  BY <4>1
    <3>2. CASE xtab' = [xtab EXCEPT ![x] = new]
      <4>1. new.owner = xtab[x].owner /\ new.ud = ud
        BY <2>2 DEF Xtab
      <4>. HIDE DEF new
      <4>. QED  BY <3>2, <4>1
    <3>. QED  BY <2>1, <3>1, <3>2
  <2>5. ASSUME NEW k \in DOMAIN ud
        PROVE  LET q == ud[k].ptab
               IN  q # NoProc => /\ Ready(q) /\ sp_xrid[q] = x
                                 /\ ptr_sysid[q] = ud[k].sysid
                                 /\ ptr_ptype[q] \in Tcm
    <3>1. PICK up \in Uxtab : up = xtab[x].ud[k] /\ ud[k] = Bound(x, up)
      BY <2>2, <2>3
    <3>2. /\ ud[k].sysid = up.sysid
          /\ up.ptab # NoProc => ud[k] = up
          /\ ud[k].ptab # NoProc /\ up.ptab = NoProc =>
                /\ Ready(ud[k].ptab) /\ sp_xrid[ud[k].ptab] = x
                /\ ptr_sysid[ud[k].ptab] = up.sysid /\ ptr_ptype[ud[k].ptab] \in Tcm
      BY <3>1, BoundUser
    <3>3. up.ptab # NoProc =>
             /\ Ready(up.ptab) /\ sp_xrid[up.ptab] = x
             /\ ptr_sysid[up.ptab] = up.sysid /\ ptr_ptype[up.ptab] \in Tcm
      BY <2>2, <2>3, <3>1 DEF Points
    <3>. QED  BY <3>2, <3>3
  <2>6. Points(x, xt)
    BY <2>2, <2>4, <2>5 DEF Points
  <2>. QED  BY <1>1, <2>4, <2>6, OnePoints
<1>4. CASE OpIcend(p, x)
  <2>. DEFINE new == [xtab[x] EXCEPT !.flags = @ \ {"ICINPROGRESS"}]
  <2>1. x \in DOMAIN xtab /\ xtab' = [xtab EXCEPT ![x] = new]
    BY <1>4, IcendCases
  <2>2. xtab[x] \in Xtab /\ Points(x, xtab[x])
    BY <2>1, OpenFile, DanglingAs
  <2>3. new.owner = xtab[x].owner /\ new.ud = xtab[x].ud
    BY <2>2 DEF Xtab
  <2>. HIDE DEF new
  <2>4. Points(x, new)
    BY <2>2, <2>3, LikePoints
  <2>. QED  BY <1>1, <2>1, <2>4, OnePoints
<1>5. CASE OpTpstart(p, x)
  <2>. DEFINE ud  == [k \in DOMAIN xtab[x].ud |->
                        [xtab[x].ud[k] EXCEPT !.state = "NOTREPORTED", !.result = "none"]]
              new == [xtab[x] EXCEPT !.ud = ud,
                                     !.flags = (@ \ {"TCABORT"}) \cup {"TPINPROGRESS"}]
  <2>1. x \in DOMAIN xtab /\ xtab' = [xtab EXCEPT ![x] = new]
    BY <1>5, TpstartCases, Zenon
  <2>2. xtab[x] \in Xtab /\ xtab[x].ud \in Seq(Uxtab) /\ Points(x, xtab[x])
        /\ \A k \in DOMAIN xtab[x].ud : xtab[x].ud[k] \in Uxtab
    BY <2>1, OpenFile, DanglingAs
  <2>3. DOMAIN ud = DOMAIN xtab[x].ud
        /\ \A k \in DOMAIN xtab[x].ud : /\ ud[k].sysid = xtab[x].ud[k].sysid
                                        /\ ud[k].ptab = xtab[x].ud[k].ptab
    BY <2>2 DEF Uxtab
  <2>. HIDE DEF ud
  <2>4. new.owner = xtab[x].owner /\ new.ud = ud
    BY <2>2 DEF Xtab
  <2>. HIDE DEF new
  <2>5. Points(x, new)
    BY <2>2, <2>3, <2>4, LikePoints
  <2>. QED  BY <1>1, <2>1, <2>5, OnePoints
<1>6. CASE OpTpend(p, x)
  <2>. DEFINE new == [xtab[x] EXCEPT !.tpcount = @ + 1, !.flags = @ \ {"TPINPROGRESS"}]
  <2>1. x \in DOMAIN xtab /\ xtab' = [xtab EXCEPT ![x] = new]
    BY <1>6, TpendCases
  <2>2. xtab[x] \in Xtab /\ Points(x, xtab[x])
    BY <2>1, OpenFile, DanglingAs
  <2>3. new.owner = xtab[x].owner /\ new.ud = xtab[x].ud
    BY <2>2 DEF Xtab
  <2>. HIDE DEF new
  <2>4. Points(x, new)
    BY <2>2, <2>3, LikePoints
  <2>. QED  BY <1>1, <2>1, <2>4, OnePoints
<1>. QED  BY <1>3, <1>4, <1>5, <1>6 DEF Bracket

LEMMA ResultPoints ==
  ASSUME Tables, Files, NoDanglingPtab, NEW p \in Proc, NEW x, NEW r, OpResult(p, x, r)
  PROVE  NoDanglingPtab'
<1>1. UNCHANGED <<ptab, pt_flags, sp_xrid, tftab>>
  BY ResultCases
<1>2. CASE xtab' = xtab
  BY <1>1, <1>2, SamePoints
<1>3. CASE xtab' # xtab
  <2>1. x \in DOMAIN xtab /\ \E k \in DOMAIN xtab[x].ud : Registers(x, k, r)
    BY <1>3, ResultCases
  <2>2. PICK k \in DOMAIN xtab[x].ud : Registers(x, k, r)
    BY <2>1
  <2>. DEFINE up  == Registered(xtab[x].ud[k], r)
              new == [xtab[x] EXCEPT !.ud[k] = Registered(@, r),
                                     !.flags = @ \cup AbortFlag(xtab[x].ud[k], r)]
  <2>3. xtab' = [xtab EXCEPT ![x] = new]
    BY <2>2, Zenon DEF Registers
  <2>4. xtab[x] \in Xtab /\ xtab[x].ud \in Seq(Uxtab) /\ Points(x, xtab[x])
        /\ xtab[x].ud[k] \in Uxtab
    BY <2>1, <2>2, OpenFile, DanglingAs
  <2>5. up.sysid = xtab[x].ud[k].sysid /\ up.ptab = xtab[x].ud[k].ptab
    BY <2>4 DEF Registered, Uxtab
  <2>6. new = [xtab[x] EXCEPT !.ud = [xtab[x].ud EXCEPT ![k] = up],
                              !.flags = @ \cup AbortFlag(xtab[x].ud[k], r)]
    BY <2>4 DEF Xtab
  <2>. HIDE DEF up, new
  <2>7. new.owner = xtab[x].owner /\ new.ud = [xtab[x].ud EXCEPT ![k] = up]
    BY <2>4, <2>6 DEF Xtab
  <2>8. DOMAIN new.ud = DOMAIN xtab[x].ud
        /\ \A j \in DOMAIN xtab[x].ud : /\ new.ud[j].sysid = xtab[x].ud[j].sysid
                                        /\ new.ud[j].ptab = xtab[x].ud[j].ptab
    BY <2>2, <2>5, <2>7
  <2>9. Points(x, new)
    BY <2>4, <2>7, <2>8, LikePoints
  <2>. QED  BY <1>1, <2>3, <2>9, OnePoints
<1>. QED  BY <1>2, <1>3

\* op_tfopen() and op_tfclose()
LEMMA TransferPoints ==
  ASSUME NoDanglingPtab, NEW p, TransferFile(p)
  PROVE  NoDanglingPtab'
<1>1. Ready(p) /\ UNCHANGED <<ptab, pt_flags, sp_xrid, xtab>>
  BY DEF TransferFile, OpTfopen, OpTfclose, OpTfwrite, Refuse, files
<1>2. \A f \in DOMAIN tftab' : tftab'[f] = p \/ (f \in DOMAIN tftab /\ tftab'[f] = tftab[f])
  <2>1. CASE OpTfopen(p)
    BY <2>1 DEF OpTfopen, Put
  <2>2. ASSUME NEW f, OpTfclose(p, f)
        PROVE  \A g \in DOMAIN tftab' : g \in DOMAIN tftab /\ tftab'[g] = tftab[g]
    BY <2>2 DEF OpTfclose, Drop
  <2>3. ASSUME NEW f, NEW count, OpTfwrite(p, f, count)
        PROVE  tftab' = tftab
    BY <2>3 DEF OpTfwrite, Refuse
  <2>. QED  BY <2>1, <2>2, <2>3 DEF TransferFile
<1>3. \A q : Ready(q)' <=> Ready(q)
  BY <1>1 DEF Ready, Connected
<1>4. \A f \in DOMAIN tftab' : Ready(tftab[f])'
  <2>. TAKE f \in DOMAIN tftab'
  <2>1. PICK q : q = tftab'[f]
    OBVIOUS
  <2>2. Ready(q)
    BY <1>1, <1>2, <2>1, DanglingAs
  <2>3. Ready(q)'
    BY <1>3, <2>2
  <2>. QED  BY <2>1, <2>3
<1>5. \A x \in DOMAIN xtab' : Points(x, xtab[x])'
  <2>. TAKE x \in DOMAIN xtab'
  <2>1. PICK xt : xt = xtab[x]
    OBVIOUS
  <2>2. Points(x, xt)
    BY <1>1, <2>1, DanglingAs
  <2>3. Points(x, xt)'
    BY <1>1, <1>3, <2>2 DEF Points
  <2>. QED  BY <1>1, <2>1, <2>3 DEF Points
<1>. QED  BY <1>4, <1>5, Zenon DEF NoDanglingPtab, Points

-----------------------------------------------------------------------------
(* The theorems.                                                           *)

LEMMA StepPoints ==
  ASSUME Tables, Files, NoDanglingPtab, [Next]_vars
  PROVE  NoDanglingPtab'
<1>1. CASE UNCHANGED vars
  BY <1>1, SamePoints DEF vars, files
<1>2. CASE Next
  <2>1. PICK p \in Proc :
            \/ Connection(p) \/ OpXropen(p) \/ OpXrsend(p, -1) \/ TransferFile(p)
            \/ \E x \in 1..XRIDMAX : ResultsFile(p, x)
    BY <1>2 DEF Next
  <2>2. CASE Connection(p)
    <3>1. CASE Connect(p)  BY <3>1, ConnectPoints
    <3>2. CASE OpLogon(p)  BY <3>2, LogonPoints
    <3>3. CASE OpNotLoggedOn(p)
      BY <3>3, SamePoints DEF OpNotLoggedOn, Refuse, files
    <3>4. CASE OpLogoff(p)  BY <3>4, xtdeadPoints DEF OpLogoff
    <3>5. CASE Dead(p)      BY <3>5, xtdeadPoints DEF Dead
    <3>. QED  BY <2>2, <3>1, <3>2, <3>3, <3>4, <3>5 DEF Connection
  <2>3. CASE OpXropen(p)      BY <2>3, XropenPoints
  <2>4. CASE OpXrsend(p, -1)  BY <2>4, XrsendPoints
  <2>5. CASE TransferFile(p)  BY <2>5, TransferPoints
  <2>6. CASE \E x \in 1..XRIDMAX : ResultsFile(p, x)
    <3>1. PICK x \in 1..XRIDMAX : ResultsFile(p, x)
      BY <2>6
    <3>2. CASE OpXrclose(p, x)  BY <3>2, XrclosePoints
    <3>3. CASE OpXrsend(p, x)   BY <3>3, XrsendPoints
    <3>4. CASE Bracket(p, x)    BY <3>4, BracketPoints
    <3>5. CASE OpXres(p, x)
      BY <3>5, SamePoints DEF OpXres, Refuse, files
    <3>6. CASE \E list \in SysLists : OpXrsys(p, x, list)
      BY <3>6, XrsysPoints
    <3>7. CASE \E r \in Results \cup {"OUTOFRANGE"} : OpResult(p, x, r)
      BY <3>7, ResultPoints
    <3>. QED  BY <3>1, <3>2, <3>3, <3>4, <3>5, <3>6, <3>7 DEF ResultsFile
  <2>. QED  BY <2>1, <2>2, <2>3, <2>4, <2>5, <2>6
<1>. QED  BY <1>1, <1>2

\* The invariant holds in every state.
THEOREM Invariant == Spec => []IInv
<1>1. Init => IInv
  <2>1. Init => NoDanglingPtab
    BY DEF Init, NoDanglingPtab
  <2>. QED  BY <2>1, InitTables, InitFiles DEF IInv, Files
<1>2. IInv /\ [Next]_vars => IInv'
  BY StepTables, StepFiles, StepPoints DEF IInv, Files
<1>. QED  BY <1>1, <1>2, PTL DEF Spec

\* The tables of the daemon range over their types.
THEOREM TypeCorrect == Spec => []TypeOK
<1>1. IInv => TypeOK
  <2>. SUFFICES ASSUME IInv  PROVE TypeOK
    OBVIOUS
  <2>1. \A x \in DOMAIN xtab : xtab[x] \in Xtab
    BY OpenFile DEF IInv, Files
  <2>2. \A x \in DOMAIN xres : xres[x] \in Seq(Line) /\ given[x] \in Seq(SUBSET Results)
    BY DEF IInv, FileOK, Nested
  <2>. QED  BY <2>1, <2>2 DEF IInv, Tables, TypeOK
<1>. QED  BY <1>1, Invariant, PTL

\* No table points at the ptab of a process that has logged off or died.
THEOREM NoDangling == Spec => []NoDanglingPtab
<1>1. IInv => NoDanglingPtab
  BY DEF IInv
<1>. QED  BY <1>1, Invariant, PTL

\* Every results file is well formed, and complete when it has been closed or
\* abandoned, whatever the order of requests, logoffs and deaths.
THEOREM FilesWellFormed == Spec => []JournalWellFormed
<1>1. IInv => JournalWellFormed
  <2>. SUFFICES ASSUME IInv, NEW x \in DOMAIN xres
                PROVE  LET file == xres[x]
                       IN  /\ file # <<>> => file[1].code = "IC_START"
                           /\ \A j \in 2..Len(file) : file[j].code \in Follow(file[j - 1].code)
                           /\ x \notin DOMAIN xtab => Complete(file)
                           /\ x \in DOMAIN xtab =>
                                /\ InIC(xtab[x]) <=> ~Complete(file)
                                /\ InTP(xtab[x]) <=> file # <<>> /\ Last(file).code = "TP_START"
    BY Zenon DEF JournalWellFormed
  <2>1. FileOK(x)
    BY DEF IInv
  <2>. QED  BY <2>1 DEF FileOK, Nested, EntryOK
<1>. QED  BY <1>1, Invariant, PTL

\* A component in progress has a TCM that can end it, as long as the deaths of
\* TCMs are remembered.
THEOREM HasTcm == Spec => []InProgressHasTcm
<1>1. IInv => InProgressHasTcm
  <2>. SUFFICES ASSUME IInv, NEW x \in DOMAIN xtab \ revived, InIC(xtab[x])
                PROVE  Manned(xtab[x].ud)
    BY Zenon DEF InProgressHasTcm, Manned
  <2>1. EntryOK(x, xtab[x], xres[x], given[x], revived)
    BY OpenFile DEF IInv, Files
  <2>. QED  BY <2>1 DEF EntryOK
<1>. QED  BY <1>1, Invariant, PTL

-----------------------------------------------------------------------------
(* The steps that write to a file: a bracket of the MTCM writes one line,   *)
(* and the end of a connection those that the MTCM still owes.              *)

Adds(x) ==
    /\ UNCHANGED <<ptab, pt_flags>>
    /\ \E line \in Line : line.code # "TP_RESULT" /\ xres'[x] = Append(xres[x], line)

GivesVerdict(x) ==
    /\ UNCHANGED <<ptab, pt_flags>>
    /\ x \in DOMAIN xtab /\ InTP(xtab[x])
    /\ ptm_rc' = "ABORT" <=> "TCABORT" \in xtab[x].flags
    /\ xres'[x] = Append(xres[x], TpResult(xtab[x]))

Abandons(x, p) ==
    /\ pt_flags' = [pt_flags EXCEPT ![p] = "LOGGEDOFF"]
    /\ x \in DOMAIN xtab /\ AllDead(Bury(xtab[x], p))
    /\ xres'[x] = xres[x] \o Epilogue(Bury(xtab[x], p))

LEMMA BracketWrites ==
  ASSUME IInv, NEW p \in Proc, NEW y, Bracket(p, y), NEW x \in DOMAIN xres, xres'[x] # xres[x]
  PROVE  Adds(x) \/ GivesVerdict(x)
<1>0. Tables /\ Files
  BY DEF IInv, Files
<1>1. UNCHANGED <<ptab, pt_flags>>
  BY IcstartCases, IcendCases, TpstartCases, TpendCases, Zenon DEF Bracket
<1>2. CASE OpIcstart(p, y)
  <2>1. xres' = [xres EXCEPT ![y] = Append(@, Note("IC_START"))]
    BY <1>2, IcstartCases, Zenon
  <2>2. xres'[x] = Append(xres[x], Note("IC_START"))
    BY <2>1
  <2>3. Note("IC_START") \in Line /\ Note("IC_START").code # "TP_RESULT"
    BY NoteType DEF Codes
  <2>. QED  BY <1>1, <2>2, <2>3, Zenon DEF Adds
<1>3. CASE OpIcend(p, y)
  <2>1. y \in DOMAIN xtab /\ xres' = [xres EXCEPT ![y] = Append(@, IcEnd(xtab[y]))]
    BY <1>3, IcendCases, Zenon
  <2>2. x = y /\ xres'[x] = Append(xres[x], IcEnd(xtab[y]))
    BY <2>1
  <2>3. IcEnd(xtab[y]) \in Line /\ IcEnd(xtab[y]).code # "TP_RESULT"
    <3>1. xtab[y] \in Xtab
      BY <1>0, <2>1, OpenFile
    <3>. QED  BY <3>1, IcEndType
  <2>. QED  BY <1>1, <2>2, <2>3, Zenon DEF Adds
<1>4. CASE OpTpstart(p, y)
  <2>1. xres' = [xres EXCEPT ![y] = Append(@, Note("TP_START"))]
    BY <1>4, TpstartCases, Zenon
  <2>2. xres'[x] = Append(xres[x], Note("TP_START"))
    BY <2>1
  <2>3. Note("TP_START") \in Line /\ Note("TP_START").code # "TP_RESULT"
    BY NoteType DEF Codes
  <2>. QED  BY <1>1, <2>2, <2>3, Zenon DEF Adds
<1>5. CASE OpTpend(p, y)
  <2>1. /\ y \in DOMAIN xtab /\ InTP(xtab[y])
        /\ ptm_rc' = "ABORT" <=> "TCABORT" \in xtab[y].flags
        /\ xres' = [xres EXCEPT ![y] = Append(@, TpResult(xtab[y]))]
    BY <1>5, TpendCases, Zenon
  <2>2. x = y /\ xres'[x] = Append(xres[x], TpResult(xtab[y]))
    BY <2>1
  <2>. QED  BY <1>1, <2>1, <2>2, Zenon DEF GivesVerdict
<1>. QED  BY <1>2, <1>3, <1>4, <1>5 DEF Bracket

LEMMA xtdeadWrites ==
  ASSUME NEW p \in Proc, xtdead(p), pt_flags' = [pt_flags EXCEPT ![p] = "LOGGEDOFF"],
         NEW x \in DOMAIN xres, xres'[x] # xres[x]
  PROVE  Abandons(x, p)
<1>1. xres'[x] = IF x \in DOMAIN xtab /\ AllDead(Bury(xtab[x], p))
                 THEN xres[x] \o Epilogue(Bury(xtab[x], p)) ELSE xres[x]
  BY Zenon DEF xtdead
<1>. QED  BY <1>1 DEF Abandons

LEMMA StepWrites ==
  ASSUME IInv, [Next]_vars, NEW x \in DOMAIN xres, xres'[x] # xres[x]
  PROVE  Adds(x) \/ GivesVerdict(x) \/ \E p \in Proc : Abandons(x, p)
<1>1. xres' # xres
  OBVIOUS
<1>2. PICK p \in Proc :
          \/ Connection(p) \/ OpXropen(p) \/ OpXrsend(p, -1) \/ TransferFile(p)
          \/ \E y \in 1..XRIDMAX : ResultsFile(p, y)
  BY <1>1 DEF Next, vars, files
<1>3. CASE Connection(p)
  <2>1. OpLogoff(p) \/ Dead(p)
    BY <1>1, <1>3 DEF Connection, Connect, OpLogon, OpNotLoggedOn, Refuse, files
  <2>2. xtdead(p) /\ pt_flags' = [pt_flags EXCEPT ![p] = "LOGGEDOFF"]
    BY <2>1 DEF OpLogoff, Dead
  <2>. QED  BY <2>2, xtdeadWrites
<1>4. CASE OpXropen(p)
  <2>1. xrid' = xrid + 1 /\ xres' = Put(xres, xrid', <<>>)
    BY <1>4 DEF OpXropen
  <2>2. x # xrid'
    BY <2>1 DEF IInv, Tables
  <2>3. xres'[x] = xres[x]
    BY <2>1, <2>2 DEF Put
  <2>. QED  BY <2>3
<1>5. CASE OpXrsend(p, -1) \/ TransferFile(p)
  BY <1>1, <1>5 DEF OpXrsend, TransferFile, OpTfopen, OpTfclose, OpTfwrite, Refuse, files
<1>6. CASE \E y \in 1..XRIDMAX : ResultsFile(p, y)
  <2>1. PICK y \in 1..XRIDMAX : ResultsFile(p, y)
    BY <1>6
  <2>2. Bracket(p, y)
    BY <1>1, <2>1 DEF ResultsFile, OpXrclose, OpXrsend, OpXres, OpXrsys, OpResult, Refuse, files
  <2>. QED  BY <2>2, BracketWrites
<1>. QED  BY <1>2, <1>3, <1>4, <1>5, <1>6

LEMMA VerdictHolds ==
  ASSUME IInv, [Next]_vars
  PROVE  VerdictStep
<1>1. SUFFICES ASSUME NEW x \in DOMAIN xres, xres'[x] # xres[x],
                      xres'[x][Len(xres[x]) + 1].code = "TP_RESULT"
               PROVE  Consolidates(xres'[x][Len(xres[x]) + 1].result, given[x])
  BY Zenon DEF VerdictStep
<1>2. /\ Nested(xres[x]) /\ given[x] \in Seq(SUBSET Results)
      /\ x \in DOMAIN xtab => EntryOK(x, xtab[x], xres[x], given[x], revived)
      /\ xres[x] \in Seq(Line)
  BY DEF IInv, FileOK, Nested
<1>3. CASE Adds(x)
  BY <1>1, <1>2, <1>3 DEF Adds
<1>4. CASE GivesVerdict(x)
  <2>1. xtab[x] \in Xtab /\ Registering(xtab[x], given[x])
    BY <1>2, <1>4 DEF GivesVerdict, EntryOK
  <2>2. /\ TpResult(xtab[x]) \in Line
        /\ Consolidates(TpResult(xtab[x]).result, given[x])
    BY <1>2, <2>1, TpResultType
  <2>3. xres'[x][Len(xres[x]) + 1] = TpResult(xtab[x])
    BY <1>2, <1>4, <2>2 DEF GivesVerdict
  <2>. QED  BY <2>2, <2>3
<1>5. CASE \E p \in Proc : Abandons(x, p)
  <2>1. PICK p \in Proc : Abandons(x, p)
    BY <1>5
  <2>2. x \in DOMAIN xtab /\ xres'[x] = xres[x] \o Epilogue(Bury(xtab[x], p))
    BY <2>1 DEF Abandons
  <2>. DEFINE file == xres[x] \o Epilogue(Bury(xtab[x], p))
  <2>3. file # xres[x] /\ file[Len(xres[x]) + 1].code = "TP_RESULT" =>
            Consolidates(file[Len(xres[x]) + 1].result, given[x])
    BY <1>2, <2>2, EndedEntry, Zenon
  <2>. HIDE DEF file
  <2>4. xres'[x] = file
    BY <2>2 DEF file
  <2>. QED  BY <1>1, <2>3, <2>4
<1>6. Adds(x) \/ GivesVerdict(x) \/ \E p \in Proc : Abandons(x, p)
  BY <1>1, StepWrites, Zenon
<1>. QED  BY <1>3, <1>4, <1>5, <1>6

\* The line that ends a test purpose has the worst of the results registered
\* for it, whether tpend() is asked for by the MTCM or comes from xtdead().
THEOREM VerdictWorst == Spec => VerdictIsWorst
<1>1. IInv /\ [Next]_vars => [VerdictStep]_vars
  BY VerdictHolds
<1>. QED  BY <1>1, Invariant, PTL DEF Spec, VerdictIsWorst

LEMMA AbortHolds ==
  ASSUME IInv, [Next]_vars
  PROVE  AbortStep
<1>1. SUFFICES ASSUME NEW x \in DOMAIN xres, xres'[x] # xres[x],
                      Last(xres'[x]).code = "TP_RESULT"
               PROVE  ptm_rc' = "ABORT" <=> (UNION Range(given[x])) \cap AbortOn # {}
  BY Zenon DEF AbortStep
<1>2. /\ Nested(xres[x]) /\ given[x] \in Seq(SUBSET Results)
      /\ x \in DOMAIN xtab => EntryOK(x, xtab[x], xres[x], given[x], revived)
      /\ xres[x] \in Seq(Line)
  BY DEF IInv, FileOK, Nested
<1>3. CASE Adds(x)
  BY <1>1, <1>2, <1>3 DEF Adds, Last
<1>4. CASE GivesVerdict(x)
  <2>1. Registering(xtab[x], given[x])
    BY <1>2, <1>4 DEF GivesVerdict, EntryOK
  <2>. QED  BY <1>4, <2>1 DEF GivesVerdict, Registering
<1>5. CASE \E p \in Proc : Abandons(x, p)
  <2>1. PICK p \in Proc : Abandons(x, p)
    BY <1>5
  <2>2. x \in DOMAIN xtab /\ xres'[x] = xres[x] \o Epilogue(Bury(xtab[x], p))
    BY <2>1 DEF Abandons
  <2>. DEFINE file == xres[x] \o Epilogue(Bury(xtab[x], p))
  <2>3. file # xres[x] => Last(file).code = "IC_END"
    <3>1. Nested(xres[x]) /\ EntryOK(x, xtab[x], xres[x], given[x], revived)
      BY <1>2, <2>2
    <3>2. given[x] \in Seq(SUBSET Results)
      BY <1>2
    <3>3. Complete(file)
      BY <3>1, <3>2, EndedEntry, Zenon
    <3>4. file # xres[x] => file # <<>>
      <4>. DEFINE b == Bury(xtab[x], p)
      <4>1. PICK S : S = {TpResult(b), IcEnd(b)}
        OBVIOUS
      <4>2. Epilogue(b) \in Seq(S)
        <5>1. PICK r, c : r = TpResult(b) /\ c = IcEnd(b)
          OBVIOUS
        <5>2. PICK s, t : /\ s = IF InTP(b) THEN <<r>> ELSE <<>>
                          /\ t = IF InIC(b) THEN <<c>> ELSE <<>>
          OBVIOUS
        <5>3. r \in S /\ c \in S
          BY <4>1, <5>1
        <5>4. <<>> \in Seq(S) /\ <<r>> \in Seq(S) /\ <<c>> \in Seq(S)
          BY <5>3
        <5>5. s \in Seq(S) /\ t \in Seq(S)
          BY <5>2, <5>4, Zenon
        <5>. QED  BY <5>1, <5>2, <5>5 DEF Epilogue
      <4>. QED  BY <1>2, <4>2
    <3>. QED  BY <3>3, <3>4 DEF Complete
  <2>. HIDE DEF file
  <2>4. xres'[x] = file
    BY <2>2 DEF file
  <2>. QED  BY <1>1, <2>3, <2>4
<1>6. Adds(x) \/ GivesVerdict(x) \/ \E p \in Proc : Abandons(x, p)
  BY <1>1, StepWrites, Zenon
<1>. QED  BY <1>3, <1>4, <1>5, <1>6

\* The reply to OP_TPEND asks for an abort if, and only if, some result
\* registered for that test purpose does, even when it did not prevail.
THEOREM AbortTold == Spec => AbortIsTold
<1>1. IInv /\ [Next]_vars => [AbortStep]_vars
  BY AbortHolds
<1>. QED  BY <1>1, Invariant, PTL DEF Spec, AbortIsTold

LEMMA EndedHolds ==
  ASSUME IInv, [Next]_vars
  PROVE  EndedStep
<1>1. SUFFICES ASSUME NEW x \in DOMAIN xtab \ revived, EndsIc(x),
                      <<ptab, pt_flags>>' # <<ptab, pt_flags>>,
                      NEW q \in Proc, Ready(q)', NEW k \in DOMAIN xtab[x].ud
               PROVE  xtab[x].ud[k].ptab # q
  BY Zenon DEF EndedStep
<1>2. x \in DOMAIN xres /\ xres'[x] # xres[x]
  BY <1>1 DEF EndsIc
<1>3. /\ Nested(xres[x]) /\ given[x] \in Seq(SUBSET Results)
      /\ EntryOK(x, xtab[x], xres[x], given[x], revived)
  BY <1>1, <1>2 DEF IInv, FileOK
<1>4. PICK p \in Proc : Abandons(x, p)
  BY <1>1, <1>2, StepWrites, Zenon DEF Adds, GivesVerdict
<1>5. q # p
  <2>1. pt_flags' = [pt_flags EXCEPT ![p] = "LOGGEDOFF"] /\ p \in DOMAIN pt_flags
    BY <1>4 DEF Abandons, IInv, Tables
  <2>2. pt_flags'[q] = "LOGGEDON"
    BY <1>1 DEF Ready
  <2>. QED  BY <2>1, <2>2
<1>6. Manned(xtab[x].ud)
  <2>1. InIC(xtab[x])
    <3>1. xres'[x] = xres[x] \o Epilogue(Bury(xtab[x], p))
      BY <1>4 DEF Abandons
    <3>. QED  BY <1>2, <1>3, <3>1, EndedEntry, Zenon
  <2>. QED  BY <1>1, <1>3, <2>1 DEF EntryOK
<1>7. CASE xtab[x].ud[k].ptab = p
  BY <1>5, <1>7
<1>8. CASE xtab[x].ud[k].ptab # p
  <2>1. xtab[x] \in Xtab
    BY <1>3 DEF EntryOK
  <2>2. k \in DOMAIN Bury(xtab[x], p).ud /\ Bury(xtab[x], p).ud[k] = xtab[x].ud[k]
    BY <1>1, <1>8, <2>1, BuriedFields, Zenon
  <2>3. xtab[x].ud[k].state = "DEAD"
    BY <1>4, <2>2, Zenon DEF Abandons, AllDead
  <2>4. xtab[x].ud[k].ptab = NoProc
    BY <1>1, <1>6, <2>3, Zenon DEF Manned
  <2>. QED  BY <2>4, XresdAssumption
<1>. QED  BY <1>7, <1>8

\* xtdead() ends a component only when all its TCMs have gone, as long as their
\* deaths are remembered.
THEOREM EndsWhenUnused == Spec => EndedWhenUnused
<1>1. IInv /\ [Next]_vars => [EndedStep]_vars
  BY EndedHolds
<1>. QED  BY <1>1, Invariant, PTL DEF Spec, EndedWhenUnused
=============================================================================
