----------------------------- MODULE TcmProofs -----------------------------
(***************************************************************************)
(* Proofs about the test case managers for any number of TCMs, any lists   *)
(* of ICs and TPs, and any number of deaths and timeouts.                  *)
(***************************************************************************)
EXTENDS Tcm, WellFoundedInduction, TLAPS

-----------------------------------------------------------------------------
(* Facts about the operators of the model.                                 *)

\* A non-empty set of naturals has a least element, which Min() returns.
LEMMA MinNat ==
  ASSUME NEW S \in SUBSET Nat, S # {}
  PROVE  Min(S) \in S /\ \A y \in S : Min(S) <= y
<1>1. \A x, y \in Nat : <<x, y>> \in OpToRel(<, Nat) <=> x < y
  BY Zenon DEF OpToRel
<1>2. \E x \in S : \A y \in S : ~ (<<y, x>> \in OpToRel(<, Nat))
  BY NatLessThanWellFounded, WFMin, Zenon
<1>3. PICK x \in S : \A y \in S : ~ (y < x)
  <2>1. \A y \in S : y \in Nat
    OBVIOUS
  <2>. QED  BY <1>1, <1>2, <2>1, Zenon
<1>4. \A y \in S : x <= y
  BY <1>3
<1>. QED  BY <1>4 DEF Min

-----------------------------------------------------------------------------
(***************************************************************************)
(* The invariant.  It is put together from operators on the values of one  *)
(* TCM (its site p, IC i, TP n, deleted TPs D; SYNCD's record u of it and  *)
(* its reply r) and of the daemon (records d, replies r, last event l).    *)
(***************************************************************************)
Number(p, i, n) ==
    CASE p = "exec" -> SV_EXEC_SPNO
      [] p = "startup" -> MK_ASPNO(-1, 1, S_START)
      [] p = "icstart" -> MK_ASPNO(i, 0, S_START)
      [] p = "tpstart" -> MK_ASPNO(i, n, S_START)
      [] p = "tpend" -> MK_ASPNO(i, n, S_END)
      [] p = "abort" -> MK_ASPNO(tet_iclast, -1, S_END)
      [] p = "cleanup" -> MK_ASPNO(tet_iclast + 1, 1, S_START)

\* the last sync point of all ICs and TPs
LastTp == IF NIC = 0 THEN Number("startup", 0, 0) ELSE Number("tpend", NIC, tpcount[NIC])

\* the sync point before this one
Before(p, i, n) ==
    CASE p = "exec" -> 0
      [] p = "startup" -> Number("exec", 0, 0)
      [] p = "icstart" -> IF i = 1 THEN Number("startup", 0, 0)
                                   ELSE Number("tpend", i - 1, tpcount[i - 1])
      [] p = "tpstart" -> IF n = 1 THEN Number("icstart", i, 0) ELSE Number("tpend", i, n - 1)
      [] p \in {"run", "tpend", "abort"} -> Number("tpstart", i, n)
      [] p = "cleanup" -> LastTp

Placed(p, i, n) ==
    /\ p \in {"exec", "startup"} => i = 0
    /\ p = "icstart" => i \in 1..NIC
    /\ p \in {"tpstart", "run", "tpend", "abort"} => i \in 1..NIC /\ n \in 1..tpcount[i]

VoteOf(p, i, n, D) ==
    IF p = "abort" \/ (p = "tpstart" /\ <<i, n>> \in D) THEN "SYNCNO" ELSE "SYNCYES"

\* what SYNCD knows of a TCM
Known(p, i, n, D, u, r) ==
    /\ u.state = "DEAD" => r.rc = "none"
    /\ u.state # "DEAD" =>
        /\ p = "run" => r.rc = "none" /\ u.spno = Number("tpstart", i, n)
        /\ p \in Sites /\ r.rc \in {"none", "DONE"} =>
                /\ u.spno < Number(p, i, n)
                /\ p \notin {"abort", "cleanup"} => u.spno = Before(p, i, n)
        /\ p \in Sites /\ r.rc \notin {"none", "DONE"} => u.spno = Number(p, i, n)
        /\ r.rc = "wait" => u.state \in {VoteOf(p, i, n, D), "TIMEDOUT"}

\* all others had voted in the event that t has been told of
Good(r, t) == \/ r[t].rc = "OK"
              \/ r[t].rc \in Errors /\ \A u \in TCM \ {t} : r[t].state[u] \in Expected

Dead(d) == \E t \in TCM : d[t].state = "DEAD"

Daemon(d, r, l) ==
    /\ l = SPMAX => Dead(d)
    /\ l < SPMAX => \A t \in TCM :
            /\ Voted(d[t]) => d[t].spno > l /\ r[t].rc = "wait"
            /\ d[t].state = "NOTSYNCED" /\ d[t].ntimedout = 0 /\ r[t].rc # "DONE" => d[t].spno >= l
    /\ \A t \in TCM : Good(r, t) =>
            /\ d[t].state = "NOTSYNCED" /\ d[t].spno <= l
            /\ \A u \in TCM : d[u].spno >= d[t].spno

\* everybody has got to where f says, and there has been an event
Floor(d, l, f) == f <= l /\ \A u \in TCM : f <= d[u].spno

\* a TP is not invoked after t has been told that it may be
MayInvoke(r, t) == \/ r[t].rc = "OK"
                   \/ r[t].rc \in Errors /\ \A u \in TCM \ {t} : r[t].state[u] = "SYNCYES"

TpStart(x) == Number("tpstart", x[1], x[2])

\* each TCM in turn
AllKnown(d, r) == \A t \in TCM : Known(pc[t], ic[t], tp[t], deleted[t], d[t], r[t])

Control ==
    /\ \A t \in TCM : pc[t] = "exit" <=> ud[t].state = "DEAD"
    /\ \A t \in TCM : Placed(pc[t], ic[t], tp[t])
    /\ AllKnown(ud, reply)
    /\ \A t \in TCM : pc[t] = "abort" => t = Master /\ xr.abort
    /\ \A t \in TCM : pc[t] \in (Sites \ {"cleanup"}) \cup {"run"} =>
                            Floor(ud, lastspno, Before(pc[t], ic[t], tp[t]))

Core == TypeOK /\ Control /\ Daemon(ud, reply, lastspno)

-----------------------------------------------------------------------------
(* Sync points.                                                            *)

LEMMA Maxima ==
  /\ SPMAX \in Nat /\ S_TPMAX \in Nat
  /\ S_TPMAX = 32768 /\ SPMAX = 2147483647
BY DEF SPMAX, S_TPMAX

LEMMA SpnoRange ==
  /\ SPMAX \in Nat /\ 0 \in 0..SPMAX /\ SPMAX \in 0..SPMAX
  /\ \A x \in 0..SPMAX : x \in Nat /\ x <= SPMAX
  /\ \A x \in Nat : x <= SPMAX => x \in 0..SPMAX
<1>1. SPMAX \in Nat
  BY Maxima
<1>2. ASSUME NEW m \in Nat
      PROVE  /\ 0 \in 0..m /\ m \in 0..m
             /\ \A x \in 0..m : x \in Nat /\ x <= m
             /\ \A x \in Nat : x <= m => x \in 0..m
  OBVIOUS
<1>. QED  BY <1>1, <1>2

\* the bounds of Placed
LEMMA Bounds ==
  /\ NIC \in Nat /\ NIC <= 32765
  /\ \A i \in 1..NIC : tpcount[i] \in Nat /\ 1 <= tpcount[i] /\ tpcount[i] <= 32766
<1>1. NIC \in Nat /\ NIC < S_TPMAX - 2
  BY TcmAssumption
<1>2. \A i \in 1..NIC : tpcount[i] \in Nat /\ 1 <= tpcount[i] /\ tpcount[i] <= S_TPMAX - 2
  <2>1. S_TPMAX \in Nat
    BY Maxima
  <2>. QED  BY <2>1, TcmAssumption
<1>3. S_TPMAX = 32768
  BY Maxima
<1>. QED  BY <1>1, <1>2, <1>3

LEMMA NumberIs ==
  /\ \A i, n : Number("exec", i, n) = 1 /\ Number("startup", i, n) = 2
  /\ \A i \in Nat : \A n : Number("icstart", i, n) = (i + 1) * 65536
  /\ \A i, n \in Nat : n <= 32766 =>
        /\ Number("tpstart", i, n) = (i + 1) * 65536 + n * 2
        /\ Number("tpend", i, n) = (i + 1) * 65536 + n * 2 + 1
  /\ \A i, n : Number("abort", i, n) = (NIC + 1) * 65536 + 65535
  /\ \A i, n : Number("cleanup", i, n) = (NIC + 2) * 65536 + 2
<1>1. /\ (1 + 32768) % 32768 = 1 /\ (0 + 32768) % 32768 = 0
      /\ (-1 + 32768) % 32768 = 32767
      /\ \A n \in Nat : n <= 32766 => (n + 32768) % 32768 = n
  OBVIOUS
<1>2. NIC \in Nat
  BY TcmAssumption
<1>3. /\ \A i \in Int, f \in {0, 1} : MK_ASPNO(i, 1, f) = (i + 1) * 65536 + 2 + f
      /\ \A i \in Int, f \in {0, 1} : MK_ASPNO(i, 0, f) = (i + 1) * 65536 + f
      /\ \A i \in Int, f \in {0, 1} : MK_ASPNO(i, -1, f) = (i + 1) * 65536 + 65534 + f
      /\ \A i \in Int, n \in Nat, f \in {0, 1} :
            n <= 32766 => MK_ASPNO(i, n, f) = (i + 1) * 65536 + n * 2 + f
  <2>1. \A i \in Int : \A n, f : MK_ASPNO(i, n, f) = (i + 1) * 2 * 32768 + ((n + 32768) % 32768) * 2 + f
    BY DEF MK_ASPNO, S_TPMAX
  <2>. QED  BY <1>1, <2>1
<1>4. \A i, n : /\ Number("exec", i, n) = 1
                /\ Number("startup", i, n) = MK_ASPNO(-1, 1, 0)
                /\ Number("icstart", i, n) = MK_ASPNO(i, 0, 0)
                /\ Number("tpstart", i, n) = MK_ASPNO(i, n, 0)
                /\ Number("tpend", i, n) = MK_ASPNO(i, n, 1)
                /\ Number("abort", i, n) = MK_ASPNO(NIC, -1, 1)
                /\ Number("cleanup", i, n) = MK_ASPNO(NIC + 1, 1, 0)
  BY DEF Number, S_START, S_END, SV_EXEC_SPNO, tet_iclast
<1>5. \A i, n : Number("exec", i, n) = 1 /\ Number("startup", i, n) = 2
  BY <1>3, <1>4
<1>6. \A i \in Nat : \A n : Number("icstart", i, n) = (i + 1) * 65536
  BY <1>3, <1>4
<1>7. \A i, n \in Nat : n <= 32766 =>
        /\ Number("tpstart", i, n) = (i + 1) * 65536 + n * 2
        /\ Number("tpend", i, n) = (i + 1) * 65536 + n * 2 + 1
  BY <1>3, <1>4
<1>8. \A i, n : Number("abort", i, n) = (NIC + 1) * 65536 + 65535
  BY <1>2, <1>3, <1>4
<1>9. \A i, n : Number("cleanup", i, n) = (NIC + 2) * 65536 + 2
  BY <1>2, <1>3, <1>4
<1>. QED  BY <1>5, <1>6, <1>7, <1>8, <1>9

LEMMA SpnoIs ==
  ASSUME NEW t, pc[t] \in Sites
  PROVE  Spno(t) = Number(pc[t], ic[t], tp[t])
BY DEF Spno, Number, Sites

LEMMA VoteIs ==
  ASSUME NEW t
  PROVE  Vote(t) = VoteOf(pc[t], ic[t], tp[t], deleted[t])
BY DEF Vote, VoteOf, tet_reason, This

LEMMA TpendIs ==
  ASSUME NEW i \in Nat, NEW n \in Nat, n <= 32766
  PROVE  Number("tpend", i, n) = (i + 1) * 65536 + n * 2 + 1
BY NumberIs

\* the numbers of a site and of the one before it
LEMMA SiteIs ==
  ASSUME NEW p, NEW i \in 0..NIC, NEW n \in Nat, Placed(p, i, n)
  PROVE  /\ p = "exec" => Number(p, i, n) = 1 /\ Before(p, i, n) = 0
         /\ p = "startup" => Number(p, i, n) = 2 /\ Before(p, i, n) = 1
         /\ p = "icstart" => /\ i \in Nat /\ 1 <= i /\ i <= NIC
                             /\ Number(p, i, n) = (i + 1) * 65536
                             /\ i = 1 => Before(p, i, n) = 2
                             /\ i # 1 => Before(p, i, n) = i * 65536 + tpcount[i - 1] * 2 + 1
         /\ p \in {"tpstart", "run", "tpend", "abort"} =>
                /\ i \in Nat /\ 1 <= i /\ i <= NIC
                /\ 1 <= n /\ n <= tpcount[i] /\ tpcount[i] \in Nat /\ tpcount[i] <= 32766
         /\ p = "tpstart" => /\ Number(p, i, n) = (i + 1) * 65536 + n * 2
                             /\ n = 1 => Before(p, i, n) = (i + 1) * 65536
                             /\ n # 1 => Before(p, i, n) = (i + 1) * 65536 + n * 2 - 1
         /\ p \in {"run", "tpend", "abort"} => /\ Before(p, i, n) = (i + 1) * 65536 + n * 2
                                               /\ Before(p, i, n) = Number("tpstart", i, n)
         /\ p = "tpend" => Number(p, i, n) = (i + 1) * 65536 + n * 2 + 1
         /\ p = "abort" => Number(p, i, n) = (NIC + 1) * 65536 + 65535
         /\ p = "cleanup" => Number(p, i, n) = (NIC + 2) * 65536 + 2 /\ Before(p, i, n) = LastTp
         /\ NIC = 0 => LastTp = 2
         /\ NIC # 0 => LastTp = (NIC + 1) * 65536 + tpcount[NIC] * 2 + 1
<1>1. NIC \in Nat /\ NIC <= 32765
  BY Bounds
<1>2. p = "exec" => Number(p, i, n) = 1 /\ Before(p, i, n) = 0
  BY NumberIs DEF Before
<1>3. p = "startup" => Number(p, i, n) = 2 /\ Before(p, i, n) = 1
  BY NumberIs DEF Before
<1>4. p = "icstart" => /\ i \in Nat /\ 1 <= i /\ i <= NIC
                       /\ Number(p, i, n) = (i + 1) * 65536
                       /\ i = 1 => Before(p, i, n) = 2
                       /\ i # 1 => Before(p, i, n) = i * 65536 + tpcount[i - 1] * 2 + 1
  <2>1. SUFFICES ASSUME p = "icstart"
                 PROVE  /\ i \in Nat /\ 1 <= i /\ i <= NIC
                        /\ Number(p, i, n) = (i + 1) * 65536
                        /\ i = 1 => Before(p, i, n) = 2
                        /\ i # 1 => Before(p, i, n) = i * 65536 + tpcount[i - 1] * 2 + 1
    OBVIOUS
  <2>2. i \in Nat /\ 1 <= i /\ i <= NIC
    BY <1>1, <2>1 DEF Placed
  <2>3. i # 1 => Before(p, i, n) = Number("tpend", i - 1, tpcount[i - 1])
    BY <2>1 DEF Before
  <2>4. i # 1 => i - 1 \in Nat /\ i - 1 \in 1..NIC
    BY <1>1, <2>2
  <2>5. i # 1 => Number("tpend", i - 1, tpcount[i - 1]) = ((i - 1) + 1) * 65536 + tpcount[i - 1] * 2 + 1
    <3>1. i # 1 => tpcount[i - 1] \in Nat /\ tpcount[i - 1] <= 32766
      BY <2>4, Bounds
    <3>. QED  BY <2>4, <3>1, TpendIs
  <2>6. i = 1 => Before(p, i, n) = 2
    BY <2>1, NumberIs DEF Before
  <2>. QED  BY <2>1, <2>2, <2>3, <2>5, <2>6, NumberIs
<1>5. p \in {"tpstart", "run", "tpend", "abort"} =>
          /\ i \in Nat /\ 1 <= i /\ i <= NIC
          /\ 1 <= n /\ n <= tpcount[i] /\ tpcount[i] \in Nat /\ tpcount[i] <= 32766
  BY <1>1, Bounds DEF Placed
<1>6. ASSUME p = "tpstart"
      PROVE  /\ Number(p, i, n) = (i + 1) * 65536 + n * 2
             /\ n = 1 => Before(p, i, n) = (i + 1) * 65536
             /\ n # 1 => Before(p, i, n) = (i + 1) * 65536 + n * 2 - 1
  <2>1. Before(p, i, n) = IF n = 1 THEN Number("icstart", i, 0) ELSE Number("tpend", i, n - 1)
    BY <1>6 DEF Before
  <2>2. n # 1 => n - 1 \in Nat /\ n - 1 <= 32766
    BY <1>5, <1>6
  <2>3. n # 1 => Number("tpend", i, n - 1) = (i + 1) * 65536 + (n - 1) * 2 + 1
    BY <1>5, <1>6, <2>2, NumberIs
  <2>. QED  BY <1>5, <1>6, <2>1, <2>3, NumberIs
<1>7. p \in {"run", "tpend", "abort"} => /\ Before(p, i, n) = (i + 1) * 65536 + n * 2
                                         /\ Before(p, i, n) = Number("tpstart", i, n)
  <2>1. p \in {"run", "tpend", "abort"} => Before(p, i, n) = Number("tpstart", i, n)
    BY DEF Before
  <2>. QED  BY <1>5, <2>1, NumberIs
<1>8. p = "tpend" => Number(p, i, n) = (i + 1) * 65536 + n * 2 + 1
  BY <1>5, NumberIs
<1>9. p = "abort" => Number(p, i, n) = (NIC + 1) * 65536 + 65535
  BY NumberIs
<1>10. p = "cleanup" => Number(p, i, n) = (NIC + 2) * 65536 + 2 /\ Before(p, i, n) = LastTp
  BY NumberIs DEF Before
<1>11. NIC = 0 => LastTp = 2
  BY NumberIs DEF LastTp
<1>12. NIC # 0 => LastTp = (NIC + 1) * 65536 + tpcount[NIC] * 2 + 1
  <2>1. NIC # 0 => NIC \in 1..NIC
    BY <1>1
  <2>2. NIC # 0 => tpcount[NIC] \in Nat /\ tpcount[NIC] <= 32766
    BY <2>1, Bounds
  <2>3. NIC # 0 => LastTp = Number("tpend", NIC, tpcount[NIC])
    BY DEF LastTp
  <2>4. NIC # 0 => Number("tpend", NIC, tpcount[NIC]) = (NIC + 1) * 65536 + tpcount[NIC] * 2 + 1
    <3>1. SUFFICES ASSUME NIC # 0
                   PROVE  Number("tpend", NIC, tpcount[NIC]) = (NIC + 1) * 65536 + tpcount[NIC] * 2 + 1
      OBVIOUS
    <3>2. NIC \in Nat /\ tpcount[NIC] \in Nat /\ tpcount[NIC] <= 32766
      BY <1>1, <2>2, <3>1
    <3>. QED  BY <3>2, TpendIs
  <2>. QED  BY <2>3, <2>4
<1>. QED  BY <1>2, <1>3, <1>4, <1>5, <1>6, <1>7, <1>8, <1>9, <1>10, <1>11, <1>12

LEMMA NumberType ==
  ASSUME NEW p \in Sites, NEW i \in 0..NIC, NEW n \in Nat, Placed(p, i, n)
  PROVE  /\ Number(p, i, n) \in Nat /\ 1 <= Number(p, i, n) /\ Number(p, i, n) < SPMAX
         /\ Before(p, i, n) \in Nat /\ Before(p, i, n) < Number(p, i, n)
         /\ p # "cleanup" => Number(p, i, n) < Number("cleanup", 0, 0)
<1>1. /\ SPMAX = 2147483647 /\ NIC \in Nat /\ NIC <= 32765
      /\ \A j \in Nat : 1 <= j /\ j <= NIC =>
            tpcount[j] \in Nat /\ 1 <= tpcount[j] /\ tpcount[j] <= 32766
  BY Maxima, Bounds
<1>2. Number("cleanup", 0, 0) = (NIC + 2) * 65536 + 2
  BY NumberIs
<1>3. CASE p = "icstart"
  <2>1. i # 1 => tpcount[i - 1] \in Nat /\ tpcount[i - 1] <= 32766
    BY <1>1, <1>3, SiteIs
  <2>. QED  BY <1>1, <1>2, <1>3, <2>1, SiteIs
<1>4. CASE p = "cleanup"
  BY <1>1, <1>2, <1>4, SiteIs
<1>5. CASE p \in {"exec", "startup"}
  BY <1>1, <1>2, <1>5, SiteIs
<1>6. CASE p \in {"tpstart", "tpend", "abort"}
  BY <1>1, <1>2, <1>6, SiteIs
<1>. QED  BY <1>3, <1>4, <1>5, <1>6 DEF Sites

\* No sync point lies between one of an IC or a TP and the one before it.
LEMMA Between ==
  ASSUME NEW p \in Sites \ {"abort"}, NEW i \in 0..NIC, NEW n \in Nat, Placed(p, i, n),
         NEW q \in Sites \ {"abort"}, NEW j \in 0..NIC, NEW m \in Nat, Placed(q, j, m)
  PROVE  Number(q, j, m) <= Before(p, i, n) \/ Number(q, j, m) >= Number(p, i, n)
<1>1. /\ NIC \in Nat
      /\ \A k \in Nat : 1 <= k /\ k <= NIC =>
            tpcount[k] \in Nat /\ 1 <= tpcount[k] /\ tpcount[k] <= 32766
  BY Bounds
<1>2. CASE p \in {"exec", "startup"}
  <2>1. p = "startup" /\ q # "startup" => Number(q, j, m) # 2
    BY <1>1, SiteIs DEF Sites
  <2>2. Number(q, j, m) \in Nat /\ 1 <= Number(q, j, m)
    BY NumberType
  <2>. QED  BY <1>2, <2>1, <2>2, SiteIs
<1>3. CASE p = "icstart"
  <2>1. i # 1 => i - 1 \in Nat /\ 1 <= i - 1 /\ i - 1 <= NIC
    BY <1>1, <1>3, SiteIs
  <2>2. CASE q \in {"exec", "startup", "cleanup"}
    BY <1>1, <1>3, <2>1, <2>2, SiteIs
  <2>3. CASE q = "icstart"
    BY <1>1, <1>3, <2>1, <2>3, SiteIs
  <2>4. CASE q \in {"tpstart", "tpend"}
    <3>1. CASE j >= i
      BY <1>1, <1>3, <2>4, <3>1, SiteIs
    <3>2. CASE j < i
      <4>1. i # 1 /\ (j = i - 1 => tpcount[j] = tpcount[i - 1])
        BY <1>1, <2>4, <3>2, SiteIs
      <4>. QED  BY <1>1, <1>3, <2>1, <2>4, <3>2, <4>1, SiteIs
    <3>. QED  BY <1>1, <3>1, <3>2
  <2>. QED  BY <2>2, <2>3, <2>4 DEF Sites
<1>4. CASE p = "tpstart"
  <2>1. CASE q \in {"exec", "startup", "icstart", "cleanup"}
    BY <1>1, <1>4, <2>1, SiteIs
  <2>2. CASE q \in {"tpstart", "tpend"}
    BY <1>1, <1>4, <2>2, SiteIs
  <2>. QED  BY <2>1, <2>2 DEF Sites
<1>5. CASE p = "tpend"
  <2>1. CASE q \in {"exec", "startup", "icstart", "cleanup"}
    BY <1>1, <1>5, <2>1, SiteIs
  <2>2. CASE q \in {"tpstart", "tpend"}
    BY <1>1, <1>5, <2>2, SiteIs
  <2>. QED  BY <2>1, <2>2 DEF Sites
<1>6. CASE p = "cleanup"
  <2>1. CASE q \in {"exec", "startup", "icstart", "cleanup"}
    <3>1. NIC # 0 => tpcount[NIC] \in Nat /\ 1 <= tpcount[NIC]
      BY <1>1
    <3>. QED  BY <1>1, <1>6, <2>1, <3>1, SiteIs
  <2>2. CASE q \in {"tpstart", "tpend"}
    <3>1. NIC # 0 /\ (j = NIC => tpcount[j] = tpcount[NIC]) /\ tpcount[NIC] \in Nat /\ 1 <= tpcount[NIC]
      BY <1>1, <2>2, SiteIs
    <3>. QED  BY <1>1, <1>6, <2>2, <3>1, SiteIs
  <2>. QED  BY <2>1, <2>2 DEF Sites
<1>. QED  BY <1>2, <1>3, <1>4, <1>5, <1>6 DEF Sites

\* A sync point tells the site, the IC and the TP.
LEMMA SameNumber ==
  ASSUME NEW p \in Sites, NEW i \in 0..NIC, NEW n \in Nat, Placed(p, i, n),
         NEW q \in Sites, NEW j \in 0..NIC, NEW m \in Nat, Placed(q, j, m),
         Number(p, i, n) = Number(q, j, m)
  PROVE  p = q /\ (p \in {"tpstart", "tpend"} => i = j /\ n = m)
<1>1. NIC \in Nat
  BY Bounds
<1>2. CASE p \in {"tpstart", "tpend"} /\ q \in {"tpstart", "tpend"}
  BY <1>1, <1>2, SiteIs
<1>3. CASE p \notin {"tpstart", "tpend"} /\ q \in {"tpstart", "tpend"}
  BY <1>1, <1>3, SiteIs DEF Sites
<1>4. CASE p \in {"tpstart", "tpend"} /\ q \notin {"tpstart", "tpend"}
  BY <1>1, <1>4, SiteIs DEF Sites
<1>5. CASE p \notin {"tpstart", "tpend"} /\ q \notin {"tpstart", "tpend"}
  BY <1>1, <1>5, SiteIs DEF Sites
<1>. QED  BY <1>2, <1>3, <1>4, <1>5

-----------------------------------------------------------------------------
(* SYNCD's event.                                                          *)

Users == [TCM -> [state : UserState, spno : 0..SPMAX, ntimedout : Nat]]
Replies == [TCM -> [rc : {"none", "wait", "OK"} \cup Bad, state : [TCM -> UserState]]]

\* what stcheck() makes of d, r and l, if an event happens and if none does
Event(d, r, l, d2, r2, l2) ==
    /\ Happened(d) => /\ l2 = LastSpno(d)
                      /\ d2 = [t \in TCM |-> UserAfter(d, t)]
                      /\ r2 = [t \in TCM |-> IF r[t].rc = "wait" /\ Voted(d[t]) /\ d[t].spno <= LastSpno(d)
                                             THEN synmsg(d, t) ELSE r[t]]
    /\ ~Happened(d) => d2 = d /\ r2 = r /\ l2 = l

LEMMA StcheckIs ==
  ASSUME NEW d, NEW r, stcheck(d, r)
  PROVE  Event(d, r, lastspno, ud', reply', lastspno')
BY Zenon DEF stcheck, Event

\* the event's sync point is the lowest one asked for
LEMMA EventSpnoIs ==
  ASSUME NEW d \in Users
  PROVE  /\ EventSpno(d) \in 0..SPMAX
         /\ \A t \in TCM : Voted(d[t]) => EventSpno(d) <= d[t].spno
         /\ (\E t \in TCM : Voted(d[t])) => \E t \in TCM : Voted(d[t]) /\ EventSpno(d) = d[t].spno
         /\ (\A t \in TCM : ~Voted(d[t])) => EventSpno(d) = 0
<1>. DEFINE S == {d[t].spno : t \in {u \in TCM : Voted(d[u])}}
<1>1. EventSpno(d) = IF S = {} THEN 0 ELSE Min(S)
  BY DEF EventSpno
<1>2. \A t \in TCM : d[t].spno \in 0..SPMAX
  BY DEF Users
<1>3. \A x \in S : x \in 0..SPMAX
  BY <1>2
<1>4. S \in SUBSET Nat
  BY <1>3, SpnoRange
<1>5. CASE S = {}
  BY <1>1, <1>5, SpnoRange
<1>6. CASE S # {}
  <2>1. Min(S) \in S /\ \A y \in S : Min(S) <= y
    BY <1>4, <1>6, MinNat
  <2>2. EventSpno(d) = Min(S)
    BY <1>1, <1>6
  <2>3. PICK t \in TCM : Voted(d[t]) /\ Min(S) = d[t].spno
    BY <2>1
  <2>. QED  BY <1>3, <2>1, <2>2, <2>3
<1>. QED  BY <1>5, <1>6

User == [state : UserState, spno : 0..SPMAX, ntimedout : Nat]
Message == [rc : {"none", "wait", "OK"} \cup Bad, state : [TCM -> UserState]]
SomeTimedOut(d) == \E u \in TCM : d[u].state = "TIMEDOUT"

LEMMA UserAfterIs ==
  ASSUME NEW d \in Users, NEW t \in TCM
  PROVE  /\ UserAfter(d, t) \in User
         /\ UserAfter(d, t).spno = d[t].spno
         /\ Voted(d[t]) /\ d[t].spno <= EventSpno(d) =>
                UserAfter(d, t).state = "NOTSYNCED" /\ UserAfter(d, t).ntimedout = d[t].ntimedout
         /\ d[t].state = "NOTSYNCED" /\ SomeTimedOut(d) =>
                UserAfter(d, t).state = "NOTSYNCED" /\ UserAfter(d, t).ntimedout = d[t].ntimedout + 1
         /\ ~(Voted(d[t]) /\ d[t].spno <= EventSpno(d)) /\ ~(d[t].state = "NOTSYNCED" /\ SomeTimedOut(d)) =>
                UserAfter(d, t) = d[t]
<1>. DEFINE e == EventSpno(d)
<1>0. d[t] \in User
  BY Zenon DEF Users, User
<1>1. d[t].state \in UserState /\ d[t].ntimedout \in Nat
  BY <1>0 DEF User
<1>2. UserAfter(d, t) = CASE Voted(d[t]) /\ d[t].spno <= e -> [d[t] EXCEPT !.state = "NOTSYNCED"]
                          [] d[t].state = "NOTSYNCED" /\ SomeTimedOut(d) -> [d[t] EXCEPT !.ntimedout = @ + 1]
                          [] OTHER -> d[t]
  BY Zenon DEF UserAfter, SomeTimedOut
<1>. HIDE DEF e
<1>3. ~(Voted(d[t]) /\ d[t].state = "NOTSYNCED")
  BY DEF Voted
<1>4. CASE Voted(d[t]) /\ d[t].spno <= e
  <2>1. UserAfter(d, t) = [d[t] EXCEPT !.state = "NOTSYNCED"]
    BY <1>2, <1>3, <1>4
  <2>2. "NOTSYNCED" \in UserState
    BY DEF UserState
  <2>3. [d[t] EXCEPT !.state = "NOTSYNCED"] \in User
    BY <1>0, <2>2 DEF User
  <2>4. UserAfter(d, t).state = "NOTSYNCED" /\ UserAfter(d, t).ntimedout = d[t].ntimedout
        /\ UserAfter(d, t).spno = d[t].spno
    BY <1>0, <2>1 DEF User
  <2>. QED  BY <1>3, <1>4, <2>1, <2>3, <2>4 DEF e
<1>5. CASE d[t].state = "NOTSYNCED" /\ SomeTimedOut(d)
  <2>1. UserAfter(d, t) = [d[t] EXCEPT !.ntimedout = @ + 1]
    BY <1>2, <1>3, <1>5
  <2>2. [d[t] EXCEPT !.ntimedout = @ + 1] \in User
    BY <1>0, <1>1 DEF User
  <2>3. UserAfter(d, t).state = "NOTSYNCED" /\ UserAfter(d, t).ntimedout = d[t].ntimedout + 1
        /\ UserAfter(d, t).spno = d[t].spno
    BY <1>0, <1>5, <2>1 DEF User
  <2>. QED  BY <1>3, <1>5, <2>1, <2>2, <2>3 DEF e
<1>6. CASE ~(Voted(d[t]) /\ d[t].spno <= e) /\ ~(d[t].state = "NOTSYNCED" /\ SomeTimedOut(d))
  <2>1. UserAfter(d, t) = d[t]
    BY <1>2, <1>6
  <2>. QED  BY <1>0, <1>6, <2>1 DEF e
<1>. QED  BY <1>4, <1>5, <1>6

LEMMA SynmsgIs ==
  ASSUME NEW d \in Users, NEW t \in TCM
  PROVE  /\ synmsg(d, t) \in Message
         /\ synmsg(d, t).rc \in {"OK"} \cup Errors
         /\ synmsg(d, t).rc = "OK" <=> ~Failure(d)
         /\ d[t].state # "TIMEDOUT" => synmsg(d, t).rc # "TIMEDOUT"
         /\ Failure(d) => \A u \in TCM : synmsg(d, t).state[u] = d[u].state
<1>1. \A u \in TCM : d[u].state \in UserState
  BY DEF Users
<1>2. synmsg(d, t).rc = IF ~Failure(d) THEN "OK"
                        ELSE IF d[t].state = "TIMEDOUT" THEN "TIMEDOUT" ELSE "SYNCERR"
  BY Zenon DEF synmsg
<1>3. synmsg(d, t).state = [u \in TCM |-> IF Failure(d) THEN d[u].state ELSE "NOTSYNCED"]
  BY Zenon DEF synmsg
<1>4. "NOTSYNCED" \in UserState
  BY DEF UserState
<1>5. synmsg(d, t).state \in [TCM -> UserState]
  BY <1>1, <1>3, <1>4
<1>6. synmsg(d, t).rc \in {"OK"} \cup Errors
  BY <1>2 DEF Errors
<1>7. synmsg(d, t) \in Message
  <2>1. synmsg(d, t) = [rc |-> synmsg(d, t).rc, state |-> synmsg(d, t).state]
    BY DEF synmsg
  <2>2. synmsg(d, t).rc \in {"none", "wait", "OK"} \cup Bad
    BY <1>6 DEF Bad
  <2>. QED  BY <1>5, <2>1, <2>2 DEF Message
<1>. QED  BY <1>2, <1>3, <1>6, <1>7

\* what an event does to one TCM
LEMMA EventOne ==
  ASSUME NEW d \in Users, NEW r \in Replies, NEW l \in 0..SPMAX, NEW d2, NEW r2, NEW l2,
         Event(d, r, l, d2, r2, l2), Happened(d)
  PROVE  /\ d2 \in Users /\ r2 \in Replies /\ l2 = LastSpno(d)
         /\ \A t \in TCM :
                /\ d2[t].spno = d[t].spno
                /\ Voted(d[t]) /\ d[t].spno <= EventSpno(d) =>
                       d2[t].state = "NOTSYNCED" /\ d2[t].ntimedout = d[t].ntimedout
                /\ d[t].state = "NOTSYNCED" /\ SomeTimedOut(d) =>
                       d2[t].state = "NOTSYNCED" /\ d2[t].ntimedout = d[t].ntimedout + 1
                /\ ~(Voted(d[t]) /\ d[t].spno <= EventSpno(d)) /\ ~(d[t].state = "NOTSYNCED" /\ SomeTimedOut(d)) =>
                       d2[t] = d[t]
                /\ r[t].rc = "wait" /\ Voted(d[t]) /\ d[t].spno <= l2 => r2[t] = synmsg(d, t)
                /\ ~(r[t].rc = "wait" /\ Voted(d[t]) /\ d[t].spno <= l2) => r2[t] = r[t]
<1>. DEFINE f == [t \in TCM |-> UserAfter(d, t)]
            g == [t \in TCM |-> IF r[t].rc = "wait" /\ Voted(d[t]) /\ d[t].spno <= l2
                                THEN synmsg(d, t) ELSE r[t]]
<1>1. l2 = LastSpno(d) /\ d2 = f
  BY Zenon DEF Event
<1>2. r2 = g
  BY <1>1, Zenon DEF Event
<1>3. \A t \in TCM : d2[t] = UserAfter(d, t)
  BY <1>1
<1>4. \A t \in TCM : /\ r[t].rc = "wait" /\ Voted(d[t]) /\ d[t].spno <= l2 => r2[t] = synmsg(d, t)
                     /\ ~(r[t].rc = "wait" /\ Voted(d[t]) /\ d[t].spno <= l2) => r2[t] = r[t]
  BY <1>2
<1>5. d2 \in Users
  <2>1. \A t \in TCM : UserAfter(d, t) \in User
    BY UserAfterIs
  <2>. QED  BY <1>1, <2>1 DEF Users, User
<1>6. r2 \in Replies
  <2>1. \A t \in TCM : synmsg(d, t) \in Message /\ r[t] \in Message
    BY SynmsgIs DEF Replies, Message
  <2>2. \A t \in TCM : g[t] \in Message
    BY <2>1
  <2>3. g \in [TCM -> Message]
    BY <2>2, Zenon
  <2>. QED  BY <1>2, <2>3, Zenon DEF Replies, Message
<1>. HIDE DEF f, g
<1>. QED  BY <1>1, <1>3, <1>4, <1>5, <1>6, UserAfterIs

\* the votes are for sync points that there are
Votes(d) == \A t \in TCM : Voted(d[t]) => d[t].spno < SPMAX

\* The event is that of the lowest sync point, or of all.
LEMMA LastSpnoIs ==
  ASSUME NEW d \in Users, NEW r \in Replies, NEW l \in 0..SPMAX, NEW d2, NEW r2, NEW l2,
         Event(d, r, l, d2, r2, l2), Happened(d), Daemon(d, r, l), Votes(d)
  PROVE  /\ l2 \in 0..SPMAX /\ l <= l2 /\ EventSpno(d) <= l2
         /\ Dead(d) => l2 = SPMAX
         /\ ~Dead(d) => /\ l < SPMAX /\ l2 = EventSpno(d) /\ l < l2 /\ l2 < SPMAX
                        /\ \E t \in TCM : Voted(d[t]) /\ l2 = d[t].spno
<1>1. /\ EventSpno(d) \in 0..SPMAX
      /\ \A t \in TCM : Voted(d[t]) => EventSpno(d) <= d[t].spno
      /\ (\E t \in TCM : Voted(d[t])) => \E t \in TCM : Voted(d[t]) /\ EventSpno(d) = d[t].spno
  BY EventSpnoIs
<1>2. l2 = IF Dead(d) THEN SPMAX ELSE EventSpno(d)
  BY EventOne DEF LastSpno, Dead
<1>3. /\ SPMAX \in Nat /\ SPMAX \in 0..SPMAX /\ l \in Nat /\ l <= SPMAX
      /\ EventSpno(d) \in Nat /\ EventSpno(d) <= SPMAX
  BY <1>1, SpnoRange
<1>4. CASE Dead(d)
  BY <1>2, <1>3, <1>4
<1>5. CASE ~Dead(d)
  <2>1. l < SPMAX
    BY <1>3, <1>5 DEF Daemon
  <2>2. \E t \in TCM : Voted(d[t])
    <3>1. CASE \E t \in TCM : d[t].state = "TIMEDOUT"
      BY <3>1 DEF Voted
    <3>2. CASE \A t \in TCM : d[t].state # "NOTSYNCED"
      <4>1. Master \in TCM
        BY TcmAssumption
      <4>2. d[Master].state \in UserState
        BY <4>1 DEF Users
      <4>3. d[Master].state # "DEAD" /\ d[Master].state # "NOTSYNCED"
        BY <1>5, <3>2, <4>1 DEF Dead
      <4>. QED  BY <4>1, <4>2, <4>3 DEF UserState, Voted
    <3>. QED  BY <3>1, <3>2 DEF Happened
  <2>3. PICK t \in TCM : Voted(d[t]) /\ EventSpno(d) = d[t].spno
    BY <1>1, <2>2
  <2>4. d[t].spno > l /\ d[t].spno < SPMAX
    BY <2>1, <2>3 DEF Daemon, Votes
  <2>. QED  BY <1>1, <1>2, <1>3, <1>5, <2>1, <2>3, <2>4
<1>. QED  BY <1>4, <1>5

LEMMA EventKeepsDaemon ==
  ASSUME NEW d \in Users, NEW r \in Replies, NEW l \in 0..SPMAX, NEW d2, NEW r2, NEW l2,
         Event(d, r, l, d2, r2, l2), Daemon(d, r, l), Votes(d)
  PROVE  /\ d2 \in Users /\ r2 \in Replies /\ l2 \in 0..SPMAX
         /\ l <= l2
         /\ \A t \in TCM : d2[t].spno = d[t].spno /\ (d2[t].state = "DEAD" <=> d[t].state = "DEAD")
         /\ Daemon(d2, r2, l2)
<1>0. /\ SPMAX \in Nat /\ l \in Nat /\ l <= SPMAX
      /\ \A t \in TCM : d[t].spno \in Nat /\ d[t].ntimedout \in Nat
  BY SpnoRange DEF Users
<1>1. CASE ~Happened(d)
  <2>1. d2 = d /\ r2 = r /\ l2 = l
    BY <1>1, Zenon DEF Event
  <2>. QED  BY <1>0, <2>1
<1>2. CASE Happened(d)
  <2>. DEFINE e == EventSpno(d)
  <2>1. d2 \in Users /\ r2 \in Replies
    BY <1>2, EventOne, Zenon
  <2>2. \A t \in TCM :
          /\ d2[t].spno = d[t].spno
          /\ Voted(d[t]) /\ d[t].spno <= e =>
                 d2[t].state = "NOTSYNCED" /\ d2[t].ntimedout = d[t].ntimedout
          /\ d[t].state = "NOTSYNCED" /\ SomeTimedOut(d) =>
                 d2[t].state = "NOTSYNCED" /\ d2[t].ntimedout = d[t].ntimedout + 1
          /\ ~(Voted(d[t]) /\ d[t].spno <= e) /\ ~(d[t].state = "NOTSYNCED" /\ SomeTimedOut(d)) =>
                 d2[t] = d[t]
          /\ r[t].rc = "wait" /\ Voted(d[t]) /\ d[t].spno <= l2 => r2[t] = synmsg(d, t)
          /\ ~(r[t].rc = "wait" /\ Voted(d[t]) /\ d[t].spno <= l2) => r2[t] = r[t]
    BY <1>2, EventOne
  <2>3. /\ e \in 0..SPMAX
        /\ \A t \in TCM : Voted(d[t]) => e <= d[t].spno
    BY EventSpnoIs
  <2>4. /\ l2 \in 0..SPMAX /\ l <= l2 /\ e <= l2
        /\ Dead(d) => l2 = SPMAX
        /\ ~Dead(d) => /\ l < SPMAX /\ l2 = e /\ l < l2 /\ l2 < SPMAX
                       /\ \E t \in TCM : Voted(d[t]) /\ l2 = d[t].spno
    BY <1>2, LastSpnoIs
  <2>. HIDE DEF e
  <2>5. l2 \in Nat /\ l2 <= SPMAX /\ e \in Nat
    BY <2>3, <2>4, SpnoRange
  <2>6. \A t \in TCM : d2[t].state = "DEAD" <=> d[t].state = "DEAD"
    BY <2>2 DEF Voted
  <2>7. l2 = SPMAX => Dead(d2)
    BY <1>0, <2>4, <2>6 DEF Dead
  <2>8. ASSUME l2 < SPMAX, NEW t \in TCM
        PROVE  /\ Voted(d2[t]) => d2[t].spno > l2 /\ r2[t].rc = "wait"
               /\ d2[t].state = "NOTSYNCED" /\ d2[t].ntimedout = 0 /\ r2[t].rc # "DONE" => d2[t].spno >= l2
    <3>1. ~Dead(d) /\ l < SPMAX /\ l2 = e
      BY <1>0, <2>4, <2>5, <2>8
    <3>2. Voted(d2[t]) => Voted(d[t]) /\ ~(d[t].spno <= e) /\ d2[t].spno = d[t].spno
      BY <2>2 DEF Voted
    <3>3. Voted(d[t]) => r[t].rc = "wait"
      BY <3>1 DEF Daemon
    <3>4. Voted(d2[t]) => d2[t].spno > l2 /\ r2[t].rc = "wait"
      BY <1>0, <2>2, <2>5, <3>1, <3>2, <3>3
    <3>5. ASSUME d2[t].state = "NOTSYNCED", d2[t].ntimedout = 0
          PROVE  d2[t].spno >= l2
      <4>1. CASE Voted(d[t]) /\ d[t].spno <= e
        BY <1>0, <2>2, <2>3, <2>5, <3>1, <4>1
      <4>2. CASE d[t].state = "NOTSYNCED" /\ SomeTimedOut(d)
        BY <1>0, <2>2, <3>5, <4>2
      <4>3. CASE ~(Voted(d[t]) /\ d[t].spno <= e) /\ ~(d[t].state = "NOTSYNCED" /\ SomeTimedOut(d))
        <5>1. d[t].state = "NOTSYNCED"
          BY <2>2, <3>5, <4>3
        <5>. QED  BY <1>2, <4>3, <5>1 DEF Happened, SomeTimedOut
      <4>. QED  BY <4>1, <4>2, <4>3
    <3>. QED  BY <3>4, <3>5
  <2>9. ASSUME NEW t \in TCM, Good(r2, t)
        PROVE  /\ d2[t].state = "NOTSYNCED" /\ d2[t].spno <= l2
               /\ \A u \in TCM : d2[u].spno >= d2[t].spno
    <3>1. CASE r2[t] = r[t]
      <4>1. Good(r, t)
        BY <2>9, <3>1 DEF Good
      <4>2. /\ d[t].state = "NOTSYNCED" /\ d[t].spno <= l
            /\ \A u \in TCM : d[u].spno >= d[t].spno
        BY <4>1 DEF Daemon
      <4>3. d2[t].state = "NOTSYNCED"
        BY <2>2, <4>2
      <4>. QED  BY <1>0, <2>2, <2>4, <2>5, <4>2, <4>3
    <3>2. CASE r[t].rc = "wait" /\ Voted(d[t]) /\ d[t].spno <= l2 /\ r2[t] = synmsg(d, t)
      <4>1. \A u \in TCM : d[u].state \in UserState
        BY DEF Users
      <4>2. \A u \in TCM : Voted(d[u])
        <5>1. CASE ~Failure(d)
          <6>1. ~SomeTimedOut(d)
            BY <5>1 DEF Failure, SomeTimedOut
          <6>2. \A u \in TCM : d[u].state # "NOTSYNCED"
            BY <1>2, <6>1 DEF Happened, SomeTimedOut
          <6>3. \A u \in TCM : d[u].state = "SYNCYES"
            BY <4>1, <5>1, <6>2 DEF Failure, UserState
          <6>. QED  BY <6>3 DEF Voted
        <5>2. CASE Failure(d)
          <6>1. \A u \in TCM : r2[t].state[u] = d[u].state
            BY <3>2, <5>2, SynmsgIs, Zenon
          <6>2. r2[t].rc # "OK"
            BY <3>2, <5>2, SynmsgIs, Zenon
          <6>3. \A u \in TCM \ {t} : d[u].state \in Expected
            BY <2>9, <6>1, <6>2 DEF Good
          <6>4. \A u \in TCM \ {t} : Voted(d[u])
            BY <6>3 DEF Expected, Voted
          <6>. QED  BY <3>2, <6>4
        <5>. QED  BY <5>1, <5>2
      <4>3. ~Dead(d)
        BY <4>2 DEF Dead, Voted
      <4>4. l2 = e /\ d[t].spno = e
        BY <1>0, <2>3, <2>4, <2>5, <3>2, <4>3
      <4>5. \A u \in TCM : d2[u].spno >= d2[t].spno
        BY <2>2, <2>3, <4>2, <4>4
      <4>6. d2[t].state = "NOTSYNCED" /\ d2[t].spno <= l2
        BY <2>2, <3>2, <4>4, <2>5
      <4>. QED  BY <4>5, <4>6
    <3>. QED  BY <2>2, <3>1, <3>2, Zenon
  <2>10. Daemon(d2, r2, l2)
    BY <2>7, <2>8, <2>9 DEF Daemon
  <2>. QED  BY <2>1, <2>2, <2>4, <2>6, <2>10
<1>. QED  BY <1>1, <1>2

LEMMA EventKeepsKnown ==
  ASSUME NEW d \in Users, NEW r \in Replies, NEW l \in 0..SPMAX, NEW d2, NEW r2, NEW l2,
         Event(d, r, l, d2, r2, l2), Daemon(d, r, l), Votes(d),
         NEW t \in TCM, NEW p, NEW i, NEW n, NEW D, Known(p, i, n, D, d[t], r[t])
  PROVE  Known(p, i, n, D, d2[t], r2[t])
<1>1. CASE ~Happened(d)
  <2>1. d2 = d /\ r2 = r
    BY <1>1, Zenon DEF Event
  <2>. QED  BY <2>1
<1>2. CASE Happened(d)
  <2>1. /\ d2[t].spno = d[t].spno
        /\ ~(Voted(d[t]) /\ d[t].spno <= EventSpno(d)) /\ ~(d[t].state = "NOTSYNCED" /\ SomeTimedOut(d)) =>
               d2[t] = d[t]
        /\ r[t].rc = "wait" /\ Voted(d[t]) /\ d[t].spno <= l2 => r2[t] = synmsg(d, t)
        /\ ~(r[t].rc = "wait" /\ Voted(d[t]) /\ d[t].spno <= l2) => r2[t] = r[t]
    BY <1>2, EventOne
  <2>2. d2[t].state = "DEAD" <=> d[t].state = "DEAD"
    BY EventKeepsDaemon
  <2>3. CASE r[t].rc = "wait" /\ Voted(d[t]) /\ d[t].spno <= l2
    <3>1. r2[t].rc \in {"OK"} \cup Errors
      BY <2>1, <2>3, SynmsgIs, Zenon
    <3>2. r2[t].rc \notin {"none", "DONE", "wait"}
      BY <3>1 DEF Errors
    <3>3. d[t].state # "DEAD"
      BY <2>3 DEF Voted
    <3>. QED  BY <2>1, <2>2, <2>3, <3>2, <3>3 DEF Known
  <2>4. CASE ~(r[t].rc = "wait" /\ Voted(d[t]) /\ d[t].spno <= l2)
    <3>1. r2[t] = r[t]
      BY <2>1, <2>4, Zenon
    <3>2. CASE r[t].rc # "wait"
      BY <2>1, <2>2, <3>1, <3>2 DEF Known
    <3>3. CASE r[t].rc = "wait"
      <4>1. ~(Voted(d[t]) /\ d[t].spno <= EventSpno(d))
        <5>1. EventSpno(d) <= l2
          BY <1>2, LastSpnoIs
        <5>2. EventSpno(d) \in Nat /\ l2 \in Nat /\ d[t].spno \in Nat
          <6>1. EventSpno(d) \in 0..SPMAX /\ l2 \in 0..SPMAX
            BY <1>2, LastSpnoIs, EventSpnoIs
          <6>. QED  BY <6>1, SpnoRange DEF Users
        <5>. QED  BY <2>4, <3>3, <5>1, <5>2
      <4>2. CASE d[t].state = "DEAD"
        BY <3>3, <4>2 DEF Known
      <4>3. CASE d[t].state # "DEAD"
        <5>1. d[t].state \in {VoteOf(p, i, n, D), "TIMEDOUT"}
          BY <3>3, <4>3 DEF Known
        <5>2. d[t].state # "NOTSYNCED"
          BY <5>1 DEF VoteOf
        <5>3. d2[t] = d[t]
          BY <2>1, <4>1, <5>2, Zenon
        <5>. QED  BY <3>1, <5>3
      <4>. QED  BY <4>2, <4>3
    <3>. QED  BY <3>2, <3>3
  <2>. QED  BY <2>3, <2>4
<1>. QED  BY <1>1, <1>2

-----------------------------------------------------------------------------
(* What happens to the record of a TCM before an event is looked for.      *)

LEMMA CoreTypes ==
  ASSUME Core
  PROVE  /\ ud \in Users /\ reply \in Replies /\ lastspno \in 0..SPMAX
         /\ \A t \in TCM : /\ pc[t] \in Sites \cup {"run", "exit"}
                           /\ ic[t] \in 0..NIC /\ tp[t] \in Nat
                           /\ ud[t] \in User /\ reply[t] \in Message
                           /\ ud[t].spno \in Nat /\ ud[t].ntimedout \in Nat
         /\ DOMAIN pc = TCM /\ DOMAIN ic = TCM /\ DOMAIN tp = TCM
         /\ SPMAX \in Nat /\ lastspno \in Nat /\ lastspno <= SPMAX
<1>1. TypeOK
  BY DEF Core
<1>2. ud \in Users /\ reply \in Replies /\ lastspno \in 0..SPMAX
  BY <1>1 DEF TypeOK, Users, Replies
<1>3. \A t \in TCM : ud[t] \in User /\ reply[t] \in Message
  BY <1>2 DEF Users, User, Replies, Message
<1>4. \A t \in TCM : ud[t].spno \in Nat /\ ud[t].ntimedout \in Nat
  BY <1>3, SpnoRange DEF User
<1>5. \A t \in TCM : pc[t] \in Sites \cup {"run", "exit"} /\ ic[t] \in 0..NIC /\ tp[t] \in Nat
  BY <1>1 DEF TypeOK
<1>6. DOMAIN pc = TCM /\ DOMAIN ic = TCM /\ DOMAIN tp = TCM
  BY <1>1 DEF TypeOK
<1>. QED  BY <1>2, <1>3, <1>4, <1>5, <1>6, SpnoRange

LEMMA SiteNumber ==
  ASSUME Core, NEW t \in TCM, pc[t] \in Sites
  PROVE  /\ Number(pc[t], ic[t], tp[t]) \in Nat /\ Number(pc[t], ic[t], tp[t]) < SPMAX
         /\ Number(pc[t], ic[t], tp[t]) \in 0..SPMAX
         /\ ud[t].state # "DEAD" /\ ud[t].spno <= Number(pc[t], ic[t], tp[t])
         /\ Spno(t) = Number(pc[t], ic[t], tp[t])
<1>1. ic[t] \in 0..NIC /\ tp[t] \in Nat /\ Placed(pc[t], ic[t], tp[t])
  BY CoreTypes DEF Core, Control
<1>2. Number(pc[t], ic[t], tp[t]) \in Nat /\ Number(pc[t], ic[t], tp[t]) < SPMAX
  BY <1>1, NumberType
<1>3. Number(pc[t], ic[t], tp[t]) \in 0..SPMAX
  BY <1>2, SpnoRange
<1>4. pc[t] # "exit" /\ ud[t].spno \in Nat
  BY CoreTypes DEF Sites
<1>5. ud[t].state # "DEAD" /\ Known(pc[t], ic[t], tp[t], deleted[t], ud[t], reply[t])
  BY <1>4 DEF Core, Control, AllKnown
<1>6. ud[t].spno <= Number(pc[t], ic[t], tp[t])
  BY <1>2, <1>4, <1>5 DEF Known
<1>. QED  BY <1>2, <1>3, <1>5, <1>6, SpnoIs

LEMMA VotesOK ==
  ASSUME Core
  PROVE  Votes(ud)
<1>1. SUFFICES ASSUME NEW t \in TCM, Voted(ud[t])
               PROVE  ud[t].spno < SPMAX
  BY DEF Votes
<1>2. ud[t].state # "DEAD"
  BY <1>1 DEF Voted
<1>3. pc[t] # "exit" /\ Known(pc[t], ic[t], tp[t], deleted[t], ud[t], reply[t])
  BY <1>2 DEF Core, Control, AllKnown
<1>4. CASE pc[t] \in Sites
  BY <1>4, CoreTypes, SiteNumber
<1>5. CASE pc[t] = "run"
  <2>1. ud[t].spno = Number("tpstart", ic[t], tp[t])
    BY <1>2, <1>3, <1>5 DEF Known
  <2>2. Placed("tpstart", ic[t], tp[t])
    BY <1>5 DEF Core, Control, Placed
  <2>3. "tpstart" \in Sites /\ ic[t] \in 0..NIC /\ tp[t] \in Nat
    BY CoreTypes DEF Sites
  <2>. QED  BY <2>1, <2>2, <2>3, NumberType
<1>. QED  BY <1>3, <1>4, <1>5, CoreTypes

\* d and r are fit to be looked at by stcheck()
Ready(d, r) ==
    /\ d \in Users /\ r \in Replies
    /\ Daemon(d, r, lastspno) /\ Votes(d) /\ AllKnown(d, r)
    /\ \A u \in TCM : d[u].spno >= ud[u].spno

\* what SYNCD has done is right by it
Done(d, r) ==
    /\ ud' \in Users /\ reply' \in Replies /\ lastspno' \in 0..SPMAX
    /\ Daemon(ud', reply', lastspno') /\ AllKnown(ud', reply')
    /\ \A u \in TCM : ud'[u].state = "DEAD" <=> d[u].state = "DEAD"
    /\ \A f \in Nat : Floor(ud, lastspno, f) => Floor(ud', lastspno', f)

LEMMA ReadyDone ==
  ASSUME Core, NEW d, NEW r, Ready(d, r), stcheck(d, r)
  PROVE  Done(d, r)
<1>1. Event(d, r, lastspno, ud', reply', lastspno')
  BY StcheckIs, Zenon
<1>2. /\ d \in Users /\ r \in Replies /\ Daemon(d, r, lastspno) /\ Votes(d) /\ AllKnown(d, r)
      /\ \A u \in TCM : d[u].spno >= ud[u].spno
  BY DEF Ready
<1>3. /\ lastspno \in 0..SPMAX /\ lastspno \in Nat
      /\ \A u \in TCM : ud[u].spno \in Nat
  BY CoreTypes
<1>4. /\ ud' \in Users /\ reply' \in Replies /\ lastspno' \in 0..SPMAX
      /\ lastspno <= lastspno'
      /\ \A u \in TCM : ud'[u].spno = d[u].spno /\ (ud'[u].state = "DEAD" <=> d[u].state = "DEAD")
      /\ Daemon(ud', reply', lastspno')
  BY <1>1, <1>2, <1>3, EventKeepsDaemon
<1>5. AllKnown(ud', reply')
  <2>1. SUFFICES ASSUME NEW t \in TCM
                 PROVE  Known(pc[t], ic[t], tp[t], deleted[t], ud'[t], reply'[t])
    BY Zenon DEF AllKnown
  <2>2. Known(pc[t], ic[t], tp[t], deleted[t], d[t], r[t])
    BY <1>2 DEF AllKnown
  <2>. QED  BY <1>1, <1>2, <1>3, <2>2, EventKeepsKnown
<1>6. ASSUME NEW f \in Nat, Floor(ud, lastspno, f)
      PROVE  Floor(ud', lastspno', f)
  <2>1. f <= lastspno /\ \A u \in TCM : f <= ud[u].spno
    BY <1>6 DEF Floor
  <2>2. lastspno' \in Nat /\ \A u \in TCM : d[u].spno \in Nat
    BY <1>2, <1>4, SpnoRange DEF Users
  <2>3. f <= lastspno'
    BY <1>3, <1>4, <2>1, <2>2
  <2>4. \A u \in TCM : f <= ud'[u].spno
    BY <1>2, <1>3, <1>4, <2>1, <2>2
  <2>. QED  BY <2>3, <2>4 DEF Floor
<1>. QED  BY <1>4, <1>5, <1>6 DEF Done

LEMMA VoteReady ==
  ASSUME Core, NEW t \in TCM, pc[t] \in Sites, reply[t].rc = "none",
         ~(ud[t].ntimedout > 0 /\ Spno(t) <= lastspno)
  PROVE  Ready([ud EXCEPT ![t] = [state |-> Vote(t), spno |-> Spno(t), ntimedout |-> 0]],
               [reply EXCEPT ![t] = Waiting])
<1>. DEFINE d == [ud EXCEPT ![t] = [state |-> Vote(t), spno |-> Spno(t), ntimedout |-> 0]]
            r == [reply EXCEPT ![t] = Waiting]
            n == Number(pc[t], ic[t], tp[t])
<1>1. /\ n \in Nat /\ n < SPMAX /\ n \in 0..SPMAX /\ Spno(t) = n
      /\ ud[t].state # "DEAD"
  BY SiteNumber
<1>2. /\ ud \in Users /\ reply \in Replies /\ lastspno \in Nat /\ lastspno <= SPMAX /\ SPMAX \in Nat
      /\ \A u \in TCM : ud[u].spno \in Nat /\ ud[u].ntimedout \in Nat /\ ud[u] \in User
  BY CoreTypes
<1>3. Vote(t) \in {"SYNCYES", "SYNCNO"} /\ Vote(t) = VoteOf(pc[t], ic[t], tp[t], deleted[t])
  BY VoteIs DEF VoteOf
<1>4. Known(pc[t], ic[t], tp[t], deleted[t], ud[t], reply[t]) /\ Daemon(ud, reply, lastspno)
  BY DEF Core, Control, AllKnown
<1>5. ud[t].spno < n
  BY <1>1, <1>4 DEF Known
<1>6. d[t] = [state |-> Vote(t), spno |-> n, ntimedout |-> 0] /\ \A u \in TCM \ {t} : d[u] = ud[u]
  BY <1>1, <1>2 DEF Users
<1>7. d \in Users
  <2>1. [state |-> Vote(t), spno |-> Spno(t), ntimedout |-> 0] \in User
    BY <1>1, <1>3 DEF User, UserState
  <2>. QED  BY <1>2, <2>1 DEF Users, User
<1>8. r[t].rc = "wait" /\ \A u \in TCM \ {t} : r[u] = reply[u]
  BY <1>2 DEF Replies, Waiting, NoReply
<1>9. r \in Replies
  <2>1. Waiting \in Message
    BY DEF Waiting, NoReply, Message, UserState
  <2>. QED  BY <1>2, <2>1 DEF Replies, Message
<1>. HIDE DEF d, r, n
<1>10. \A u \in TCM : d[u].spno >= ud[u].spno
  BY <1>1, <1>2, <1>5, <1>6
<1>11. Votes(d)
  <2>1. Votes(ud)
    BY VotesOK
  <2>. QED  BY <1>1, <1>6, <2>1 DEF Votes
<1>12. AllKnown(d, r)
  <2>1. Known(pc[t], ic[t], tp[t], deleted[t], d[t], r[t])
    BY <1>1, <1>3, <1>6, <1>8 DEF Known, n, Sites
  <2>2. \A u \in TCM \ {t} : Known(pc[u], ic[u], tp[u], deleted[u], d[u], r[u])
    <3>1. AllKnown(ud, reply)
      BY DEF Core, Control
    <3>. QED  BY <1>6, <1>8, <3>1 DEF AllKnown
  <2>. QED  BY <2>1, <2>2 DEF AllKnown
<1>13. Daemon(d, r, lastspno)
  <2>1. lastspno = SPMAX => Dead(d)
    <3>1. lastspno = SPMAX => Dead(ud)
      BY <1>4 DEF Daemon
    <3>. QED  BY <1>1, <1>6, <3>1 DEF Dead
  <2>2. ASSUME lastspno < SPMAX
        PROVE  n > lastspno
    <3>1. CASE ud[t].ntimedout > 0
      BY <1>1, <1>2, <3>1
    <3>2. CASE ud[t].ntimedout = 0
      <4>1. ~Voted(ud[t])
        BY <1>4, <2>2 DEF Daemon
      <4>2. ud[t].state = "NOTSYNCED"
        BY <1>1, <1>2, <4>1 DEF User, UserState, Voted
      <4>3. ud[t].spno >= lastspno
        BY <1>4, <2>2, <3>2, <4>2 DEF Daemon
      <4>. QED  BY <1>1, <1>2, <1>5, <4>3
    <3>. QED  BY <1>2, <3>1, <3>2
  <2>3. ASSUME lastspno < SPMAX, NEW u \in TCM
        PROVE  /\ Voted(d[u]) => d[u].spno > lastspno /\ r[u].rc = "wait"
               /\ d[u].state = "NOTSYNCED" /\ d[u].ntimedout = 0 /\ r[u].rc # "DONE" => d[u].spno >= lastspno
    <3>1. CASE u = t
      BY <1>3, <1>6, <1>8, <2>2, <2>3, <3>1
    <3>2. CASE u # t
      BY <1>4, <1>6, <1>8, <2>3, <3>2 DEF Daemon
    <3>. QED  BY <3>1, <3>2
  <2>4. ASSUME NEW u \in TCM, Good(r, u)
        PROVE  /\ d[u].state = "NOTSYNCED" /\ d[u].spno <= lastspno
               /\ \A v \in TCM : d[v].spno >= d[u].spno
    <3>1. u # t
      BY <1>8, <2>4 DEF Good, Errors
    <3>2. Good(reply, u) /\ d[u] = ud[u]
      BY <1>6, <1>8, <2>4, <3>1 DEF Good
    <3>3. /\ ud[u].state = "NOTSYNCED" /\ ud[u].spno <= lastspno
          /\ \A v \in TCM : ud[v].spno >= ud[u].spno
      BY <1>4, <3>2 DEF Daemon
    <3>4. \A v \in TCM : d[v].spno \in Nat
      BY <1>7, SpnoRange DEF Users
    <3>. QED  BY <1>2, <1>10, <3>2, <3>3, <3>4
  <2>. QED  BY <2>1, <2>3, <2>4 DEF Daemon
<1>. QED  BY <1>7, <1>9, <1>10, <1>11, <1>12, <1>13 DEF Ready, d, r

LEMMA DeadReady ==
  ASSUME Core, NEW t \in TCM
  PROVE  Ready([ud EXCEPT ![t].state = "DEAD"], [reply EXCEPT ![t] = NoReply])
<1>. DEFINE d == [ud EXCEPT ![t].state = "DEAD"]
            r == [reply EXCEPT ![t] = NoReply]
<1>1. /\ ud \in Users /\ reply \in Replies /\ lastspno \in Nat /\ lastspno <= SPMAX /\ SPMAX \in Nat
      /\ \A u \in TCM : ud[u].spno \in Nat /\ ud[u] \in User
  BY CoreTypes
<1>2. d[t].state = "DEAD" /\ d[t].spno = ud[t].spno /\ \A u \in TCM \ {t} : d[u] = ud[u]
  BY <1>1 DEF Users
<1>3. r[t].rc = "none" /\ \A u \in TCM \ {t} : r[u] = reply[u]
  BY <1>1 DEF Replies, NoReply
<1>4. d \in Users
  <2>1. [ud[t] EXCEPT !.state = "DEAD"] \in User
    BY <1>1 DEF User, UserState
  <2>2. d = [ud EXCEPT ![t] = [ud[t] EXCEPT !.state = "DEAD"]]
    OBVIOUS
  <2>. QED  BY <1>1, <2>1, <2>2 DEF Users, User
<1>5. r \in Replies
  <2>1. NoReply \in Message
    BY DEF NoReply, Message, UserState
  <2>. QED  BY <1>1, <2>1 DEF Replies, Message
<1>. HIDE DEF d, r
<1>6. \A u \in TCM : d[u].spno = ud[u].spno /\ d[u].spno >= ud[u].spno
  BY <1>1, <1>2
<1>7. Votes(d)
  <2>1. Votes(ud)
    BY VotesOK
  <2>. QED  BY <1>2, <2>1 DEF Votes, Voted
<1>8. AllKnown(d, r)
  <2>1. Known(pc[t], ic[t], tp[t], deleted[t], d[t], r[t])
    BY <1>2, <1>3 DEF Known
  <2>2. AllKnown(ud, reply)
    BY DEF Core, Control
  <2>. QED  BY <1>2, <1>3, <2>1, <2>2 DEF AllKnown
<1>9. Daemon(d, r, lastspno)
  <2>1. Daemon(ud, reply, lastspno)
    BY DEF Core
  <2>2. Dead(d)
    BY <1>2 DEF Dead
  <2>3. ASSUME lastspno < SPMAX, NEW u \in TCM
        PROVE  /\ Voted(d[u]) => d[u].spno > lastspno /\ r[u].rc = "wait"
               /\ d[u].state = "NOTSYNCED" /\ d[u].ntimedout = 0 /\ r[u].rc # "DONE" => d[u].spno >= lastspno
    <3>1. CASE u = t
      BY <1>2, <3>1 DEF Voted
    <3>2. CASE u # t
      BY <1>2, <1>3, <2>1, <2>3, <3>2 DEF Daemon
    <3>. QED  BY <3>1, <3>2
  <2>4. ASSUME NEW u \in TCM, Good(r, u)
        PROVE  /\ d[u].state = "NOTSYNCED" /\ d[u].spno <= lastspno
               /\ \A v \in TCM : d[v].spno >= d[u].spno
    <3>1. u # t
      BY <1>3, <2>4 DEF Good, Errors
    <3>2. Good(reply, u)
      BY <1>3, <2>4, <3>1 DEF Good
    <3>. QED  BY <1>2, <1>6, <2>1, <3>1, <3>2 DEF Daemon
  <2>. QED  BY <2>2, <2>3, <2>4 DEF Daemon
<1>. QED  BY <1>4, <1>5, <1>6, <1>7, <1>8, <1>9 DEF Ready, d, r

LEMMA TimeReady ==
  ASSUME Core, NEW t \in TCM, reply[t].rc = "wait"
  PROVE  /\ Voted(ud[t])
         /\ Ready([ud EXCEPT ![t].state = "TIMEDOUT"], reply)
<1>. DEFINE d == [ud EXCEPT ![t].state = "TIMEDOUT"]
<1>1. /\ ud \in Users /\ reply \in Replies /\ lastspno \in Nat /\ lastspno <= SPMAX /\ SPMAX \in Nat
      /\ \A u \in TCM : ud[u].spno \in Nat /\ ud[u] \in User
  BY CoreTypes
<1>2. /\ d[t].state = "TIMEDOUT" /\ d[t].spno = ud[t].spno /\ \A u \in TCM \ {t} : d[u] = ud[u]
  BY <1>1 DEF Users
<1>3. d \in Users
  <2>1. [ud[t] EXCEPT !.state = "TIMEDOUT"] \in User
    BY <1>1 DEF User, UserState
  <2>2. d = [ud EXCEPT ![t] = [ud[t] EXCEPT !.state = "TIMEDOUT"]]
    OBVIOUS
  <2>. QED  BY <1>1, <2>1, <2>2 DEF Users, User
<1>. HIDE DEF d
<1>4. /\ Known(pc[t], ic[t], tp[t], deleted[t], ud[t], reply[t])
      /\ Daemon(ud, reply, lastspno) /\ AllKnown(ud, reply)
  BY DEF Core, Control, AllKnown
<1>5. ud[t].state # "DEAD" /\ Voted(ud[t])
  BY <1>4 DEF Known, VoteOf, Voted
<1>6. \A u \in TCM : d[u].spno = ud[u].spno /\ d[u].spno >= ud[u].spno
  BY <1>1, <1>2
<1>7. Votes(d)
  <2>1. Votes(ud)
    BY VotesOK
  <2>. QED  BY <1>2, <1>5, <2>1 DEF Votes
<1>8. AllKnown(d, reply)
  <2>1. Known(pc[t], ic[t], tp[t], deleted[t], d[t], reply[t])
    BY <1>2, <1>4, <1>5 DEF Known
  <2>. QED  BY <1>2, <1>4, <2>1 DEF AllKnown
<1>9. Daemon(d, reply, lastspno)
  <2>1. Dead(d) <=> Dead(ud)
    BY <1>2, <1>5 DEF Dead
  <2>2. ASSUME lastspno < SPMAX, NEW u \in TCM
        PROVE  /\ Voted(d[u]) => d[u].spno > lastspno /\ reply[u].rc = "wait"
               /\ d[u].state = "NOTSYNCED" /\ d[u].ntimedout = 0 /\ reply[u].rc # "DONE" => d[u].spno >= lastspno
    <3>1. CASE u = t
      BY <1>2, <1>4, <1>5, <2>2, <3>1 DEF Daemon
    <3>2. CASE u # t
      BY <1>2, <1>4, <2>2, <3>2 DEF Daemon
    <3>. QED  BY <3>1, <3>2
  <2>3. ASSUME NEW u \in TCM, Good(reply, u)
        PROVE  /\ d[u].state = "NOTSYNCED" /\ d[u].spno <= lastspno
               /\ \A v \in TCM : d[v].spno >= d[u].spno
    <3>1. u # t
      BY <2>3 DEF Good, Errors
    <3>. QED  BY <1>2, <1>4, <1>6, <2>3, <3>1 DEF Daemon
  <2>4. lastspno = SPMAX => Dead(ud)
    BY <1>4 DEF Daemon
  <2>. QED  BY <2>1, <2>2, <2>3, <2>4 DEF Daemon
<1>10. Ready(d, reply)
  <2>1. reply \in Replies
    BY CoreTypes
  <2>. QED  BY <1>3, <1>6, <1>7, <1>8, <1>9, <2>1, Zenon DEF Ready
<1>. QED  BY <1>5, <1>10 DEF d

\* the vote is for an event that has timed out
LEMMA LateDone ==
  ASSUME Core, NEW t \in TCM, pc[t] \in Sites, reply[t].rc = "none",
         ud[t].ntimedout > 0,
         ud' = [ud EXCEPT ![t].ntimedout = @ - 1],
         reply' = [reply EXCEPT ![t].rc = "DONE"],
         lastspno' = lastspno
  PROVE  Done(ud, reply)
<1>1. /\ ud \in Users /\ reply \in Replies /\ lastspno \in Nat /\ lastspno <= SPMAX /\ SPMAX \in Nat
      /\ lastspno \in 0..SPMAX
      /\ \A u \in TCM : ud[u].spno \in Nat /\ ud[u].ntimedout \in Nat /\ ud[u] \in User /\ reply[u] \in Message
  BY CoreTypes
<1>2. /\ ud'[t].state = ud[t].state /\ ud'[t].spno = ud[t].spno
      /\ \A u \in TCM \ {t} : ud'[u] = ud[u]
  BY <1>1 DEF Users
<1>3. ud' \in Users
  <2>1. [ud[t] EXCEPT !.ntimedout = @ - 1] \in User
    BY <1>1 DEF User
  <2>2. ud' = [ud EXCEPT ![t] = [ud[t] EXCEPT !.ntimedout = @ - 1]]
    OBVIOUS
  <2>. QED  BY <1>1, <2>1, <2>2 DEF Users, User
<1>4. reply'[t].rc = "DONE" /\ \A u \in TCM \ {t} : reply'[u] = reply[u]
  BY <1>1 DEF Replies
<1>5. reply' \in Replies
  <2>1. [reply[t] EXCEPT !.rc = "DONE"] \in Message
    BY <1>1 DEF Message, Bad
  <2>2. reply' = [reply EXCEPT ![t] = [reply[t] EXCEPT !.rc = "DONE"]]
    OBVIOUS
  <2>. QED  BY <1>1, <2>1, <2>2 DEF Replies, Message
<1>6. Daemon(ud, reply, lastspno) /\ AllKnown(ud, reply)
  BY DEF Core, Control
<1>7. Known(pc[t], ic[t], tp[t], deleted[t], ud[t], reply[t]) /\ ud[t].state # "DEAD"
  BY <1>6, SiteNumber DEF AllKnown
<1>8. AllKnown(ud', reply')
  <2>1. Known(pc[t], ic[t], tp[t], deleted[t], ud'[t], reply'[t])
    BY <1>2, <1>4, <1>7 DEF Known, Sites
  <2>2. ASSUME NEW u \in TCM \ {t}
        PROVE  Known(pc[u], ic[u], tp[u], deleted[u], ud'[u], reply'[u])
    BY <1>2, <1>4, <1>6 DEF AllKnown
  <2>. QED  BY <2>1, <2>2 DEF AllKnown
<1>9. \A u \in TCM : ud'[u].spno = ud[u].spno /\ (ud'[u].state = "DEAD" <=> ud[u].state = "DEAD")
  BY <1>2
<1>10. Daemon(ud', reply', lastspno')
  <2>1. Dead(ud') <=> Dead(ud)
    BY <1>9 DEF Dead
  <2>2. ASSUME lastspno' < SPMAX, NEW u \in TCM
        PROVE  /\ Voted(ud'[u]) => ud'[u].spno > lastspno' /\ reply'[u].rc = "wait"
               /\ ud'[u].state = "NOTSYNCED" /\ ud'[u].ntimedout = 0 /\ reply'[u].rc # "DONE" => ud'[u].spno >= lastspno'
    <3>1. CASE u = t
      <4>1. ~Voted(ud[t])
        BY <1>6, <2>2 DEF Daemon
      <4>. QED  BY <1>2, <1>4, <3>1, <4>1 DEF Voted
    <3>2. CASE u # t
      BY <1>2, <1>4, <1>6, <2>2, <3>2 DEF Daemon
    <3>. QED  BY <3>1, <3>2
  <2>3. ASSUME NEW u \in TCM, Good(reply', u)
        PROVE  /\ ud'[u].state = "NOTSYNCED" /\ ud'[u].spno <= lastspno'
               /\ \A v \in TCM : ud'[v].spno >= ud'[u].spno
    <3>1. u # t
      BY <1>4, <2>3 DEF Good, Errors
    <3>2. Good(reply, u)
      BY <1>4, <2>3, <3>1 DEF Good
    <3>. QED  BY <1>2, <1>6, <1>9, <3>1, <3>2 DEF Daemon
  <2>4. lastspno' = SPMAX => Dead(ud)
    BY <1>6 DEF Daemon
  <2>. QED  BY <2>1, <2>2, <2>3, <2>4 DEF Daemon
<1>11. ASSUME NEW f \in Nat, Floor(ud, lastspno, f)
       PROVE  Floor(ud', lastspno', f)
  BY <1>9, <1>11 DEF Floor
<1>. QED  BY <1>1, <1>3, <1>5, <1>8, <1>9, <1>10, <1>11 DEF Done

-----------------------------------------------------------------------------
(* What a step does to the control of the TCMs.                            *)

SyncdTypes == ud \in Users /\ reply \in Replies /\ lastspno \in 0..SPMAX

LEMMA BeforeType ==
  ASSUME Core, NEW t \in TCM, pc[t] \in (Sites \ {"cleanup"}) \cup {"run"}
  PROVE  Before(pc[t], ic[t], tp[t]) \in Nat
<1>1. ic[t] \in 0..NIC /\ tp[t] \in Nat /\ Placed(pc[t], ic[t], tp[t])
  BY CoreTypes DEF Core, Control
<1>2. CASE pc[t] = "run"
  BY <1>1, <1>2, SiteIs
<1>3. CASE pc[t] # "run"
  BY <1>1, <1>3, NumberType
<1>. QED  BY <1>2, <1>3

\* a vote that is counted or too late, and a timeout
LEMMA AfterVote ==
  ASSUME Core, NEW d, NEW r, Done(d, r),
         \A u \in TCM : d[u].state = "DEAD" <=> ud[u].state = "DEAD",
         UNCHANGED <<pc, ic, tp, deleted>>, xr.abort => xr'.abort
  PROVE  Control' /\ Daemon(ud, reply, lastspno)' /\ SyncdTypes'
<1>1. \A t \in TCM : pc'[t] = "exit" <=> ud'[t].state = "DEAD"
  BY DEF Core, Control, Done
<1>2. \A t \in TCM : Placed(pc'[t], ic'[t], tp'[t])
  BY DEF Core, Control
<1>3. AllKnown(ud, reply)'
  BY DEF AllKnown, Done
<1>4. \A t \in TCM : pc'[t] = "abort" => t = Master /\ xr'.abort
  BY DEF Core, Control
<1>5. \A t \in TCM : pc'[t] \in (Sites \ {"cleanup"}) \cup {"run"} =>
                        Floor(ud', lastspno', Before(pc'[t], ic'[t], tp'[t]))
  BY BeforeType DEF Core, Control, Done
<1>6. Daemon(ud, reply, lastspno)' /\ SyncdTypes'
  BY DEF Done, SyncdTypes
<1>. QED  BY <1>1, <1>2, <1>3, <1>4, <1>5, <1>6 DEF Control

LEMMA AfterExit ==
  ASSUME Core, NEW t \in TCM, Exit(t),
         UNCHANGED <<ic, tp, deleted>>, xr.abort => xr'.abort
  PROVE  Control' /\ Daemon(ud, reply, lastspno)' /\ SyncdTypes'
<1>. DEFINE d == [ud EXCEPT ![t].state = "DEAD"]
            r == [reply EXCEPT ![t] = NoReply]
<1>1. Ready(d, r)
  BY DeadReady
<1>2. stcheck(d, r) /\ pc' = [pc EXCEPT ![t] = "exit"]
  BY Zenon DEF Exit, Goto, stdead
<1>3. /\ d[t].state = "DEAD"
      /\ \A u \in TCM \ {t} : d[u] = ud[u]
  BY CoreTypes DEF Users
<1>. HIDE DEF d, r
<1>4. Done(d, r)
  BY <1>1, <1>2, ReadyDone
<1>5. pc'[t] = "exit" /\ \A u \in TCM \ {t} : pc'[u] = pc[u]
  BY <1>2, CoreTypes
<1>6. \A u \in TCM : pc'[u] = "exit" <=> ud'[u].state = "DEAD"
  BY <1>3, <1>4, <1>5 DEF Core, Control, Done
<1>7. \A u \in TCM : Placed(pc'[u], ic'[u], tp'[u])
  <2>1. Placed(pc'[t], ic'[t], tp'[t])
    BY <1>5 DEF Placed
  <2>. QED  BY <1>5, <2>1 DEF Core, Control
<1>8. AllKnown(ud, reply)'
  <2>1. AllKnown(ud', reply')
    BY <1>4 DEF Done
  <2>2. Known(pc'[t], ic'[t], tp'[t], deleted'[t], ud'[t], reply'[t])
    <3>1. ud'[t].state = "DEAD"
      BY <1>5, <1>6
    <3>2. reply'[t].rc = "none"
      BY <2>1, <3>1 DEF AllKnown, Known
    <3>. QED  BY <3>1, <3>2 DEF Known
  <2>3. \A u \in TCM \ {t} : Known(pc'[u], ic'[u], tp'[u], deleted'[u], ud'[u], reply'[u])
    BY <1>5, <2>1 DEF AllKnown
  <2>. QED  BY <2>2, <2>3 DEF AllKnown
<1>9. \A u \in TCM : pc'[u] = "abort" => u = Master /\ xr'.abort
  BY <1>5 DEF Core, Control
<1>10. \A u \in TCM : pc'[u] \in (Sites \ {"cleanup"}) \cup {"run"} =>
                        Floor(ud', lastspno', Before(pc'[u], ic'[u], tp'[u]))
  <2>1. pc'[t] \notin (Sites \ {"cleanup"}) \cup {"run"}
    BY <1>5 DEF Sites
  <2>. QED  BY <1>4, <1>5, <2>1, BeforeType DEF Core, Control, Done
<1>11. Daemon(ud, reply, lastspno)' /\ SyncdTypes'
  BY <1>4 DEF Done, SyncdTypes
<1>. QED  BY <1>6, <1>7, <1>8, <1>9, <1>10, <1>11 DEF Control

\* a TCM goes from one place to the next
LEMMA AfterMove ==
  ASSUME Core, NEW t \in TCM, NEW p, NEW i, NEW n,
         pc[t] # "exit", p # "exit", reply[t].rc \notin {"wait", "DONE"},
         pc' = [pc EXCEPT ![t] = p], ic' = [ic EXCEPT ![t] = i], tp' = [tp EXCEPT ![t] = n],
         \A u \in TCM \ {t} : deleted'[u] = deleted[u],
         reply'[t] = NoReply \/ (reply'[t] = reply[t] /\ reply[t].rc = "none"), \A u \in TCM \ {t} : reply'[u] = reply[u],
         reply' \in Replies, UNCHANGED <<ud, lastspno>>, xr.abort => xr'.abort,
         Placed(p, i, n), p = "abort" => t = Master /\ xr'.abort,
         p = "run" => ud[t].spno = Number("tpstart", i, n),
         p \in Sites => /\ ud[t].spno < Number(p, i, n)
                        /\ p \notin {"abort", "cleanup"} => ud[t].spno = Before(p, i, n),
         p \in (Sites \ {"cleanup"}) \cup {"run"} => Floor(ud, lastspno, Before(p, i, n))
  PROVE  Control' /\ Daemon(ud, reply, lastspno)' /\ SyncdTypes'
<1>1. /\ pc'[t] = p /\ ic'[t] = i /\ tp'[t] = n
      /\ \A u \in TCM \ {t} : pc'[u] = pc[u] /\ ic'[u] = ic[u] /\ tp'[u] = tp[u]
  BY CoreTypes
<1>2. reply'[t].rc = "none"
  BY DEF NoReply
<1>3. ud' = ud /\ lastspno' = lastspno
  OBVIOUS
<1>4. ud[t].state # "DEAD"
  BY DEF Core, Control
<1>5. \A u \in TCM : pc'[u] = "exit" <=> ud'[u].state = "DEAD"
  BY <1>1, <1>3, <1>4 DEF Core, Control
<1>6. \A u \in TCM : Placed(pc'[u], ic'[u], tp'[u])
  BY <1>1 DEF Core, Control
<1>7. AllKnown(ud, reply)'
  <2>1. Known(p, i, n, deleted'[t], ud[t], reply'[t])
    BY <1>2, <1>4 DEF Known
  <2>2. \A u \in TCM \ {t} : Known(pc[u], ic[u], tp[u], deleted[u], ud[u], reply[u])
    BY DEF Core, Control, AllKnown
  <2>3. \A u \in TCM \ {t} : Known(pc'[u], ic'[u], tp'[u], deleted'[u], ud'[u], reply'[u])
    BY <1>1, <1>3, <2>2
  <2>4. Known(pc'[t], ic'[t], tp'[t], deleted'[t], ud'[t], reply'[t])
    BY <1>1, <1>3, <2>1
  <2>. QED  BY <2>3, <2>4 DEF AllKnown
<1>8. \A u \in TCM : pc'[u] = "abort" => u = Master /\ xr'.abort
  BY <1>1 DEF Core, Control
<1>9. \A u \in TCM : pc'[u] \in (Sites \ {"cleanup"}) \cup {"run"} =>
                        Floor(ud', lastspno', Before(pc'[u], ic'[u], tp'[u]))
  BY <1>1, <1>3 DEF Core, Control
<1>10. Daemon(ud', reply', lastspno')
  <2>1. Daemon(ud, reply, lastspno)
    BY DEF Core
  <2>2. ASSUME lastspno < SPMAX, NEW u \in TCM
        PROVE  /\ Voted(ud[u]) => ud[u].spno > lastspno /\ reply'[u].rc = "wait"
               /\ ud[u].state = "NOTSYNCED" /\ ud[u].ntimedout = 0 /\ reply'[u].rc # "DONE" => ud[u].spno >= lastspno
    <3>1. /\ Voted(ud[u]) => ud[u].spno > lastspno /\ reply[u].rc = "wait"
          /\ ud[u].state = "NOTSYNCED" /\ ud[u].ntimedout = 0 /\ reply[u].rc # "DONE" => ud[u].spno >= lastspno
      BY <2>1, <2>2 DEF Daemon
    <3>2. CASE u = t
      BY <3>1, <3>2
    <3>3. CASE u # t
      BY <3>1, <3>3
    <3>. QED  BY <3>2, <3>3
  <2>3. ASSUME NEW u \in TCM, Good(reply', u)
        PROVE  /\ ud[u].state = "NOTSYNCED" /\ ud[u].spno <= lastspno
               /\ \A v \in TCM : ud[v].spno >= ud[u].spno
    <3>1. u # t
      BY <1>2, <2>3 DEF Good, Errors
    <3>2. Good(reply, u)
      BY <2>3, <3>1 DEF Good
    <3>. QED  BY <2>1, <3>2 DEF Daemon
  <2>4. lastspno = SPMAX => Dead(ud)
    BY <2>1 DEF Daemon
  <2>. QED  BY <1>3, <2>2, <2>3, <2>4 DEF Daemon
<1>11. SyncdTypes'
  BY <1>3, CoreTypes DEF SyncdTypes
<1>. QED  BY <1>5, <1>6, <1>7, <1>8, <1>9, <1>10, <1>11 DEF Control

\* where a TCM is that has been told that the others had voted
LEMMA Answered ==
  ASSUME Core, NEW t \in TCM, pc[t] \in Sites, Good(reply, t)
  PROVE  /\ ud[t].spno = Number(pc[t], ic[t], tp[t])
         /\ Floor(ud, lastspno, ud[t].spno)
         /\ reply[t].rc \notin {"none", "wait", "DONE"}
<1>1. reply[t].rc \notin {"none", "wait", "DONE"}
  BY DEF Good, Errors
<1>2. Known(pc[t], ic[t], tp[t], deleted[t], ud[t], reply[t]) /\ ud[t].state # "DEAD"
  BY SiteNumber DEF Core, Control, AllKnown
<1>3. ud[t].spno = Number(pc[t], ic[t], tp[t])
  BY <1>1, <1>2 DEF Known
<1>4. ud[t].spno <= lastspno /\ \A u \in TCM : ud[u].spno >= ud[t].spno
  BY DEF Core, Daemon
<1>5. Floor(ud, lastspno, ud[t].spno)
  BY <1>4, CoreTypes DEF Floor
<1>. QED  BY <1>1, <1>3, <1>5

LEMMA ConsumedIs ==
  ASSUME Core, NEW t \in TCM, Consumed(t)
  PROVE  /\ reply'[t] = NoReply /\ \A u \in TCM \ {t} : reply'[u] = reply[u]
         /\ reply' \in Replies /\ UNCHANGED <<ud, lastspno>>
<1>1. NoReply \in Message
  BY DEF NoReply, Message, UserState
<1>2. reply' = [reply EXCEPT ![t] = NoReply] /\ UNCHANGED <<ud, lastspno>>
  BY DEF Consumed
<1>. QED  BY <1>1, <1>2, CoreTypes DEF Replies, Message

\* AfterMove for a TCM that has been told that the others had voted
LEMMA AfterGood ==
  ASSUME Core, NEW t \in TCM, NEW p, NEW i, NEW n, pc[t] \in Sites, Good(reply, t),
         p # "exit", p # "abort", Consumed(t),
         pc' = [pc EXCEPT ![t] = p], ic' = [ic EXCEPT ![t] = i], tp' = [tp EXCEPT ![t] = n],
         \A u \in TCM \ {t} : deleted'[u] = deleted[u], xr.abort => xr'.abort,
         Placed(p, i, n),
         p = "run" => /\ Number(pc[t], ic[t], tp[t]) = Number("tpstart", i, n)
                      /\ Before("run", i, n) = Number("tpstart", i, n),
         p \in Sites => Number(pc[t], ic[t], tp[t]) < Number(p, i, n),
         p \in Sites \ {"cleanup"} => Number(pc[t], ic[t], tp[t]) = Before(p, i, n)
  PROVE  Control' /\ Daemon(ud, reply, lastspno)' /\ SyncdTypes'
<1>1. /\ ud[t].spno = Number(pc[t], ic[t], tp[t])
      /\ Floor(ud, lastspno, ud[t].spno)
      /\ reply[t].rc \notin {"none", "wait", "DONE"}
  BY Answered
<1>2. p \in (Sites \ {"cleanup"}) \cup {"run"} => Floor(ud, lastspno, Before(p, i, n))
  BY <1>1
<1>3. /\ p = "run" => ud[t].spno = Number("tpstart", i, n)
      /\ p \in Sites => /\ ud[t].spno < Number(p, i, n)
                        /\ p \notin {"abort", "cleanup"} => ud[t].spno = Before(p, i, n)
  BY <1>1
<1>4. pc[t] # "exit"
  BY DEF Sites
<1>5. /\ reply'[t] = NoReply /\ \A u \in TCM \ {t} : reply'[u] = reply[u]
      /\ reply' \in Replies /\ UNCHANGED <<ud, lastspno>>
  BY ConsumedIs
<1>. QED  BY <1>1, <1>2, <1>3, <1>4, <1>5, AfterMove

LEMMA GotoIs ==
  ASSUME Core, NEW t, NEW site, Goto(t, site), UNCHANGED <<ic, tp>>, t \in TCM
  PROVE  /\ pc' = [pc EXCEPT ![t] = site] /\ ic' = [ic EXCEPT ![t] = ic[t]] /\ tp' = [tp EXCEPT ![t] = tp[t]]
<1>1. ic \in [TCM -> 0..NIC] /\ tp \in [TCM -> Nat]
  BY DEF Core, TypeOK
<1>2. ic = [ic EXCEPT ![t] = ic[t]] /\ tp = [tp EXCEPT ![t] = tp[t]]
  BY <1>1
<1>. QED  BY <1>2 DEF Goto

LEMMA Here ==
  ASSUME Core, NEW t \in TCM, NEW site, pc[t] = site
  PROVE  /\ ic[t] \in 0..NIC /\ tp[t] \in Nat /\ Placed(site, ic[t], tp[t])
         /\ NIC \in Nat
BY CoreTypes, Bounds DEF Core, Control

LEMMA ControlStarted ==
  ASSUME Core, NEW t \in TCM, Started(t)
  PROVE  Control' /\ Daemon(ud, reply, lastspno)' /\ SyncdTypes'
<1>1. /\ pc[t] = "exec" /\ Good(reply, t) /\ Consumed(t)
      /\ Goto(t, "startup") /\ UNCHANGED <<ic, tp, deleted, xr>>
  BY DEF Started, Got, Good
<1>2. ic[t] \in 0..NIC /\ tp[t] \in Nat /\ Placed("exec", ic[t], tp[t])
  BY <1>1, Here
<1>3. Placed("startup", ic[t], tp[t])
  BY <1>2 DEF Placed
<1>4. /\ Number("exec", ic[t], tp[t]) = Before("startup", ic[t], tp[t])
      /\ Number("exec", ic[t], tp[t]) < Number("startup", ic[t], tp[t])
  BY <1>2, <1>3, SiteIs
<1>5. "exec" \in Sites
  BY DEF Sites
<1>6. /\ pc' = [pc EXCEPT ![t] = "startup"]
      /\ ic' = [ic EXCEPT ![t] = ic[t]] /\ tp' = [tp EXCEPT ![t] = tp[t]]
  BY <1>1, GotoIs
<1>. QED  BY <1>1, <1>3, <1>4, <1>5, <1>6, AfterGood

LEMMA ControlIcStart ==
  ASSUME Core, NEW t \in TCM, icstart2(t)
  PROVE  Control' /\ Daemon(ud, reply, lastspno)' /\ SyncdTypes'
<1>1. /\ pc[t] = "icstart" /\ Good(reply, t) /\ Consumed(t)
      /\ Goto(t, "tpstart") /\ tp' = [tp EXCEPT ![t] = 1] /\ UNCHANGED <<ic, deleted, xr>>
  BY DEF icstart2, Got, Good
<1>2. ic[t] \in 0..NIC /\ tp[t] \in Nat /\ Placed("icstart", ic[t], tp[t])
  BY <1>1, Here
<1>3. Placed("tpstart", ic[t], 1)
  <2>1. ic[t] \in 1..NIC
    BY <1>2 DEF Placed
  <2>2. tpcount[ic[t]] \in Nat /\ 1 <= tpcount[ic[t]]
    BY <2>1, Bounds
  <2>. QED  BY <2>1, <2>2 DEF Placed
<1>4. /\ Number("icstart", ic[t], tp[t]) = (ic[t] + 1) * 65536 /\ ic[t] \in Nat
      /\ Number("tpstart", ic[t], 1) = (ic[t] + 1) * 65536 + 1 * 2
      /\ Before("tpstart", ic[t], 1) = (ic[t] + 1) * 65536
  <2>1. Number("icstart", ic[t], tp[t]) = (ic[t] + 1) * 65536 /\ ic[t] \in Nat
    BY <1>2, SiteIs
  <2>2. 1 \in Nat
    OBVIOUS
  <2>3. /\ Number("tpstart", ic[t], 1) = (ic[t] + 1) * 65536 + 1 * 2
        /\ Before("tpstart", ic[t], 1) = (ic[t] + 1) * 65536
    BY <1>2, <1>3, <2>2, SiteIs
  <2>. QED  BY <2>1, <2>3
<1>5. /\ Number("icstart", ic[t], tp[t]) = Before("tpstart", ic[t], 1)
      /\ Number("icstart", ic[t], tp[t]) < Number("tpstart", ic[t], 1)
  BY <1>4
<1>6. "icstart" \in Sites
  BY DEF Sites
<1>7. pc' = [pc EXCEPT ![t] = "tpstart"] /\ ic' = [ic EXCEPT ![t] = ic[t]]
  <2>1. ic \in [TCM -> 0..NIC]
    BY DEF Core, TypeOK
  <2>. QED  BY <1>1, <2>1 DEF Goto
<1>. QED  BY <1>1, <1>3, <1>5, <1>6, <1>7, AfterGood

\* the move to p, i, n leads on from the number m
Onwards(m, p, i, n) ==
    /\ Placed(p, i, n) /\ i \in 0..NIC /\ n \in Nat
    /\ m < Number(p, i, n)
    /\ p # "cleanup" => m = Before(p, i, n)

LEMMA NextIcIs ==
  ASSUME Core, NEW t \in TCM, NextIc(t),
         pc[t] = "startup" \/ (pc[t] = "tpend" /\ ~(tp[t] < tpcount[ic[t]]))
  PROVE  \E p \in {"icstart", "cleanup"}, i \in 0..NIC :
            /\ pc' = [pc EXCEPT ![t] = p] /\ ic' = [ic EXCEPT ![t] = i] /\ tp' = [tp EXCEPT ![t] = 0]
            /\ Onwards(Number(pc[t], ic[t], tp[t]), p, i, 0)
            /\ (p = "cleanup") = (ic[t] = NIC)
<1>. DEFINE p == IF ic[t] < NIC THEN "icstart" ELSE "cleanup"
            i == IF ic[t] < NIC THEN ic[t] + 1 ELSE ic[t]
<1>1. /\ ic[t] \in Nat /\ ic[t] <= NIC /\ tp[t] \in Nat /\ NIC \in Nat
      /\ Placed(pc[t], ic[t], tp[t]) /\ ic[t] \in 0..NIC
  BY Here
<1>2. pc' = [pc EXCEPT ![t] = p] /\ tp' = [tp EXCEPT ![t] = 0] /\ ic' = [ic EXCEPT ![t] = i]
  <2>1. ic \in [TCM -> 0..NIC]
    BY DEF Core, TypeOK
  <2>. QED  BY <2>1 DEF NextIc, Goto
<1>3. \A j \in Nat : 1 <= j /\ j <= NIC =>
            tpcount[j] \in Nat /\ 1 <= tpcount[j] /\ tpcount[j] <= 32766
  BY Bounds
<1>4. /\ pc[t] = "startup" => Number(pc[t], ic[t], tp[t]) = 2 /\ ic[t] = 0
      /\ pc[t] = "tpend" => /\ Number(pc[t], ic[t], tp[t]) = (ic[t] + 1) * 65536 + tpcount[ic[t]] * 2 + 1
                            /\ 1 <= ic[t]
  <2>1. pc[t] = "startup" => Number(pc[t], ic[t], tp[t]) = 2 /\ ic[t] = 0
    <3>1. pc[t] = "startup" => ic[t] = 0
      BY <1>1 DEF Placed
    <3>2. pc[t] = "startup" => Number(pc[t], ic[t], tp[t]) = 2
      BY NumberIs
    <3>. QED  BY <3>1, <3>2
  <2>2. ASSUME pc[t] = "tpend"
        PROVE  /\ Number(pc[t], ic[t], tp[t]) = (ic[t] + 1) * 65536 + tpcount[ic[t]] * 2 + 1
               /\ 1 <= ic[t]
    <3>1. /\ Number(pc[t], ic[t], tp[t]) = (ic[t] + 1) * 65536 + tp[t] * 2 + 1
          /\ 1 <= ic[t] /\ tp[t] <= tpcount[ic[t]] /\ tpcount[ic[t]] \in Nat
      BY <1>1, <2>2, SiteIs
    <3>2. tp[t] = tpcount[ic[t]]
      BY <1>1, <2>2, <3>1
    <3>. QED  BY <3>1, <3>2
  <2>. QED  BY <2>1, <2>2
<1>5. CASE ic[t] < NIC
  <2>1. p = "icstart" /\ i = ic[t] + 1 /\ i \in 0..NIC /\ 0 \in Nat
    BY <1>1, <1>5
  <2>2. Placed(p, i, 0)
    BY <1>1, <1>5, <2>1 DEF Placed
  <2>3. /\ Number(p, i, 0) = (i + 1) * 65536
        /\ i = 1 => Before(p, i, 0) = 2
        /\ i # 1 => Before(p, i, 0) = i * 65536 + tpcount[i - 1] * 2 + 1
    <3>. HIDE DEF p, i
    <3>. QED  BY <2>1, <2>2, SiteIs
  <2>4. i - 1 = ic[t]
    BY <1>1, <2>1
  <2>5. Number(pc[t], ic[t], tp[t]) = Before(p, i, 0) /\ Number(pc[t], ic[t], tp[t]) < Number(p, i, 0)
    <3>. HIDE DEF p
    <3>1. CASE pc[t] = "startup"
      BY <1>1, <1>4, <2>1, <2>3, <3>1
    <3>2. CASE pc[t] = "tpend"
      <4>1. tpcount[ic[t]] \in Nat /\ tpcount[ic[t]] <= 32766 /\ 1 <= ic[t]
        BY <1>1, <1>3, <1>4, <3>2
      <4>. QED  BY <1>1, <1>4, <2>1, <2>3, <2>4, <3>2, <4>1
    <3>. QED  BY <3>1, <3>2
  <2>6. p \in {"icstart", "cleanup"} /\ (p = "cleanup") = (ic[t] = NIC)
    BY <1>1, <1>5, <2>1
  <2>. HIDE DEF p, i
  <2>. QED  BY <1>2, <2>1, <2>2, <2>5, <2>6 DEF Onwards
<1>6. CASE ~(ic[t] < NIC)
  <2>1. p = "cleanup" /\ i = ic[t] /\ ic[t] = NIC
    BY <1>1, <1>6
  <2>2. Placed(p, i, 0)
    BY <2>1 DEF Placed
  <2>3. Number(p, i, 0) = (NIC + 2) * 65536 + 2
    BY <2>1, NumberIs
  <2>4. Number(pc[t], ic[t], tp[t]) < Number(p, i, 0)
    <3>. HIDE DEF p
    <3>1. CASE pc[t] = "startup"
      BY <1>1, <1>4, <2>1, <2>3, <3>1
    <3>2. CASE pc[t] = "tpend"
      <4>1. tpcount[ic[t]] \in Nat /\ tpcount[ic[t]] <= 32766
        BY <1>1, <1>3, <1>4, <3>2
      <4>. QED  BY <1>1, <1>4, <2>1, <2>3, <3>2, <4>1
    <3>. QED  BY <3>1, <3>2
  <2>5. i \in 0..NIC /\ 0 \in Nat /\ p \in {"icstart", "cleanup"} /\ (p = "cleanup") = (ic[t] = NIC)
    BY <1>1, <2>1
  <2>. HIDE DEF p, i
  <2>. QED  BY <1>2, <2>1, <2>2, <2>4, <2>5 DEF Onwards
<1>. QED  BY <1>5, <1>6

\* after a TP: the next one, if there is one
LEMMA NextTpIs ==
  ASSUME Core, NEW t \in TCM, NextTp(t), pc[t] = "tpend"
  PROVE  \E p \in {"tpstart", "icstart", "cleanup"}, i \in 0..NIC, n \in Nat :
            /\ pc' = [pc EXCEPT ![t] = p] /\ ic' = [ic EXCEPT ![t] = i] /\ tp' = [tp EXCEPT ![t] = n]
            /\ Onwards(Number(pc[t], ic[t], tp[t]), p, i, n)
            /\ p = "tpstart" => i = ic[t]
<1>1. CASE tp[t] < tpcount[ic[t]]
  <2>. DEFINE n == tp[t] + 1
  <2>1. /\ ic[t] \in 0..NIC /\ tp[t] \in Nat /\ Placed("tpend", ic[t], tp[t])
    BY Here
  <2>2. /\ ic[t] \in Nat /\ 1 <= ic[t] /\ ic[t] <= NIC
        /\ 1 <= tp[t] /\ tpcount[ic[t]] \in Nat /\ NIC \in Nat
        /\ Number(pc[t], ic[t], tp[t]) = (ic[t] + 1) * 65536 + tp[t] * 2 + 1
    BY <2>1, SiteIs, Bounds
  <2>3. Placed("tpstart", ic[t], n) /\ n \in Nat /\ n # 1
    BY <1>1, <2>1, <2>2 DEF Placed
  <2>4. /\ Number("tpstart", ic[t], n) = (ic[t] + 1) * 65536 + n * 2
        /\ Before("tpstart", ic[t], n) = (ic[t] + 1) * 65536 + n * 2 - 1
    <3>. HIDE DEF n
    <3>. QED  BY <2>1, <2>3, SiteIs
  <2>5. /\ Number(pc[t], ic[t], tp[t]) = Before("tpstart", ic[t], n)
        /\ Number(pc[t], ic[t], tp[t]) < Number("tpstart", ic[t], n)
    BY <2>1, <2>2, <2>4
  <2>6. /\ pc' = [pc EXCEPT ![t] = "tpstart"] /\ ic' = [ic EXCEPT ![t] = ic[t]]
        /\ tp' = [tp EXCEPT ![t] = n]
    <3>1. ic \in [TCM -> 0..NIC]
      BY DEF Core, TypeOK
    <3>. QED  BY <1>1, <3>1 DEF NextTp, Goto
  <2>. HIDE DEF n
  <2>. QED  BY <2>1, <2>3, <2>5, <2>6 DEF Onwards
<1>2. CASE ~(tp[t] < tpcount[ic[t]])
  <2>1. NextIc(t)
    BY <1>2 DEF NextTp
  <2>. QED  BY <1>2, <2>1, NextIcIs
<1>. QED  BY <1>1, <1>2

LEMMA ControlOnwards ==
  ASSUME Core, NEW t \in TCM, NEW p \in {"tpstart", "icstart", "cleanup"}, NEW i, NEW n,
         pc[t] \in Sites, Good(reply, t), Consumed(t),
         pc' = [pc EXCEPT ![t] = p], ic' = [ic EXCEPT ![t] = i], tp' = [tp EXCEPT ![t] = n],
         Onwards(Number(pc[t], ic[t], tp[t]), p, i, n),
         \A u \in TCM \ {t} : deleted'[u] = deleted[u], xr.abort => xr'.abort
  PROVE  Control' /\ Daemon(ud, reply, lastspno)' /\ SyncdTypes'
<1>1. /\ p # "exit" /\ p # "abort" /\ p # "run"
  OBVIOUS
<1>2. /\ Placed(p, i, n)
      /\ Number(pc[t], ic[t], tp[t]) < Number(p, i, n)
      /\ p # "cleanup" => Number(pc[t], ic[t], tp[t]) = Before(p, i, n)
  BY DEF Onwards
<1>. QED  BY <1>1, <1>2, AfterGood

LEMMA ControlStartup ==
  ASSUME Core, NEW t \in TCM, tet_startup(t)
  PROVE  Control' /\ Daemon(ud, reply, lastspno)' /\ SyncdTypes'
<1>1. /\ pc[t] = "startup" /\ Good(reply, t) /\ Consumed(t) /\ NextIc(t) /\ UNCHANGED xr
  BY DEF tet_startup, Got, Good
<1>2. \A u \in TCM \ {t} : deleted'[u] = deleted[u]
  <2>1. deleted \in [TCM -> SUBSET Deletable]
    BY DEF Core, TypeOK
  <2>. QED  BY <2>1 DEF tet_startup, tet_delete
<1>3. "startup" \in Sites
  BY DEF Sites
<1>4. PICK p \in {"icstart", "cleanup"}, i \in 0..NIC :
            /\ pc' = [pc EXCEPT ![t] = p] /\ ic' = [ic EXCEPT ![t] = i] /\ tp' = [tp EXCEPT ![t] = 0]
            /\ Onwards(Number(pc[t], ic[t], tp[t]), p, i, 0)
  BY <1>1, NextIcIs
<1>. QED  BY <1>1, <1>2, <1>3, <1>4, ControlOnwards

LEMMA ControlAfterTp ==
  ASSUME Core, NEW t \in TCM, AfterTp(t), pc[t] = "tpend", reply[t].rc = "OK", xr.abort => xr'.abort
  PROVE  Control' /\ Daemon(ud, reply, lastspno)' /\ SyncdTypes'
<1>1. Good(reply, t) /\ Consumed(t) /\ NextTp(t) /\ UNCHANGED deleted
  BY DEF AfterTp, Good
<1>2. pc[t] \in Sites
  BY DEF Sites
<1>3. PICK p \in {"tpstart", "icstart", "cleanup"}, i \in 0..NIC, n \in Nat :
            /\ pc' = [pc EXCEPT ![t] = p] /\ ic' = [ic EXCEPT ![t] = i] /\ tp' = [tp EXCEPT ![t] = n]
            /\ Onwards(Number(pc[t], ic[t], tp[t]), p, i, n)
  BY <1>1, NextTpIs
<1>. QED  BY <1>1, <1>2, <1>3, ControlOnwards

\* the errors that a site expects tell of votes
LEMMA ExpectedIsGood ==
  ASSUME Core, NEW t \in TCM
  PROVE  /\ ReadyForTp(t) => pc[t] = "tpstart" /\ Good(reply, t)
         /\ icstartAborted(t) => pc[t] = "icstart" /\ Good(reply, t) /\ reply[t].rc \in Errors
         /\ Aborted(t) => pc[t] = "abort" /\ Good(reply, t)
<1>1. reply[t].state \in [TCM -> UserState]
  BY CoreTypes DEF Message
<1>2. ReadyForTp(t) => pc[t] = "tpstart" /\ Good(reply, t)
  BY DEF ReadyForTp, Got, Unexpected, OthersVoted, Good
<1>3. icstartAborted(t) => pc[t] = "icstart" /\ Good(reply, t) /\ reply[t].rc \in Errors
  <2>1. SUFFICES ASSUME icstartAborted(t)
                 PROVE  pc[t] = "icstart" /\ Good(reply, t) /\ reply[t].rc \in Errors
    OBVIOUS
  <2>2. Got(t, "icstart", Errors) /\ ~Unexpected(t)
    BY <2>1 DEF icstartAborted
  <2>3. \A u \in TCM \ {t} : reply[t].state[u] = "SYNCYES" \/ reply[t].state[u] = "SYNCNO"
    BY <2>2 DEF Unexpected
  <2>. QED  BY <2>2, <2>3 DEF Got, Good, Expected
<1>4. Aborted(t) => pc[t] = "abort" /\ Good(reply, t)
  BY DEF Aborted, Got, Unexpected, OthersVoted, Good
<1>. QED  BY <1>2, <1>3, <1>4

LEMMA ControlToCleanup ==
  ASSUME Core, NEW t \in TCM, icstartAborted(t) \/ Aborted(t)
  PROVE  Control' /\ Daemon(ud, reply, lastspno)' /\ SyncdTypes'
<1>1. /\ pc[t] \in {"icstart", "abort"} /\ Good(reply, t) /\ Consumed(t)
      /\ Goto(t, "cleanup") /\ UNCHANGED <<ic, tp, deleted, xr>>
  BY ExpectedIsGood DEF icstartAborted, Aborted
<1>2. pc[t] \in Sites \ {"cleanup"}
  BY <1>1 DEF Sites
<1>3. ic[t] \in 0..NIC /\ tp[t] \in Nat /\ Placed(pc[t], ic[t], tp[t])
  BY Here
<1>4. Placed("cleanup", ic[t], tp[t])
  BY DEF Placed
<1>5. Number(pc[t], ic[t], tp[t]) < Number("cleanup", ic[t], tp[t])
  <2>1. Number(pc[t], ic[t], tp[t]) < Number("cleanup", 0, 0)
    BY <1>2, <1>3, NumberType
  <2>2. Number("cleanup", 0, 0) = Number("cleanup", ic[t], tp[t])
    BY NumberIs
  <2>. QED  BY <2>1, <2>2
<1>6. /\ pc' = [pc EXCEPT ![t] = "cleanup"]
      /\ ic' = [ic EXCEPT ![t] = ic[t]] /\ tp' = [tp EXCEPT ![t] = tp[t]]
  BY <1>1, GotoIs
<1>. QED  BY <1>1, <1>2, <1>4, <1>5, <1>6, AfterGood

LEMMA ControlUninitiated ==
  ASSUME Core, NEW t \in TCM, Uninitiated(t)
  PROVE  Control' /\ Daemon(ud, reply, lastspno)' /\ SyncdTypes'
<1>1. /\ pc[t] = "tpstart" /\ Good(reply, t) /\ Consumed(t)
      /\ Goto(t, "tpend") /\ UNCHANGED <<ic, tp, deleted, xr>>
  BY ExpectedIsGood DEF Uninitiated
<1>2. "tpstart" \in Sites
  BY DEF Sites
<1>3. /\ ic[t] \in 0..NIC /\ tp[t] \in Nat /\ Placed("tpstart", ic[t], tp[t])
      /\ ic[t] \in Nat
  BY <1>1, Here
<1>4. Placed("tpend", ic[t], tp[t])
  BY <1>3 DEF Placed
<1>5. /\ Number("tpstart", ic[t], tp[t]) < Number("tpend", ic[t], tp[t])
      /\ Number("tpstart", ic[t], tp[t]) = Before("tpend", ic[t], tp[t])
  BY <1>3, <1>4, SiteIs
<1>6. /\ pc' = [pc EXCEPT ![t] = "tpend"]
      /\ ic' = [ic EXCEPT ![t] = ic[t]] /\ tp' = [tp EXCEPT ![t] = tp[t]]
  BY <1>1, GotoIs
<1>. QED  BY <1>1, <1>2, <1>4, <1>5, <1>6, AfterGood

LEMMA ControlInvoke ==
  ASSUME Core, NEW t \in TCM, tet_invoketp(t)
  PROVE  Control' /\ Daemon(ud, reply, lastspno)' /\ SyncdTypes'
<1>1. /\ pc[t] = "tpstart" /\ Good(reply, t) /\ Consumed(t)
      /\ Goto(t, "run") /\ UNCHANGED <<ic, tp, deleted, xr>>
  BY ExpectedIsGood DEF tet_invoketp
<1>2. "tpstart" \in Sites /\ "run" \notin Sites
  BY DEF Sites
<1>3. /\ ic[t] \in 0..NIC /\ tp[t] \in Nat /\ Placed("tpstart", ic[t], tp[t])
  BY <1>1, Here
<1>4. Placed("run", ic[t], tp[t])
  BY <1>3 DEF Placed
<1>5. Before("run", ic[t], tp[t]) = Number("tpstart", ic[t], tp[t])
  BY <1>3, <1>4, SiteIs
<1>6. /\ pc' = [pc EXCEPT ![t] = "run"]
      /\ ic' = [ic EXCEPT ![t] = ic[t]] /\ tp' = [tp EXCEPT ![t] = tp[t]]
  BY <1>1, GotoIs
<1>. QED  BY <1>1, <1>2, <1>4, <1>5, <1>6, AfterGood

LEMMA ControlReturns ==
  ASSUME Core, NEW t \in TCM, TpReturns(t)
  PROVE  Control' /\ Daemon(ud, reply, lastspno)' /\ SyncdTypes'
<1>1. /\ pc[t] = "run" /\ Goto(t, "tpend") /\ UNCHANGED <<ic, tp, sdvars>>
  BY DEF TpReturns
<1>2. xr.abort => xr'.abort
  <2>1. xr \in [ic : 0..NIC, tp : Nat, abort : BOOLEAN]
    BY DEF Core, TypeOK
  <2>2. PICK abort : xr' = [xr EXCEPT !.abort = @ \/ (abort /\ InProgress(t))]
    BY Zenon DEF TpReturns
  <2>3. xr'.abort = (xr.abort \/ (abort /\ InProgress(t)))
    BY <2>1, <2>2, Zenon
  <2>. QED  BY <2>3, Zenon
<1>3. \A u \in TCM \ {t} : deleted'[u] = deleted[u]
  <2>1. deleted \in [TCM -> SUBSET Deletable]
    BY DEF Core, TypeOK
  <2>. QED  BY <2>1 DEF TpReturns, tet_delete
<1>4. /\ ic[t] \in 0..NIC /\ tp[t] \in Nat /\ Placed("run", ic[t], tp[t])
  BY <1>1, Here
<1>5. Placed("tpend", ic[t], tp[t])
  BY <1>4 DEF Placed
<1>6. /\ Before("run", ic[t], tp[t]) = Number("tpstart", ic[t], tp[t])
      /\ Before("tpend", ic[t], tp[t]) = Number("tpstart", ic[t], tp[t])
      /\ Before("tpend", ic[t], tp[t]) < Number("tpend", ic[t], tp[t])
  BY <1>4, <1>5, SiteIs
<1>7. /\ pc' = [pc EXCEPT ![t] = "tpend"]
      /\ ic' = [ic EXCEPT ![t] = ic[t]] /\ tp' = [tp EXCEPT ![t] = tp[t]]
  BY <1>1, GotoIs
<1>8. reply[t].rc = "none" /\ ud[t].spno = Number("tpstart", ic[t], tp[t])
  <2>1. ud[t].state # "DEAD" /\ Known(pc[t], ic[t], tp[t], deleted[t], ud[t], reply[t])
    BY <1>1 DEF Core, Control, AllKnown
  <2>. QED  BY <1>1, <2>1 DEF Known
<1>9. Floor(ud, lastspno, Before("tpend", ic[t], tp[t]))
  BY <1>1, <1>6 DEF Core, Control
<1>10. UNCHANGED <<ud, lastspno>> /\ reply' = reply /\ reply \in Replies
  BY <1>1, CoreTypes DEF sdvars
<1>11. /\ pc[t] # "exit" /\ "tpend" # "exit" /\ "tpend" # "abort" /\ "tpend" # "run"
       /\ reply[t].rc \notin {"wait", "DONE"} /\ reply'[t] = reply[t]
       /\ \A u \in TCM \ {t} : reply'[u] = reply[u]
       /\ reply' \in Replies
       /\ ud[t].spno = Before("tpend", ic[t], tp[t]) /\ ud[t].spno < Number("tpend", ic[t], tp[t])
  BY <1>1, <1>6, <1>8, <1>10
<1>. QED  BY <1>2, <1>3, <1>5, <1>7, <1>8, <1>9, <1>10, <1>11, AfterMove

LEMMA ControlAbort ==
  ASSUME Core, NEW t \in TCM, pc[t] = "tpend", reply[t].rc \notin {"none", "wait", "DONE"}, t = Master,
         Consumed(t), Goto(t, "abort"), UNCHANGED <<ic, tp, deleted>>, xr.abort, xr'.abort
  PROVE  Control' /\ Daemon(ud, reply, lastspno)' /\ SyncdTypes'
<1>1. /\ ic[t] \in 0..NIC /\ tp[t] \in Nat /\ Placed("tpend", ic[t], tp[t]) /\ NIC \in Nat
  BY Here
<1>2. Placed("abort", ic[t], tp[t])
  BY <1>1 DEF Placed
<1>3. Before("tpend", ic[t], tp[t]) = Before("abort", ic[t], tp[t])
  BY <1>1, <1>2, SiteIs
<1>4. Number("tpend", ic[t], tp[t]) < Number("abort", ic[t], tp[t])
  <2>1. /\ Number("tpend", ic[t], tp[t]) = (ic[t] + 1) * 65536 + tp[t] * 2 + 1
        /\ ic[t] \in Nat /\ ic[t] <= NIC /\ tp[t] <= tpcount[ic[t]]
        /\ tpcount[ic[t]] \in Nat /\ tpcount[ic[t]] <= 32766
    BY <1>1, SiteIs
  <2>2. Number("abort", ic[t], tp[t]) = (NIC + 1) * 65536 + 65535
    BY NumberIs
  <2>. QED  BY <1>1, <2>1, <2>2
<1>5. "tpend" \in Sites \ {"cleanup"}
  BY DEF Sites
<1>6. /\ ud[t].spno = Number("tpend", ic[t], tp[t])
      /\ Floor(ud, lastspno, Before("abort", ic[t], tp[t]))
  <2>1. ud[t].state # "DEAD" /\ Known(pc[t], ic[t], tp[t], deleted[t], ud[t], reply[t])
    BY <1>5, SiteNumber DEF Core, Control, AllKnown
  <2>2. Floor(ud, lastspno, Before("tpend", ic[t], tp[t]))
    BY <1>5 DEF Core, Control
  <2>. QED  BY <1>3, <1>5, <2>1, <2>2 DEF Known
<1>7. /\ reply'[t] = NoReply /\ \A u \in TCM \ {t} : reply'[u] = reply[u]
      /\ reply' \in Replies /\ UNCHANGED <<ud, lastspno>>
  BY ConsumedIs
<1>8. /\ pc' = [pc EXCEPT ![t] = "abort"]
      /\ ic' = [ic EXCEPT ![t] = ic[t]] /\ tp' = [tp EXCEPT ![t] = tp[t]]
  BY GotoIs
<1>9. /\ pc[t] # "exit" /\ "abort" # "exit" /\ "abort" # "run"
      /\ reply[t].rc \notin {"wait", "DONE"}
      /\ ud[t].spno < Number("abort", ic[t], tp[t])
      /\ \A u \in TCM \ {t} : deleted'[u] = deleted[u]
  BY <1>4, <1>6
<1>10. /\ "abort" \in Sites => /\ ud[t].spno < Number("abort", ic[t], tp[t])
                               /\ "abort" \notin {"abort", "cleanup"} => ud[t].spno = Before("abort", ic[t], tp[t])
       /\ "abort" \in (Sites \ {"cleanup"}) \cup {"run"} => Floor(ud, lastspno, Before("abort", ic[t], tp[t]))
       /\ "abort" = "run" => ud[t].spno = Number("tpstart", ic[t], tp[t])
       /\ "abort" = "abort" => t = Master /\ xr'.abort
       /\ xr.abort => xr'.abort
  BY <1>6, <1>9
<1>. QED  BY ONLY <1>2, <1>7, <1>8, <1>9, <1>10, AfterMove, Core, t \in TCM

LEMMA ControlTpEnd ==
  ASSUME Core, NEW t \in TCM, mtcm_tpend2(t) \/ tpend2(t)
  PROVE  Control' /\ Daemon(ud, reply, lastspno)' /\ SyncdTypes'
<1>0. xr \in [ic : 0..NIC, tp : Nat, abort : BOOLEAN]
  BY DEF Core, TypeOK
<1>1. CASE tpend2(t)
  BY <1>1, ControlAfterTp DEF tpend2, Got
<1>2. CASE mtcm_tpend2(t)
  <2>1. pc[t] = "tpend" /\ t = Master /\ reply[t].rc \in {"OK"} \cup Errors
    BY <1>2 DEF mtcm_tpend2, Got
  <2>2. CASE xr.abort
    <3>1. /\ xr' = IcEnded(TpEnded) /\ Consumed(t) /\ Goto(t, "abort") /\ UNCHANGED <<ic, tp, deleted>>
      BY <1>2, <2>2 DEF mtcm_tpend2
    <3>2. xr'.abort
      BY <1>0, <2>2, <3>1 DEF IcEnded, TpEnded
    <3>. QED  BY <2>1, <2>2, <3>1, <3>2, ControlAbort DEF Errors
  <2>3. CASE ~xr.abort /\ reply[t].rc = "OK"
    <3>1. AfterTp(t)
      BY <1>2, <2>3 DEF mtcm_tpend2
    <3>. QED  BY <2>1, <2>3, <3>1, ControlAfterTp
  <2>4. CASE ~xr.abort /\ reply[t].rc # "OK"
    <3>1. ExitFailure(t)
      BY <1>2, <2>4 DEF mtcm_tpend2
    <3>. QED  BY <2>4, <3>1, AfterExit DEF ExitFailure
  <2>. QED  BY <2>2, <2>3, <2>4
<1>. QED  BY <1>1, <1>2

LEMMA ControlExit ==
  ASSUME Core, NEW t \in TCM, SyncError(t) \/ tet_docleanup(t) \/ Die(t)
  PROVE  Control' /\ Daemon(ud, reply, lastspno)' /\ SyncdTypes'
<1>1. Exit(t) /\ UNCHANGED <<ic, tp, deleted, xr>>
  BY DEF SyncError, ExitFailure, tet_docleanup, Die
<1>. QED  BY <1>1, AfterExit

LEMMA ControlVote ==
  ASSUME Core, NEW t \in TCM, tet_tcm_async(t)
  PROVE  Control' /\ Daemon(ud, reply, lastspno)' /\ SyncdTypes'
<1>1. /\ pc[t] \in Sites /\ reply[t].rc = "none" /\ TellStart(t) /\ op_async(t, Spno(t), Vote(t))
      /\ UNCHANGED <<pc, ic, tp, deleted>>
  BY DEF tet_tcm_async, tcmvars
<1>2. xr.abort => xr'.abort
  <2>1. xr \in [ic : 0..NIC, tp : Nat, abort : BOOLEAN]
    BY DEF Core, TypeOK
  <2>. QED  BY <1>1, <2>1 DEF TellStart
<1>3. CASE ud[t].ntimedout > 0 /\ Spno(t) <= lastspno
  <2>1. /\ ud' = [ud EXCEPT ![t].ntimedout = @ - 1]
        /\ reply' = [reply EXCEPT ![t].rc = "DONE"]
        /\ lastspno' = lastspno
    BY <1>1, <1>3 DEF op_async
  <2>2. Done(ud, reply)
    BY <1>1, <1>3, <2>1, LateDone
  <2>. QED  BY <1>1, <1>2, <2>2, AfterVote
<1>4. CASE ~(ud[t].ntimedout > 0 /\ Spno(t) <= lastspno)
  <2>. DEFINE d == [ud EXCEPT ![t] = [state |-> Vote(t), spno |-> Spno(t), ntimedout |-> 0]]
              r == [reply EXCEPT ![t] = Waiting]
  <2>1. stcheck(d, r)
    BY <1>1, <1>4, Zenon DEF op_async
  <2>2. Ready(d, r)
    BY <1>1, <1>4, VoteReady
  <2>3. \A u \in TCM : d[u].state = "DEAD" <=> ud[u].state = "DEAD"
    <3>1. d[t].state = Vote(t) /\ \A u \in TCM \ {t} : d[u] = ud[u]
      BY CoreTypes DEF Users
    <3>2. Vote(t) # "DEAD"
      BY DEF Vote
    <3>3. ud[t].state # "DEAD"
      BY <1>1, SiteNumber
    <3>. QED  BY <3>1, <3>2, <3>3
  <2>. HIDE DEF d, r
  <2>4. Done(d, r)
    BY <2>1, <2>2, ReadyDone
  <2>. QED  BY <1>1, <1>2, <2>3, <2>4, AfterVote
<1>. QED  BY <1>3, <1>4

LEMMA ControlTimeOut ==
  ASSUME Core, NEW t \in TCM, TimeOut(t)
  PROVE  Control' /\ Daemon(ud, reply, lastspno)' /\ SyncdTypes'
<1>. DEFINE d == [ud EXCEPT ![t].state = "TIMEDOUT"]
<1>1. /\ reply[t].rc = "wait" /\ stcheck(d, reply)
      /\ UNCHANGED <<pc, ic, tp, deleted, xr>>
  BY Zenon DEF TimeOut, tcmvars
<1>2. Voted(ud[t]) /\ Ready(d, reply)
  BY <1>1, TimeReady
<1>3. \A u \in TCM : d[u].state = "DEAD" <=> ud[u].state = "DEAD"
  <2>1. d[t].state = "TIMEDOUT" /\ \A u \in TCM \ {t} : d[u] = ud[u]
    BY CoreTypes DEF Users
  <2>. QED  BY <1>2, <2>1 DEF Voted
<1>. HIDE DEF d
<1>4. Done(d, reply)
  BY <1>1, <1>2, ReadyDone
<1>. QED  BY <1>1, <1>3, <1>4, AfterVote

-----------------------------------------------------------------------------
(* Types.                                                                  *)

\* the part of TypeOK that is not about SYNCD
PlaceTypes == /\ pc \in [TCM -> Sites \cup {"run", "exit"}]
              /\ ic \in [TCM -> 0..NIC] /\ tp \in [TCM -> Nat]
TestTypes == /\ deleted \in [TCM -> SUBSET Deletable]
             /\ tet_XSync_del \in [TCM -> BOOLEAN]
             /\ cleaned \subseteq TCM /\ failed \subseteq TCM
             /\ xr \in [ic : 0..NIC, tp : Nat, abort : BOOLEAN]
             /\ vetoed \subseteq TP /\ lost \in BOOLEAN
             /\ ran \in [TCM -> SUBSET TP] /\ notrun \in [TCM -> SUBSET TP]
             /\ dead \in 0..MaxDead /\ timeouts \in 0..MaxTimeouts

LEMMA TypeParts ==
  TypeOK <=> SyncdTypes /\ PlaceTypes /\ TestTypes
BY DEF TypeOK, SyncdTypes, PlaceTypes, TestTypes, Users, Replies

LEMMA TypePartsNext ==
  ASSUME SyncdTypes', PlaceTypes', TestTypes'
  PROVE  TypeOK'
BY DEF TypeOK, SyncdTypes, PlaceTypes, TestTypes, Users, Replies

LEMMA GotoTypes ==
  ASSUME PlaceTypes, NEW t \in TCM, NEW p \in Sites \cup {"run", "exit"}, Goto(t, p), UNCHANGED <<ic, tp>>
  PROVE  PlaceTypes'
BY DEF PlaceTypes, Goto

LEMMA NextIcTypes ==
  ASSUME PlaceTypes, NEW t \in TCM, NextIc(t)
  PROVE  PlaceTypes'
<1>1. NIC \in Nat
  BY Bounds
<1>2. (IF ic[t] < NIC THEN ic[t] + 1 ELSE ic[t]) \in 0..NIC
  BY <1>1 DEF PlaceTypes
<1>3. ic' \in [TCM -> 0..NIC]
  BY <1>2 DEF PlaceTypes, NextIc
<1>4. tp' \in [TCM -> Nat]
  BY DEF PlaceTypes, NextIc
<1>5. pc' \in [TCM -> Sites \cup {"run", "exit"}]
  BY DEF PlaceTypes, NextIc, Goto, Sites
<1>. QED  BY <1>3, <1>4, <1>5 DEF PlaceTypes

LEMMA NextTpTypes ==
  ASSUME PlaceTypes, NEW t \in TCM, NextTp(t)
  PROVE  PlaceTypes'
<1>1. CASE tp[t] < tpcount[ic[t]]
  BY <1>1 DEF PlaceTypes, NextTp, Goto, Sites
<1>2. CASE ~(tp[t] < tpcount[ic[t]])
  BY <1>2, NextIcTypes DEF NextTp
<1>. QED  BY <1>1, <1>2

LEMMA XresdTypes ==
  ASSUME TestTypes, NEW t \in TCM, PlaceTypes
  PROVE  /\ TellStart(t) => xr' \in [ic : 0..NIC, tp : Nat, abort : BOOLEAN]
         /\ TpEnded \in [ic : 0..NIC, tp : Nat, abort : BOOLEAN]
         /\ IcEnded(TpEnded) \in [ic : 0..NIC, tp : Nat, abort : BOOLEAN]
         /\ \A a \in BOOLEAN : [xr EXCEPT !.abort = @ \/ (a /\ InProgress(t))]
                                    \in [ic : 0..NIC, tp : Nat, abort : BOOLEAN]
<1>1. /\ xr \in [ic : 0..NIC, tp : Nat, abort : BOOLEAN]
      /\ ic[t] \in 0..NIC /\ tp[t] \in Nat /\ 0 \in 0..NIC
  BY Bounds DEF TestTypes, PlaceTypes
<1>2. TellStart(t) => xr' \in [ic : 0..NIC, tp : Nat, abort : BOOLEAN]
  <2>1. [xr EXCEPT !.ic = ic[t]] \in [ic : 0..NIC, tp : Nat, abort : BOOLEAN]
    BY <1>1
  <2>2. [xr EXCEPT !.tp = tp[t]] \in [ic : 0..NIC, tp : Nat, abort : BOOLEAN]
    BY <1>1
  <2>. QED  BY <1>1, <2>1, <2>2 DEF TellStart
<1>3. /\ TpEnded \in [ic : 0..NIC, tp : Nat, abort : BOOLEAN]
      /\ IcEnded(TpEnded) \in [ic : 0..NIC, tp : Nat, abort : BOOLEAN]
  BY <1>1 DEF TpEnded, IcEnded
<1>4. ASSUME NEW a \in BOOLEAN
      PROVE  [xr EXCEPT !.abort = @ \/ (a /\ InProgress(t))] \in [ic : 0..NIC, tp : Nat, abort : BOOLEAN]
  <2>1. (xr.abort \/ (a /\ InProgress(t))) \in BOOLEAN
    BY Zenon
  <2>. QED  BY <1>1, <2>1
<1>. QED  BY <1>2, <1>3, <1>4

LEMMA TypesKept ==
  ASSUME Core, [Next]_vars, SyncdTypes'
  PROVE  TypeOK'
<1>1. SyncdTypes /\ PlaceTypes /\ TestTypes
  BY TypeParts DEF Core
<1>2. \A t \in TCM : pc[t] = "tpstart" \/ pc[t] = "run" => This(t) \in TP
  <2>1. SUFFICES ASSUME NEW t \in TCM, pc[t] = "tpstart" \/ pc[t] = "run"
                 PROVE  This(t) \in TP
    OBVIOUS
  <2>2. ic[t] \in 1..NIC /\ tp[t] \in 1..tpcount[ic[t]]
    BY <2>1 DEF Core, Control, Placed
  <2>. QED  BY <2>2 DEF This, TP
<1>3. \A t \in TCM : {"exit", "run"} \subseteq Sites \cup {"run", "exit"} /\ Sites \subseteq Sites \cup {"run", "exit"}
  OBVIOUS
<1>4. ASSUME NEW t \in TCM, tet_tcm_async(t)
      PROVE  PlaceTypes' /\ TestTypes'
  <2>1. PlaceTypes'
    BY <1>1, <1>4 DEF tet_tcm_async, tcmvars, PlaceTypes
  <2>2. xr' \in [ic : 0..NIC, tp : Nat, abort : BOOLEAN]
    BY <1>1, <1>4, XresdTypes DEF tet_tcm_async
  <2>3. vetoed' \subseteq TP
    BY <1>1, <1>2, <1>4 DEF tet_tcm_async, TestTypes
  <2>. QED  BY <1>1, <1>4, <2>1, <2>2, <2>3 DEF tet_tcm_async, tcmvars, TestTypes
<1>5. ASSUME NEW t \in TCM, SyncError(t) \/ tet_docleanup(t) \/ Die(t)
      PROVE  PlaceTypes' /\ TestTypes'
  <2>1. Goto(t, "exit") /\ UNCHANGED <<ic, tp>>
    BY <1>5 DEF SyncError, tet_docleanup, Die, ExitFailure, Exit
  <2>2. PlaceTypes'
    BY <1>1, <2>1, GotoTypes
  <2>3. dead \in Nat /\ MaxDead \in Nat
    BY <1>1, TcmAssumption DEF TestTypes
  <2>4. dead' \in 0..MaxDead
    BY <1>1, <1>5, <2>3 DEF SyncError, tet_docleanup, Die, ExitFailure, TestTypes
  <2>. QED  BY <1>1, <1>5, <2>2, <2>4
            DEF SyncError, tet_docleanup, Die, ExitFailure, TestTypes, history
<1>6. ASSUME NEW t \in TCM, Started(t) \/ icstartAborted(t) \/ Aborted(t)
      PROVE  PlaceTypes' /\ TestTypes'
  <2>1. (Goto(t, "startup") \/ Goto(t, "cleanup")) /\ UNCHANGED <<ic, tp>>
    BY <1>6 DEF Started, icstartAborted, Aborted
  <2>2. PlaceTypes'
    BY <1>1, <2>1, GotoTypes DEF Sites
  <2>. QED  BY <1>1, <1>6, <2>2 DEF Started, icstartAborted, Aborted, TestTypes, history
<1>7. ASSUME NEW t \in TCM, tet_startup(t)
      PROVE  PlaceTypes' /\ TestTypes'
  <2>1. PlaceTypes'
    BY <1>1, <1>7, NextIcTypes DEF tet_startup
  <2>2. deleted' \in [TCM -> SUBSET Deletable]
    BY <1>1, <1>7 DEF tet_startup, tet_delete, TestTypes
  <2>. QED  BY <1>1, <1>7, <2>1, <2>2 DEF tet_startup, TestTypes, history
<1>8. ASSUME NEW t \in TCM, icstart2(t)
      PROVE  PlaceTypes' /\ TestTypes'
  <2>1. PlaceTypes'
    BY <1>1, <1>8 DEF icstart2, Goto, PlaceTypes, Sites
  <2>. QED  BY <1>1, <1>8, <2>1 DEF icstart2, TestTypes, history
<1>9. ASSUME NEW t \in TCM, Uninitiated(t)
      PROVE  PlaceTypes' /\ TestTypes'
  <2>1. pc[t] = "tpstart"
    BY <1>9 DEF Uninitiated, ReadyForTp, Got
  <2>2. Goto(t, "tpend") /\ UNCHANGED <<ic, tp>>
    BY <1>9 DEF Uninitiated
  <2>3. PlaceTypes'
    BY <1>1, <2>2, GotoTypes DEF Sites
  <2>4. notrun' \in [TCM -> SUBSET TP]
    <3>1. notrun' = [notrun EXCEPT ![t] = @ \cup {This(t)}]
      BY <1>9 DEF Uninitiated
    <3>. QED  BY <1>1, <1>2, <2>1, <3>1 DEF TestTypes
  <2>5. lost' \in BOOLEAN
    BY <1>1, <1>9, Zenon DEF Uninitiated, tet_result, TestTypes
  <2>6. tet_XSync_del' \in [TCM -> BOOLEAN]
    <3>1. (XSyncDel(t) /\ tet_reason(t)) \in BOOLEAN
      BY Zenon
    <3>2. tet_XSync_del' = [tet_XSync_del EXCEPT ![t] = (XSyncDel(t) /\ tet_reason(t))]
      BY <1>9, Zenon DEF Uninitiated
    <3>. QED  BY <1>1, <3>1, <3>2 DEF TestTypes
  <2>. QED  BY <1>1, <1>9, <2>3, <2>4, <2>5, <2>6 DEF Uninitiated, TestTypes
<1>10. ASSUME NEW t \in TCM, tet_invoketp(t)
      PROVE  PlaceTypes' /\ TestTypes'
  <2>1. pc[t] = "tpstart"
    BY <1>10 DEF tet_invoketp, ReadyForTp, Got
  <2>2. Goto(t, "run") /\ UNCHANGED <<ic, tp>>
    BY <1>10 DEF tet_invoketp
  <2>3. PlaceTypes'
    BY <1>1, <2>2, GotoTypes
  <2>4. ran' \in [TCM -> SUBSET TP]
    <3>1. ran' = [ran EXCEPT ![t] = @ \cup {This(t)}]
      BY <1>10 DEF tet_invoketp
    <3>. QED  BY <1>1, <1>2, <2>1, <3>1 DEF TestTypes
  <2>. QED  BY <1>1, <1>10, <2>3, <2>4 DEF tet_invoketp, TestTypes
<1>11. ASSUME NEW t \in TCM, TpReturns(t)
      PROVE  PlaceTypes' /\ TestTypes'
  <2>1. Goto(t, "tpend") /\ UNCHANGED <<ic, tp>>
    BY <1>11 DEF TpReturns
  <2>2. PlaceTypes'
    BY <1>1, <2>1, GotoTypes DEF Sites
  <2>3. deleted' \in [TCM -> SUBSET Deletable]
    BY <1>1, <1>11 DEF TpReturns, tet_delete, TestTypes
  <2>4. lost' \in BOOLEAN
    BY <1>1, <1>11, Zenon DEF TpReturns, tet_result, TestTypes
  <2>5. xr' \in [ic : 0..NIC, tp : Nat, abort : BOOLEAN]
    <3>1. \E a \in BOOLEAN : xr' = [xr EXCEPT !.abort = @ \/ (a /\ InProgress(t))]
      <4>1. PICK a \in IF MayAbort THEN BOOLEAN ELSE {FALSE} :
                   xr' = [xr EXCEPT !.abort = @ \/ (a /\ InProgress(t))]
        BY <1>11, Zenon DEF TpReturns
      <4>2. a \in BOOLEAN
        OBVIOUS
      <4>. QED  BY <4>1, <4>2, Zenon
    <3>. QED  BY <1>1, <3>1, XresdTypes, Zenon
  <2>. QED  BY <1>1, <1>11, <2>2, <2>3, <2>4, <2>5 DEF TpReturns, TestTypes
<1>12. ASSUME NEW t \in TCM, tpend2(t) \/ mtcm_tpend2(t)
      PROVE  PlaceTypes' /\ TestTypes'
  <2>1. CASE AfterTp(t) /\ (xr' = xr \/ xr' = TpEnded \/ xr' = IcEnded(TpEnded))
    <3>1. PlaceTypes'
      BY <1>1, <2>1, NextTpTypes DEF AfterTp
    <3>2. xr' \in [ic : 0..NIC, tp : Nat, abort : BOOLEAN]
      BY <1>1, <2>1, XresdTypes DEF TestTypes
    <3>3. UNCHANGED <<history, dead, timeouts>>
      BY <1>12 DEF tpend2, mtcm_tpend2
    <3>. QED  BY <1>1, <2>1, <3>1, <3>2, <3>3 DEF AfterTp, TestTypes, history
  <2>2. CASE Goto(t, "abort") /\ xr' = IcEnded(TpEnded) /\ UNCHANGED <<ic, tp, deleted, tet_XSync_del, cleaned, failed>>
    <3>1. PlaceTypes'
      BY <1>1, <2>2, GotoTypes DEF Sites
    <3>2. xr' \in [ic : 0..NIC, tp : Nat, abort : BOOLEAN]
      BY <1>1, <2>2, XresdTypes
    <3>3. UNCHANGED <<history, dead, timeouts>>
      BY <1>12 DEF tpend2, mtcm_tpend2
    <3>. QED  BY <1>1, <2>2, <3>1, <3>2, <3>3 DEF TestTypes, history
  <2>3. CASE xr' = TpEnded /\ ExitFailure(t)
    <3>1. PlaceTypes'
      BY <1>1, <2>3, GotoTypes DEF ExitFailure, Exit
    <3>2. xr' \in [ic : 0..NIC, tp : Nat, abort : BOOLEAN]
      BY <1>1, <2>3, XresdTypes
    <3>3. UNCHANGED <<history, dead, timeouts>>
      BY <1>12 DEF tpend2, mtcm_tpend2
    <3>. QED  BY <1>1, <2>3, <3>1, <3>2, <3>3 DEF ExitFailure, TestTypes, history
  <2>. QED  BY <1>12, <2>1, <2>2, <2>3 DEF tpend2, mtcm_tpend2
<1>13. ASSUME NEW t \in TCM, TimeOut(t)
      PROVE  PlaceTypes' /\ TestTypes'
  <2>1. timeouts \in Nat /\ MaxTimeouts \in Nat
    BY <1>1, TcmAssumption DEF TestTypes
  <2>2. timeouts' \in 0..MaxTimeouts
    BY <1>13, <2>1 DEF TimeOut
  <2>3. UNCHANGED <<tcmvars, xr, history, dead>>
    BY <1>13 DEF TimeOut
  <2>. QED  BY <1>1, <2>2, <2>3 DEF tcmvars, history, PlaceTypes, TestTypes
<1>14. ASSUME UNCHANGED vars
       PROVE  PlaceTypes' /\ TestTypes'
  BY <1>1, <1>14 DEF vars, tcmvars, history, PlaceTypes, TestTypes
<1>15. PlaceTypes' /\ TestTypes'
  BY <1>4, <1>5, <1>6, <1>7, <1>8, <1>9, <1>10, <1>11, <1>12, <1>13, <1>14, Zenon
     DEF Next, Step, Finished
<1>. QED  BY <1>15, TypePartsNext

LEMMA CoreKept ==
  ASSUME Core, [Next]_vars
  PROVE  Core'
<1>1. CASE UNCHANGED vars
  <2>1. UNCHANGED <<pc, ic, tp, deleted, ud, reply, lastspno, xr>>
    BY <1>1 DEF vars, tcmvars, sdvars
  <2>2. Control' /\ Daemon(ud, reply, lastspno)' /\ SyncdTypes'
    <3>1. SyncdTypes
      BY TypeParts DEF Core
    <3>2. SyncdTypes'
      BY <2>1, <3>1 DEF SyncdTypes
    <3>3. AllKnown(ud, reply)'
      BY <2>1 DEF Core, Control, AllKnown
    <3>4. Control'
      BY <2>1, <3>3 DEF Core, Control
    <3>5. Daemon(ud, reply, lastspno)'
      BY <2>1 DEF Core
    <3>. QED  BY <3>2, <3>4, <3>5
  <2>. QED  BY <2>2, TypesKept DEF Core
<1>2. ASSUME NEW t \in TCM, Step(t) \/ Die(t) \/ TimeOut(t)
      PROVE  Control' /\ Daemon(ud, reply, lastspno)' /\ SyncdTypes'
  BY <1>2, ControlVote, ControlExit, ControlStarted, ControlStartup, ControlIcStart,
     ControlToCleanup, ControlUninitiated, ControlInvoke, ControlReturns, ControlTpEnd,
     ControlTimeOut, Zenon DEF Step
<1>3. CASE Next
  <2>1. CASE Finished
    BY <1>1, <2>1 DEF Finished
  <2>2. CASE \E t \in TCM : Step(t) \/ Die(t) \/ TimeOut(t)
    <3>1. Control' /\ Daemon(ud, reply, lastspno)' /\ SyncdTypes'
      BY <1>2, <2>2, Zenon
    <3>. QED  BY <3>1, TypesKept DEF Core
  <2>. QED  BY <1>3, <2>1, <2>2 DEF Next
<1>. QED  BY <1>1, <1>3

LEMMA CoreStarts ==
  ASSUME Init
  PROVE  Core
<1>1. /\ \A t \in TCM : pc[t] = "exec" /\ ic[t] = 0 /\ tp[t] = 0 /\ deleted[t] = {}
      /\ \A t \in TCM : reply[t] = NoReply
      /\ \A t \in TCM : ud[t] = [state |-> "NOTSYNCED", spno |-> 0, ntimedout |-> 0]
      /\ lastspno = 0
  BY DEF Init
<1>2. \A t \in TCM : /\ reply[t].rc = "none"
                     /\ ud[t].state = "NOTSYNCED" /\ ud[t].spno = 0 /\ ud[t].ntimedout = 0
  BY <1>1 DEF NoReply
<1>3. SyncdTypes
  <2>1. NoReply \in Message
    BY DEF NoReply, Message, UserState
  <2>2. reply \in Replies
    BY <2>1 DEF Init, Replies, Message
  <2>3. [state |-> "NOTSYNCED", spno |-> 0, ntimedout |-> 0] \in User
    BY SpnoRange DEF User, UserState
  <2>4. ud \in Users
    BY <2>3 DEF Init, Users, User
  <2>. QED  BY <1>1, <2>2, <2>4, SpnoRange DEF SyncdTypes
<1>4. PlaceTypes
  BY Bounds DEF Init, PlaceTypes, Sites
<1>5. TestTypes
  <2>1. 0 \in 0..MaxDead /\ 0 \in 0..MaxTimeouts /\ 0 \in 0..NIC
    BY Bounds, TcmAssumption
  <2>. QED  BY <2>1 DEF Init, TestTypes
<1>6. TypeOK
  BY <1>3, <1>4, <1>5, TypeParts
<1>7. \A t \in TCM : Placed(pc[t], ic[t], tp[t]) /\ Before(pc[t], ic[t], tp[t]) = 0
                     /\ Number(pc[t], ic[t], tp[t]) = 1
  <2>1. \A t \in TCM : Placed(pc[t], ic[t], tp[t])
    BY <1>1 DEF Placed
  <2>. QED  BY <1>1, <2>1, NumberIs DEF Before
<1>8. AllKnown(ud, reply)
  BY <1>1, <1>2, <1>7 DEF AllKnown, Known
<1>9. Control
  BY <1>1, <1>2, <1>7, <1>8 DEF Control, Floor
<1>10. Daemon(ud, reply, lastspno)
  <2>1. 0 # SPMAX
    BY Maxima
  <2>2. \A t \in TCM : ~Good(reply, t)
    BY <1>2 DEF Good, Errors
  <2>. QED  BY <1>1, <1>2, <2>1, <2>2 DEF Daemon, Voted
<1>. QED  BY <1>6, <1>9, <1>10 DEF Core

(* Core always holds: SYNCD knows how far each TCM has got, and no TCM is  *)
(* at an IC or a TP before all have got to the sync point before it.       *)
THEOREM Lockstep == Spec => []Core
<1>1. Init => Core
  BY CoreStarts
<1>2. Core /\ [Next]_vars => Core'
  BY CoreKept
<1>. QED  BY <1>1, <1>2, PTL DEF Spec

(* The variables are of their types in every reachable state.              *)
THEOREM TypeCorrect == Spec => []TypeOK
<1>1. Core => TypeOK
  BY DEF Core
<1>. QED  BY <1>1, Lockstep, PTL

(* Two TCMs that are in a test purpose are in the same one, however many   *)
(* die and however many syncs time out (tpstart2(), tpend2()).             *)
THEOREM KeptInStep == Spec => []InStep
<1>1. Core => InStep
  <2>1. SUFFICES ASSUME Core, NEW t \in TCM, NEW u \in TCM, pc[t] = "run", pc[u] = "run"
                 PROVE  This(t) = This(u)
    BY DEF InStep
  <2>2. ASSUME NEW v \in TCM, pc[v] = "run"
        PROVE  /\ ud[v].spno = Number("tpstart", ic[v], tp[v])
               /\ Before("run", ic[v], tp[v]) = Number("tpstart", ic[v], tp[v])
               /\ Floor(ud, lastspno, Number("tpstart", ic[v], tp[v]))
               /\ Placed("tpstart", ic[v], tp[v]) /\ ic[v] \in 0..NIC /\ tp[v] \in Nat
    <3>1. /\ ud[v].state # "DEAD" /\ Known("run", ic[v], tp[v], deleted[v], ud[v], reply[v])
          /\ Placed("run", ic[v], tp[v])
          /\ Floor(ud, lastspno, Before("run", ic[v], tp[v]))
      BY <2>1, <2>2 DEF Core, Control, AllKnown
    <3>2. Before("run", ic[v], tp[v]) = Number("tpstart", ic[v], tp[v])
      BY DEF Before
    <3>3. Placed("tpstart", ic[v], tp[v])
      BY <3>1 DEF Placed
    <3>4. ic[v] \in 0..NIC /\ tp[v] \in Nat
      BY <2>1, CoreTypes
    <3>. QED  BY <3>1, <3>2, <3>3, <3>4 DEF Known
  <2>3. ud[t].spno \in Nat /\ ud[u].spno \in Nat
    BY <2>1, CoreTypes
  <2>4. Number("tpstart", ic[t], tp[t]) = Number("tpstart", ic[u], tp[u])
    <3>1. ud[t].spno <= ud[u].spno
      BY <2>1, <2>2 DEF Floor
    <3>2. ud[u].spno <= ud[t].spno
      BY <2>1, <2>2 DEF Floor
    <3>. QED  BY <2>1, <2>2, <2>3, <3>1, <3>2
  <2>5. "tpstart" \in Sites
    BY DEF Sites
  <2>6. ic[t] = ic[u] /\ tp[t] = tp[u]
    BY <2>1, <2>2, <2>4, <2>5, SameNumber
  <2>. QED  BY <2>6 DEF This
<1>. QED  BY <1>1, Lockstep, PTL

(* A TCM calls the user's cleanup function only when all the others are    *)
(* through with their test purposes, or have exited (ictp.c).              *)
THEOREM CleanedUpLast == Spec => CleanupIsLast
<1>1. ASSUME Core, [Next]_vars
      PROVE  [cleaned' # cleaned => \A t \in TCM : pc[t] \in {"cleanup", "exit"}]_vars
  <2>1. SUFFICES ASSUME cleaned' # cleaned, NEW u \in TCM
                 PROVE  pc[u] \in {"cleanup", "exit"}
    OBVIOUS
  <2>2. PICK t \in TCM : tet_docleanup(t)
    BY <1>1, <2>1 DEF Next, Step, Finished, vars, tcmvars, tet_tcm_async, SyncError, ExitFailure, Started,
       tet_startup, icstart2, icstartAborted, Uninitiated, tet_invoketp, TpReturns, tpend2, mtcm_tpend2,
       AfterTp, Aborted, Die, TimeOut
  <2>3. pc[t] = "cleanup" /\ Good(reply, t)
    BY <2>2 DEF tet_docleanup, Got, Good
  <2>4. "cleanup" \in Sites
    BY DEF Sites
  <2>5. ud[t].spno = Number("cleanup", 0, 0) /\ Floor(ud, lastspno, ud[t].spno)
    <3>1. Number("cleanup", 0, 0) = Number("cleanup", ic[t], tp[t])
      BY NumberIs
    <3>. QED  BY <1>1, <2>3, <2>4, <3>1, Answered
  <2>6. Number("cleanup", 0, 0) <= ud[u].spno
    BY <2>5 DEF Floor
  <2>7. ud[u].spno \in Nat /\ Number("cleanup", 0, 0) \in Nat /\ ic[u] \in 0..NIC /\ tp[u] \in Nat
    BY <1>1, <2>5, CoreTypes
  <2>8. CASE pc[u] \in Sites \ {"cleanup"}
    <3>1. /\ ud[u].spno <= Number(pc[u], ic[u], tp[u]) /\ Number(pc[u], ic[u], tp[u]) \in Nat
      BY <1>1, <2>8, SiteNumber
    <3>2. Number(pc[u], ic[u], tp[u]) < Number("cleanup", 0, 0)
      BY <1>1, <2>7, <2>8, NumberType DEF Core, Control
    <3>. QED  BY <2>6, <2>7, <3>1, <3>2
  <2>9. CASE pc[u] = "run"
    <3>1. Placed("tpstart", ic[u], tp[u]) /\ "tpstart" \in Sites
      BY <1>1, <2>9 DEF Core, Control, Placed, Sites
    <3>2. Number("tpstart", ic[u], tp[u]) < Number("cleanup", 0, 0) /\ Number("tpstart", ic[u], tp[u]) \in Nat
      BY <2>7, <3>1, NumberType
    <3>3. ud[u].spno = Number("tpstart", ic[u], tp[u])
      <4>1. ud[u].state # "DEAD" /\ Known("run", ic[u], tp[u], deleted[u], ud[u], reply[u])
        BY <1>1, <2>9 DEF Core, Control, AllKnown
      <4>. QED  BY <4>1 DEF Known
    <3>. QED  BY <2>6, <2>7, <3>2, <3>3
  <2>. QED  BY <1>1, <2>8, <2>9, CoreTypes
<1>. QED  BY <1>1, Lockstep, PTL DEF Spec, CleanupIsLast

-----------------------------------------------------------------------------
(***************************************************************************)
(* Deleted test purposes.  A TP that some TCM has voted NO for is invoked  *)
(* by none: until the event, the one who voted waits with it; from then on *)
(* nobody can be told that all have voted YES for it.                      *)
(***************************************************************************)
Deletions(d, r, l, V) ==
    /\ \A t \in TCM : pc[t] = "tpstart" /\ This(t) \notin deleted[t] /\ MayInvoke(r, t) => This(t) \notin V
    /\ \A t \in TCM : \A x \in ran[t] : x \notin V /\ \A u \in TCM : TpStart(x) <= d[u].spno
    /\ \A x \in V : \/ Dead(d) \/ TpStart(x) <= l
                    \/ \E u \in TCM : /\ pc[u] = "tpstart" /\ This(u) = x
                                      /\ x \in deleted[u] /\ r[u].rc = "wait"

LEMMA TpStartIs ==
  /\ \A x \in TP : TpStart(x) \in Nat
  /\ \A t : TpStart(This(t)) = Number("tpstart", ic[t], tp[t])
<1>1. ASSUME NEW x \in TP
      PROVE  TpStart(x) \in Nat
  <2>1. PICK i \in 1..NIC : x \in {<<i, n>> : n \in 1..tpcount[i]}
    BY DEF TP
  <2>2. PICK n \in 1..tpcount[i] : x = <<i, n>>
    BY <2>1
  <2>3. NIC \in Nat /\ tpcount[i] \in Nat
    BY Bounds
  <2>4. i \in 0..NIC /\ n \in Nat /\ Placed("tpstart", i, n) /\ "tpstart" \in Sites
    BY <2>3 DEF Placed, Sites
  <2>5. Number("tpstart", i, n) \in Nat
    BY <2>4, NumberType
  <2>6. TpStart(x) = Number("tpstart", i, n)
    BY <2>2 DEF TpStart
  <2>. QED  BY <2>5, <2>6
<1>2. \A t : TpStart(This(t)) = Number("tpstart", ic[t], tp[t])
  BY DEF TpStart, This
<1>. QED  BY <1>1, <1>2

LEMMA InvokeIsGood ==
  ASSUME NEW r, NEW t, MayInvoke(r, t)
  PROVE  Good(r, t)
BY DEF MayInvoke, Good, Expected

\* who is told that a TP may be invoked: all the others have voted YES
LEMMA AllVotedYes ==
  ASSUME NEW d \in Users, NEW r2, NEW t \in TCM, Happened(d), r2[t] = synmsg(d, t),
         MayInvoke(r2, t)
  PROVE  \A u \in TCM \ {t} : d[u].state = "SYNCYES"
<1>1. \A u \in TCM : d[u].state \in UserState
  BY DEF Users
<1>2. CASE ~Failure(d)
  <2>1. ~SomeTimedOut(d)
    BY <1>2 DEF Failure, SomeTimedOut
  <2>2. \A u \in TCM : d[u].state # "NOTSYNCED"
    BY <2>1 DEF Happened, SomeTimedOut
  <2>. QED  BY <1>1, <1>2, <2>2 DEF Failure, UserState
<1>3. CASE Failure(d)
  <2>1. \A u \in TCM : r2[t].state[u] = d[u].state
    BY <1>3, SynmsgIs, Zenon
  <2>2. r2[t].rc # "OK"
    BY <1>3, SynmsgIs, Zenon
  <2>. QED  BY <2>1, <2>2 DEF MayInvoke
<1>. QED  BY <1>2, <1>3

LEMMA DeletionsEvent ==
  ASSUME Core, NEW d, NEW r, Ready(d, r), stcheck(d, r), NEW V \in SUBSET TP,
         Deletions(d, r, lastspno, V)
  PROVE  Deletions(ud', reply', lastspno', V)
<1>1. Event(d, r, lastspno, ud', reply', lastspno')
  BY StcheckIs, Zenon
<1>2. /\ d \in Users /\ r \in Replies /\ Daemon(d, r, lastspno) /\ Votes(d) /\ AllKnown(d, r)
  BY DEF Ready
<1>3. lastspno \in 0..SPMAX
  BY CoreTypes
<1>4. /\ ud' \in Users /\ lastspno' \in 0..SPMAX /\ lastspno <= lastspno'
      /\ \A t \in TCM : ud'[t].spno = d[t].spno /\ (ud'[t].state = "DEAD" <=> d[t].state = "DEAD")
  BY <1>1, <1>2, <1>3, EventKeepsDaemon
<1>5. lastspno' \in Nat /\ lastspno \in Nat /\ SPMAX \in Nat /\ lastspno <= SPMAX
  BY <1>3, <1>4, SpnoRange
<1>6. CASE ~Happened(d)
  <2>1. ud' = d /\ reply' = r /\ lastspno' = lastspno
    BY <1>1, <1>6, Zenon DEF Event
  <2>. QED  BY <2>1
<1>7. CASE Happened(d)
  <2>1. \A t \in TCM :
          /\ r[t].rc = "wait" /\ Voted(d[t]) /\ d[t].spno <= lastspno' => reply'[t] = synmsg(d, t)
          /\ ~(r[t].rc = "wait" /\ Voted(d[t]) /\ d[t].spno <= lastspno') => reply'[t] = r[t]
    BY <1>1, <1>2, <1>3, <1>7, EventOne
  <2>2. Dead(d) <=> Dead(ud')
    BY <1>4 DEF Dead
  <2>3. ASSUME NEW t \in TCM, pc[t] = "tpstart", This(t) \notin deleted[t], MayInvoke(reply', t), This(t) \in V
        PROVE  FALSE
    <3>1. CASE reply'[t] = r[t]
      <4>1. MayInvoke(r, t)
        BY <2>3, <3>1 DEF MayInvoke
      <4>. QED  BY <2>3, <4>1 DEF Deletions
    <3>2. CASE r[t].rc = "wait" /\ Voted(d[t]) /\ d[t].spno <= lastspno' /\ reply'[t] = synmsg(d, t)
      <4>1. \A u \in TCM \ {t} : d[u].state = "SYNCYES"
        BY <1>2, <1>7, <2>3, <3>2, AllVotedYes
      <4>2. ~Dead(d)
        BY <3>2, <4>1 DEF Dead, Voted
      <4>3. lastspno < SPMAX
        BY <1>2, <1>5, <4>2 DEF Daemon
      <4>4. d[t].spno > lastspno
        BY <1>2, <3>2, <4>3 DEF Daemon
      <4>5. d[t].spno = TpStart(This(t))
        <5>1. d[t].state # "DEAD" /\ Known(pc[t], ic[t], tp[t], deleted[t], d[t], r[t])
          BY <1>2, <3>2 DEF AllKnown, Voted
        <5>2. "tpstart" \in Sites
          BY DEF Sites
        <5>3. d[t].spno = Number("tpstart", ic[t], tp[t])
          BY <2>3, <3>2, <5>1, <5>2 DEF Known
        <5>. QED  BY <5>3, TpStartIs
      <4>6. ~(TpStart(This(t)) <= lastspno)
        <5>1. d[t].spno \in Nat
          BY <1>2, SpnoRange DEF Users
        <5>. QED  BY <1>5, <4>4, <4>5, <5>1
      <4>7. PICK u \in TCM : pc[u] = "tpstart" /\ This(u) = This(t) /\ This(t) \in deleted[u] /\ r[u].rc = "wait"
        BY <2>3, <4>2, <4>6 DEF Deletions
      <4>8. u # t
        BY <2>3, <4>7
      <4>9. d[u].state = "SYNCYES" /\ Known(pc[u], ic[u], tp[u], deleted[u], d[u], r[u])
        BY <1>2, <4>1, <4>8 DEF AllKnown
      <4>10. VoteOf(pc[u], ic[u], tp[u], deleted[u]) = "SYNCNO"
        BY <4>7 DEF VoteOf, This
      <4>. QED  BY <4>7, <4>9, <4>10 DEF Known
    <3>. QED  BY <2>1, <3>1, <3>2, Zenon
  <2>4. ASSUME NEW t \in TCM, NEW x \in ran[t]
        PROVE  x \notin V /\ \A u \in TCM : TpStart(x) <= ud'[u].spno
    BY <1>4, <2>4 DEF Deletions
  <2>5. ASSUME NEW x \in V, ~Dead(ud'), ~(TpStart(x) <= lastspno')
        PROVE  \E u \in TCM : pc[u] = "tpstart" /\ This(u) = x /\ x \in deleted[u] /\ reply'[u].rc = "wait"
    <3>1. TpStart(x) \in Nat
      BY TpStartIs
    <3>2. ~Dead(d) /\ ~(TpStart(x) <= lastspno)
      BY <1>4, <1>5, <2>2, <2>5, <3>1
    <3>3. PICK u \in TCM : pc[u] = "tpstart" /\ This(u) = x /\ x \in deleted[u] /\ r[u].rc = "wait"
      BY <3>2 DEF Deletions
    <3>4. d[u].state # "DEAD" /\ Known(pc[u], ic[u], tp[u], deleted[u], d[u], r[u])
      BY <1>2, <3>2 DEF AllKnown, Dead
    <3>5. d[u].spno = TpStart(x)
      <4>1. "tpstart" \in Sites
        BY DEF Sites
      <4>2. d[u].spno = Number("tpstart", ic[u], tp[u])
        BY <3>3, <3>4, <4>1 DEF Known
      <4>3. TpStart(This(u)) = Number("tpstart", ic[u], tp[u])
        BY TpStartIs
      <4>. QED  BY <3>3, <4>2, <4>3
    <3>6. reply'[u] = r[u]
      BY <2>1, <2>5, <3>5
    <3>. QED  BY <3>3, <3>6
  <2>6. \A t \in TCM : pc[t] = "tpstart" /\ This(t) \notin deleted[t] /\ MayInvoke(reply', t) => This(t) \notin V
    BY <2>3
  <2>7. \A t \in TCM : \A x \in ran[t] : x \notin V /\ \A u \in TCM : TpStart(x) <= ud'[u].spno
    BY <2>4
  <2>8. \A x \in V : \/ Dead(ud') \/ TpStart(x) <= lastspno'
                     \/ \E u \in TCM : pc[u] = "tpstart" /\ This(u) = x /\ x \in deleted[u] /\ reply'[u].rc = "wait"
    BY <2>5
  <2>. QED  BY <2>6, <2>7, <2>8 DEF Deletions
<1>. QED  BY <1>6, <1>7

LEMMA DeletionsVote ==
  ASSUME Core, Deletions(ud, reply, lastspno, vetoed), NEW t \in TCM, tet_tcm_async(t)
  PROVE  Deletions(ud, reply, lastspno, vetoed)'
<1>1. /\ pc[t] \in Sites /\ reply[t].rc = "none" /\ op_async(t, Spno(t), Vote(t))
      /\ UNCHANGED <<pc, ic, tp, deleted, ran>>
      /\ vetoed' = IF pc[t] = "tpstart" /\ tet_reason(t) THEN vetoed \cup {This(t)} ELSE vetoed
  BY DEF tet_tcm_async, tcmvars
<1>2. /\ \A u \in TCM : ud[u].spno \in Nat
      /\ Daemon(ud, reply, lastspno) /\ vetoed \subseteq TP
      /\ \A u \in TCM : ran[u] \subseteq TP
  BY CoreTypes DEF Core, TypeOK
<1>3. pc[t] = "tpstart" => /\ ud[t].spno < TpStart(This(t)) /\ TpStart(This(t)) = Spno(t)
                           /\ TpStart(This(t)) \in Nat /\ This(t) \in TP
  <2>1. ud[t].state # "DEAD" /\ Spno(t) = Number(pc[t], ic[t], tp[t]) /\ Number(pc[t], ic[t], tp[t]) \in Nat
    BY <1>1, SiteNumber
  <2>2. Known(pc[t], ic[t], tp[t], deleted[t], ud[t], reply[t])
    BY DEF Core, Control, AllKnown
  <2>3. ud[t].spno < Number(pc[t], ic[t], tp[t])
    BY <1>1, <2>1, <2>2 DEF Known
  <2>4. pc[t] = "tpstart" => This(t) \in TP
    <3>1. pc[t] = "tpstart" => ic[t] \in 1..NIC /\ tp[t] \in 1..tpcount[ic[t]]
      BY DEF Core, Control, Placed
    <3>. QED  BY <3>1 DEF This, TP
  <2>. QED  BY <2>1, <2>3, <2>4, TpStartIs
<1>4. ASSUME NEW u \in TCM, NEW x \in ran[u]
      PROVE  x \notin vetoed'
  <2>1. x \notin vetoed /\ TpStart(x) <= ud[t].spno /\ TpStart(x) \in Nat
    BY <1>2, <1>4, TpStartIs DEF Deletions
  <2>2. pc[t] = "tpstart" => x # This(t)
    BY <1>2, <1>3, <2>1
  <2>. QED  BY <1>1, <2>1, <2>2
<1>5. ASSUME NEW u \in TCM, pc[u] = "tpstart", This(u) \notin deleted[u], MayInvoke(reply, u)
      PROVE  This(u) \notin vetoed'
  <2>1. This(u) \notin vetoed
    BY <1>5 DEF Deletions
  <2>2. "tpstart" \in Sites
    BY DEF Sites
  <2>3. /\ ud[u].spno = TpStart(This(u)) /\ ud[u].spno <= ud[t].spno
    <3>1. Good(reply, u)
      BY <1>5, InvokeIsGood
    <3>2. ud[u].spno = Number(pc[u], ic[u], tp[u]) /\ Floor(ud, lastspno, ud[u].spno)
      BY <1>5, <2>2, <3>1, Answered
    <3>. QED  BY <1>5, <3>2, TpStartIs DEF Floor
  <2>4. pc[t] = "tpstart" => This(u) # This(t)
    BY <1>2, <1>3, <2>3
  <2>. QED  BY <1>1, <2>1, <2>4
<1>6. vetoed' \in SUBSET TP
  BY <1>1, <1>2, <1>3
<1>7. CASE ud[t].ntimedout > 0 /\ Spno(t) <= lastspno
  <2>1. /\ ud' = [ud EXCEPT ![t].ntimedout = @ - 1]
        /\ reply' = [reply EXCEPT ![t].rc = "DONE"]
        /\ lastspno' = lastspno
    BY <1>1, <1>7 DEF op_async
  <2>2. /\ \A u \in TCM : ud'[u].spno = ud[u].spno /\ ud'[u].state = ud[u].state
        /\ reply'[t].rc = "DONE" /\ \A u \in TCM \ {t} : reply'[u] = reply[u]
    BY <2>1, CoreTypes DEF Users, Replies
  <2>3. \A u \in TCM : MayInvoke(reply', u) => MayInvoke(reply, u)
    BY <2>2 DEF MayInvoke, Errors
  <2>4. \A u \in TCM : pc'[u] = "tpstart" /\ This(u)' \notin deleted'[u] /\ MayInvoke(reply', u) => This(u)' \notin vetoed'
    BY <1>1, <1>5, <2>3 DEF This
  <2>5. \A u \in TCM : \A x \in ran'[u] : x \notin vetoed' /\ \A v \in TCM : TpStart(x) <= ud'[v].spno
    BY <1>1, <1>4, <2>2 DEF Deletions
  <2>6. ASSUME NEW x \in vetoed', ~Dead(ud'), ~(TpStart(x) <= lastspno')
        PROVE  \E u \in TCM : pc'[u] = "tpstart" /\ This(u)' = x /\ x \in deleted'[u] /\ reply'[u].rc = "wait"
    <3>1. x \in vetoed
      BY <1>1, <1>3, <1>7, <2>1, <2>6
    <3>2. PICK u \in TCM : pc[u] = "tpstart" /\ This(u) = x /\ x \in deleted[u] /\ reply[u].rc = "wait"
      BY <2>1, <2>2, <2>6, <3>1 DEF Deletions, Dead
    <3>. QED  BY <1>1, <2>2, <3>2 DEF This
  <2>. QED  BY <2>4, <2>5, <2>6 DEF Deletions
<1>8. CASE ~(ud[t].ntimedout > 0 /\ Spno(t) <= lastspno)
  <2>. DEFINE d == [ud EXCEPT ![t] = [state |-> Vote(t), spno |-> Spno(t), ntimedout |-> 0]]
              r == [reply EXCEPT ![t] = Waiting]
  <2>1. stcheck(d, r)
    BY <1>1, <1>8, Zenon DEF op_async
  <2>2. Ready(d, r)
    BY <1>1, <1>8, VoteReady
  <2>3. r[t].rc = "wait" /\ \A u \in TCM \ {t} : r[u] = reply[u]
    BY CoreTypes DEF Replies, Waiting, NoReply
  <2>4. \A u \in TCM \ {t} : d[u] = ud[u]
    OBVIOUS
  <2>. HIDE DEF d, r
  <2>5. Deletions(d, r, lastspno, vetoed')
    <3>1. \A u \in TCM : MayInvoke(r, u) => MayInvoke(reply, u)
      BY <2>3 DEF MayInvoke, Errors
    <3>2. \A u \in TCM : pc[u] = "tpstart" /\ This(u) \notin deleted[u] /\ MayInvoke(r, u) => This(u) \notin vetoed'
      BY <1>5, <3>1
    <3>3. ASSUME NEW u \in TCM, NEW x \in ran[u], NEW v \in TCM
          PROVE  TpStart(x) <= d[v].spno
      <4>1. TpStart(x) <= ud[v].spno /\ TpStart(x) \in Nat
        BY <1>2, <3>3, TpStartIs DEF Deletions
      <4>2. ud[v].spno <= d[v].spno /\ d[v].spno \in Nat
        BY <2>2, <3>3, SpnoRange DEF Ready, Users
      <4>. QED  BY <1>2, <4>1, <4>2
    <3>4. ASSUME NEW x \in vetoed', ~Dead(d), ~(TpStart(x) <= lastspno)
          PROVE  \E u \in TCM : pc[u] = "tpstart" /\ This(u) = x /\ x \in deleted[u] /\ r[u].rc = "wait"
      <4>1. CASE x \in vetoed
        <5>1. ~Dead(ud)
          <6>1. ud[t].state # "DEAD"
            BY <1>1, SiteNumber
          <6>. QED  BY <2>4, <3>4, <6>1 DEF Dead
        <5>2. PICK u \in TCM : pc[u] = "tpstart" /\ This(u) = x /\ x \in deleted[u] /\ reply[u].rc = "wait"
          BY <3>4, <4>1, <5>1 DEF Deletions
        <5>. QED  BY <1>1, <2>3, <5>2
      <4>2. CASE x \notin vetoed
        BY <1>1, <2>3, <4>2 DEF tet_reason
      <4>. QED  BY <4>1, <4>2
    <3>. QED  BY <1>4, <3>2, <3>3, <3>4 DEF Deletions
  <2>6. Deletions(ud', reply', lastspno', vetoed')
    BY <1>6, <2>1, <2>2, <2>5, DeletionsEvent
  <2>. QED  BY <1>1, <2>6 DEF Deletions, This
<1>. QED  BY <1>7, <1>8

LEMMA DeletionsExit ==
  ASSUME Core, Deletions(ud, reply, lastspno, vetoed), NEW t \in TCM, Exit(t),
         UNCHANGED <<ic, tp, deleted, vetoed, ran>>
  PROVE  Deletions(ud, reply, lastspno, vetoed)'
<1>. DEFINE d == [ud EXCEPT ![t].state = "DEAD"]
            r == [reply EXCEPT ![t] = NoReply]
<1>1. stcheck(d, r) /\ pc' = [pc EXCEPT ![t] = "exit"]
  BY Zenon DEF Exit, Goto, stdead
<1>2. Ready(d, r)
  BY DeadReady
<1>3. /\ d[t].state = "DEAD" /\ \A u \in TCM : d[u].spno = ud[u].spno
      /\ r[t].rc = "none" /\ \A u \in TCM \ {t} : r[u] = reply[u]
  BY CoreTypes DEF Users, Replies, NoReply
<1>. HIDE DEF d, r
<1>4. vetoed \in SUBSET TP
  BY DEF Core, TypeOK
<1>5. Deletions(d, r, lastspno, vetoed)
  <2>1. \A u \in TCM : MayInvoke(r, u) => MayInvoke(reply, u)
    BY <1>3 DEF MayInvoke, Errors
  <2>2. Dead(d)
    BY <1>3 DEF Dead
  <2>. QED  BY <1>3, <2>1, <2>2 DEF Deletions
<1>6. Deletions(ud', reply', lastspno', vetoed)
  BY <1>1, <1>2, <1>4, <1>5, DeletionsEvent
<1>7. Dead(ud')
  <2>1. Done(d, r)
    BY <1>1, <1>2, ReadyDone
  <2>. QED  BY <1>3, <2>1 DEF Done, Dead
<1>8. pc'[t] = "exit" /\ \A u \in TCM \ {t} : pc'[u] = pc[u]
  BY <1>1, CoreTypes
<1>9. \A u \in TCM : pc'[u] = "tpstart" => pc[u] = "tpstart"
  BY <1>8
<1>. QED  BY <1>6, <1>7, <1>9 DEF Deletions, This

LEMMA DeletionsTimeOut ==
  ASSUME Core, Deletions(ud, reply, lastspno, vetoed), NEW t \in TCM, TimeOut(t)
  PROVE  Deletions(ud, reply, lastspno, vetoed)'
<1>. DEFINE d == [ud EXCEPT ![t].state = "TIMEDOUT"]
<1>1. /\ reply[t].rc = "wait" /\ stcheck(d, reply)
      /\ UNCHANGED <<pc, ic, tp, deleted, vetoed, ran>>
  BY Zenon DEF TimeOut, tcmvars, history
<1>2. Voted(ud[t]) /\ Ready(d, reply)
  BY <1>1, TimeReady
<1>3. /\ d[t].state = "TIMEDOUT" /\ \A u \in TCM : d[u].spno = ud[u].spno
      /\ \A u \in TCM \ {t} : d[u] = ud[u]
  BY CoreTypes DEF Users
<1>. HIDE DEF d
<1>4. vetoed \in SUBSET TP
  BY DEF Core, TypeOK
<1>5. Deletions(d, reply, lastspno, vetoed)
  <2>1. Dead(ud) <=> Dead(d)
    BY <1>2, <1>3 DEF Dead, Voted
  <2>. QED  BY <1>3, <2>1 DEF Deletions
<1>6. Deletions(ud', reply', lastspno', vetoed)
  BY <1>1, <1>2, <1>4, <1>5, DeletionsEvent
<1>. QED  BY <1>1, <1>6 DEF Deletions, This

\* a TCM goes from one place to the next
LEMMA DeletionsMove ==
  ASSUME Core, Deletions(ud, reply, lastspno, vetoed), NEW t \in TCM, reply[t].rc # "wait",
         \A u \in TCM \ {t} : /\ pc'[u] = pc[u] /\ ic'[u] = ic[u] /\ tp'[u] = tp[u]
                              /\ deleted'[u] = deleted[u] /\ reply'[u] = reply[u] /\ ran'[u] = ran[u],
         reply'[t].rc = "none", UNCHANGED <<ud, lastspno, vetoed>>,
         \A x \in ran'[t] : x \notin vetoed /\ \A u \in TCM : TpStart(x) <= ud[u].spno
  PROVE  Deletions(ud, reply, lastspno, vetoed)'
<1>1. \A u \in TCM \ {t} : This(u)' = This(u)
  BY DEF This
<1>2. ~MayInvoke(reply', t) /\ \A u \in TCM \ {t} : MayInvoke(reply', u) => MayInvoke(reply, u)
  BY DEF MayInvoke, Errors
<1>3. \A u \in TCM : pc'[u] = "tpstart" /\ This(u)' \notin deleted'[u] /\ MayInvoke(reply', u) => This(u)' \notin vetoed'
  BY <1>1, <1>2 DEF Deletions
<1>4. \A u \in TCM : \A x \in ran'[u] : x \notin vetoed' /\ \A v \in TCM : TpStart(x) <= ud'[v].spno
  BY DEF Deletions
<1>5. ASSUME NEW x \in vetoed', ~Dead(ud'), ~(TpStart(x) <= lastspno')
      PROVE  \E u \in TCM : pc'[u] = "tpstart" /\ This(u)' = x /\ x \in deleted'[u] /\ reply'[u].rc = "wait"
  <2>1. PICK u \in TCM : pc[u] = "tpstart" /\ This(u) = x /\ x \in deleted[u] /\ reply[u].rc = "wait"
    BY <1>5 DEF Deletions
  <2>. QED  BY <1>1, <2>1
<1>. QED  BY <1>3, <1>4, <1>5 DEF Deletions

\* t goes on, without SYNCD
Moves(t) ==
    /\ reply[t].rc # "wait" /\ pc[t] # "exit"
    /\ \A u \in TCM \ {t} : /\ pc'[u] = pc[u] /\ ic'[u] = ic[u] /\ tp'[u] = tp[u]
                            /\ deleted'[u] = deleted[u] /\ reply'[u] = reply[u] /\ ran'[u] = ran[u]
    /\ reply'[t].rc = "none"
    /\ UNCHANGED <<ud, lastspno, vetoed>>

LEMMA NextIcMoves ==
  ASSUME Core, NEW t \in TCM, NextIc(t)
  PROVE  \A u \in TCM \ {t} : pc'[u] = pc[u] /\ ic'[u] = ic[u] /\ tp'[u] = tp[u]
<1>1. pc \in [TCM -> Sites \cup {"run", "exit"}] /\ ic \in [TCM -> 0..NIC] /\ tp \in [TCM -> Nat]
  BY DEF Core, TypeOK
<1>. QED  BY <1>1 DEF NextIc, Goto

LEMMA StepKinds ==
  ASSUME Core, NEW t \in TCM, Step(t) \/ Die(t) \/ TimeOut(t)
  PROVE  \/ tet_tcm_async(t) \/ TimeOut(t)
         \/ Exit(t) /\ UNCHANGED <<ic, tp, deleted, vetoed, ran>>
         \/ Moves(t) /\ (ran' = ran \/ tet_invoketp(t))
<1>1. /\ pc \in [TCM -> Sites \cup {"run", "exit"}] /\ ic \in [TCM -> 0..NIC] /\ tp \in [TCM -> Nat]
      /\ deleted \in [TCM -> SUBSET Deletable] /\ ran \in [TCM -> SUBSET TP]
  BY DEF Core, TypeOK
<1>. DEFINE Others == \A u \in TCM \ {t} : pc'[u] = pc[u] /\ ic'[u] = ic[u] /\ tp'[u] = tp[u]
<1>2. ASSUME NEW p, Goto(t, p), UNCHANGED ic, tp' = tp \/ \E n : tp' = [tp EXCEPT ![t] = n]
      PROVE  Others
  BY <1>1, <1>2 DEF Goto
<1>3. NextIc(t) => Others
  BY NextIcMoves
<1>4. NextTp(t) => Others
  <2>1. ASSUME tp[t] < tpcount[ic[t]], NextTp(t)
        PROVE  Others
    BY <1>1, <2>1 DEF NextTp, Goto
  <2>. QED  BY <1>3, <2>1 DEF NextTp
<1>5. Consumed(t) => /\ \A u \in TCM \ {t} : reply'[u] = reply[u]
                     /\ reply'[t].rc = "none" /\ UNCHANGED <<ud, lastspno>>
  BY ConsumedIs DEF NoReply
<1>6. ASSUME Others, Consumed(t), UNCHANGED <<deleted, ran, vetoed>>, pc[t] # "exit", reply[t].rc # "wait"
      PROVE  Moves(t)
  BY <1>5, <1>6 DEF Moves
<1>. HIDE DEF Others
<1>7. CASE SyncError(t) \/ tet_docleanup(t) \/ Die(t)
  BY <1>7 DEF SyncError, ExitFailure, tet_docleanup, Die, history
<1>8. CASE Started(t) \/ icstartAborted(t) \/ Aborted(t)
  <2>1. Others
    BY <1>2, <1>8 DEF Started, icstartAborted, Aborted
  <2>2. pc[t] # "exit" /\ reply[t].rc # "wait"
    BY <1>8 DEF Started, icstartAborted, Aborted, Got, Errors
  <2>. QED  BY <1>6, <1>8, <2>1, <2>2 DEF Started, icstartAborted, Aborted, history
<1>9. CASE tet_startup(t)
  <2>1. Others
    BY <1>3, <1>9 DEF tet_startup
  <2>2. \A u \in TCM \ {t} : deleted'[u] = deleted[u]
    BY <1>1, <1>9 DEF tet_startup, tet_delete
  <2>. QED  BY <1>5, <1>9, <2>1, <2>2 DEF tet_startup, Got, Moves, history, Others
<1>10. CASE icstart2(t)
  <2>1. Others
    <3>1. \E n : tp' = [tp EXCEPT ![t] = n]
      BY <1>10 DEF icstart2
    <3>. QED  BY <1>2, <1>10, <3>1 DEF icstart2
  <2>. QED  BY <1>6, <1>10, <2>1 DEF icstart2, Got, history
<1>11. CASE Uninitiated(t)
  <2>1. Others
    BY <1>2, <1>11 DEF Uninitiated
  <2>2. pc[t] # "exit" /\ reply[t].rc # "wait"
    BY <1>11 DEF Uninitiated, ReadyForTp, Got, Errors
  <2>. QED  BY <1>6, <1>11, <2>1, <2>2 DEF Uninitiated
<1>12. CASE tet_invoketp(t)
  <2>1. Others
    BY <1>2, <1>12 DEF tet_invoketp
  <2>2. pc[t] # "exit" /\ reply[t].rc # "wait"
    BY <1>12 DEF tet_invoketp, ReadyForTp, Got, Errors
  <2>3. \A u \in TCM \ {t} : ran'[u] = ran[u]
    BY <1>1, <1>12 DEF tet_invoketp
  <2>. QED  BY <1>5, <1>12, <2>1, <2>2, <2>3 DEF tet_invoketp, Moves, Others
<1>13. CASE TpReturns(t)
  <2>1. Others
    BY <1>2, <1>13 DEF TpReturns
  <2>2. \A u \in TCM \ {t} : deleted'[u] = deleted[u]
    BY <1>1, <1>13 DEF TpReturns, tet_delete
  <2>3. pc[t] = "run" /\ reply[t].rc = "none"
    <3>1. pc[t] = "run"
      BY <1>13 DEF TpReturns
    <3>2. ud[t].state # "DEAD" /\ Known(pc[t], ic[t], tp[t], deleted[t], ud[t], reply[t])
      BY <3>1 DEF Core, Control, AllKnown
    <3>. QED  BY <3>1, <3>2 DEF Known
  <2>. QED  BY <1>13, <2>1, <2>2, <2>3 DEF TpReturns, sdvars, Moves, Others
<1>14. CASE tpend2(t)
  <2>1. Others
    BY <1>4, <1>14 DEF tpend2, AfterTp
  <2>. QED  BY <1>6, <1>14, <2>1 DEF tpend2, AfterTp, Got, history
<1>15. CASE mtcm_tpend2(t)
  <2>1. pc[t] # "exit" /\ reply[t].rc # "wait" /\ UNCHANGED <<ran, vetoed>>
    BY <1>15 DEF mtcm_tpend2, Got, Errors, history
  <2>2. CASE xr.abort
    <3>1. Others
      BY <1>2, <1>15, <2>2 DEF mtcm_tpend2
    <3>. QED  BY <1>6, <1>15, <2>1, <2>2, <3>1 DEF mtcm_tpend2
  <2>3. CASE ~xr.abort /\ reply[t].rc = "OK"
    <3>1. AfterTp(t)
      BY <1>15, <2>3 DEF mtcm_tpend2
    <3>2. Others
      BY <1>4, <3>1 DEF AfterTp
    <3>. QED  BY <1>6, <2>1, <3>1, <3>2 DEF AfterTp
  <2>4. CASE ~xr.abort /\ reply[t].rc # "OK"
    <3>1. ExitFailure(t)
      BY <1>15, <2>4 DEF mtcm_tpend2
    <3>. QED  BY <2>1, <3>1 DEF ExitFailure
  <2>. QED  BY <2>2, <2>3, <2>4
<1>. QED  BY <1>7, <1>8, <1>9, <1>10, <1>11, <1>12, <1>13, <1>14, <1>15 DEF Step

LEMMA DeletionsKept ==
  ASSUME Core, Deletions(ud, reply, lastspno, vetoed), [Next]_vars
  PROVE  Deletions(ud, reply, lastspno, vetoed)'
<1>1. CASE UNCHANGED vars
  BY <1>1 DEF vars, tcmvars, sdvars, history, Deletions, This
<1>2. ASSUME NEW t \in TCM, Step(t) \/ Die(t) \/ TimeOut(t)
      PROVE  Deletions(ud, reply, lastspno, vetoed)'
  <2>1. CASE Moves(t) /\ (ran' = ran \/ tet_invoketp(t))
    <3>1. ASSUME NEW x \in ran'[t]
          PROVE  x \notin vetoed /\ \A u \in TCM : TpStart(x) <= ud[u].spno
      <4>1. CASE x \in ran[t]
        BY <4>1 DEF Deletions
      <4>2. CASE x \notin ran[t]
        <5>1. tet_invoketp(t)
          BY <2>1, <3>1, <4>2
        <5>2. ran \in [TCM -> SUBSET TP]
          BY DEF Core, TypeOK
        <5>3. x = This(t)
          BY <3>1, <4>2, <5>1, <5>2 DEF tet_invoketp
        <5>4. pc[t] = "tpstart" /\ Good(reply, t) /\ This(t) \notin deleted[t]
          BY <5>1, ExpectedIsGood DEF tet_invoketp, tet_reason
        <5>5. MayInvoke(reply, t)
          BY <5>1 DEF tet_invoketp, ReadyForTp, Got, XSyncDel, OthersVoted, MayInvoke
        <5>6. x \notin vetoed
          BY <5>3, <5>4, <5>5 DEF Deletions
        <5>7. "tpstart" \in Sites
          BY DEF Sites
        <5>8. ud[t].spno = TpStart(x) /\ Floor(ud, lastspno, ud[t].spno)
          BY <5>3, <5>4, <5>7, Answered, TpStartIs
        <5>. QED  BY <5>6, <5>8 DEF Floor
      <4>. QED  BY <4>1, <4>2
    <3>. QED  BY <2>1, <3>1, DeletionsMove DEF Moves
  <2>. QED  BY <1>2, <2>1, StepKinds, DeletionsVote, DeletionsExit, DeletionsTimeOut, Zenon
<1>. QED  BY <1>1, <1>2, Zenon DEF Next, Finished

(* A test purpose that some TCM has deleted is invoked by no TCM, in       *)
(* whatever order the TCMs vote, die or are timed out (tpstart2()).        *)
THEOREM NotInvoked == Spec => []DeletedNotInvoked
<1>1. Init => Deletions(ud, reply, lastspno, vetoed)
  BY DEF Init, Deletions
<1>2. Core /\ Deletions(ud, reply, lastspno, vetoed) /\ [Next]_vars => Deletions(ud, reply, lastspno, vetoed)'
  BY DeletionsKept, Zenon
<1>3. Deletions(ud, reply, lastspno, vetoed) => DeletedNotInvoked
  BY DEF Deletions, DeletedNotInvoked
<1>. QED  BY <1>1, <1>2, <1>3, Lockstep, PTL DEF Spec

-----------------------------------------------------------------------------
(***************************************************************************)
(* Results and errors.  While no sync has timed out and no abort has been  *)
(* asked for, all TCMs vote for the same sync point; an event tells either *)
(* everybody that all have voted, or everybody that one has died.          *)
(***************************************************************************)
Calm == timeouts = 0 /\ ~xr.abort
Free == Calm /\ dead = 0

NoTimeouts(d, r) == \A t \in TCM : /\ d[t].ntimedout = 0 /\ d[t].state # "TIMEDOUT"
                                   /\ r[t].rc \notin {"DONE", "TIMEDOUT"}

\* a TCM has died and everyone has been told so
Doomed(d, r) == \A t \in TCM : \/ d[t].state = "DEAD"
                               \/ r[t].rc = "SYNCERR" /\ ~Good(r, t)

\* nobody has been told of a death, nor of a NO vote but for a TP
Sound(d, r) == \A t \in TCM : /\ Voted(d[t]) <=> r[t].rc = "wait"
                              /\ r[t].rc = "SYNCERR" => Good(r, t) /\ pc[t] = "tpstart"

\* a TCM is in a TP, or may go into it
Inside(r, t) == pc[t] = "run" \/ (pc[t] = "tpstart" /\ Good(r, t))

\* what the MTCM has told XRESD
Told(r, x) ==
    /\ \/ pc[Master] = "icstart" /\ r[Master].rc # "none"
       \/ pc[Master] \in {"tpstart", "run", "tpend"}
       => x.ic = ic[Master]
    /\ \/ pc[Master] = "tpstart" /\ r[Master].rc # "none"
       \/ pc[Master] \in {"run", "tpend"}
       => x.tp = tp[Master]

Clean ==
    /\ timeouts = 0 => NoTimeouts(ud, reply)
    /\ Calm => /\ Doomed(ud, reply) \/ Sound(ud, reply)
               /\ \A t \in TCM : Inside(reply, t) => InProgress(t)
               /\ \A t \in TCM : pc[t] = "cleanup" => Floor(ud, lastspno, LastTp)
               /\ ~lost
    /\ Free => /\ failed = {} /\ Sound(ud, reply)
               /\ \A t, u \in TCM : pc[t] = "exit" =>
                        pc[u] = "exit" \/ (pc[u] = "cleanup" /\ reply[u].rc = "OK")

\* everybody has got to the sync point before the one that anybody is at
AllBefore == \A u \in TCM : pc[u] \in Sites =>
                pc[u] # "abort" /\ Before(pc[u], ic[u], tp[u]) <= lastspno

LEMMA CalmBefore ==
  ASSUME Core, Clean, Calm
  PROVE  AllBefore
<1>1. SUFFICES ASSUME NEW u \in TCM, pc[u] \in Sites
               PROVE  pc[u] # "abort" /\ Before(pc[u], ic[u], tp[u]) <= lastspno
  BY DEF AllBefore
<1>2. pc[u] # "abort"
  BY DEF Core, Control, Calm
<1>3. CASE pc[u] = "cleanup"
  <2>1. Before(pc[u], ic[u], tp[u]) = LastTp
    BY <1>3 DEF Before
  <2>. QED  BY <1>2, <1>3, <2>1 DEF Clean, Floor
<1>4. CASE pc[u] # "cleanup"
  BY <1>1, <1>2, <1>4 DEF Core, Control, Floor
<1>. QED  BY <1>3, <1>4

\* who is live in d is not at its end
Live(d) == \A u \in TCM : d[u].state # "DEAD" => pc[u] # "exit"

\* All votes that are waiting are for one sync point.
LEMMA SameSync ==
  ASSUME Core, AllBefore, NEW d, NEW r, Ready(d, r), Live(d), lastspno < SPMAX,
         NEW t \in TCM, Voted(d[t])
  PROVE  /\ pc[t] \in Sites /\ r[t].rc = "wait"
         /\ d[t].spno = Number(pc[t], ic[t], tp[t])
         /\ \A u \in TCM : Voted(d[u]) => d[u].spno = d[t].spno
<1>1. ASSUME NEW u \in TCM, Voted(d[u])
      PROVE  /\ pc[u] \in Sites \ {"abort"} /\ r[u].rc = "wait"
             /\ d[u].spno = Number(pc[u], ic[u], tp[u]) /\ d[u].spno > lastspno /\ d[u].spno \in Nat
             /\ Before(pc[u], ic[u], tp[u]) <= lastspno /\ Before(pc[u], ic[u], tp[u]) \in Nat
             /\ ic[u] \in 0..NIC /\ tp[u] \in Nat /\ Placed(pc[u], ic[u], tp[u])
  <2>1. d[u].spno > lastspno /\ r[u].rc = "wait" /\ d[u].spno \in Nat
    BY <1>1, SpnoRange DEF Ready, Daemon, Users
  <2>2. d[u].state # "DEAD"
    BY <1>1 DEF Voted
  <2>3. pc[u] # "exit" /\ Known(pc[u], ic[u], tp[u], deleted[u], d[u], r[u])
    BY <2>2 DEF Live, Ready, AllKnown
  <2>4. pc[u] # "run"
    BY <2>1, <2>2, <2>3 DEF Known
  <2>5. pc[u] \in Sites
    BY <2>3, <2>4, CoreTypes
  <2>6. d[u].spno = Number(pc[u], ic[u], tp[u])
    BY <2>1, <2>2, <2>3, <2>5 DEF Known
  <2>7. ic[u] \in 0..NIC /\ tp[u] \in Nat /\ Placed(pc[u], ic[u], tp[u])
    BY CoreTypes DEF Core, Control
  <2>8. Before(pc[u], ic[u], tp[u]) \in Nat
    BY <2>5, <2>7, NumberType
  <2>. QED  BY <2>1, <2>5, <2>6, <2>7, <2>8 DEF AllBefore
<1>2. ASSUME NEW u \in TCM, NEW v \in TCM, Voted(d[u]), Voted(d[v])
      PROVE  d[v].spno >= d[u].spno
  <2>1. \/ Number(pc[v], ic[v], tp[v]) <= Before(pc[u], ic[u], tp[u])
        \/ Number(pc[v], ic[v], tp[v]) >= Number(pc[u], ic[u], tp[u])
    BY <1>1, <1>2, Between
  <2>. QED  BY <1>1, <1>2, <2>1, CoreTypes
<1>3. \A u \in TCM : Voted(d[u]) => d[u].spno = d[t].spno
  BY <1>1, <1>2
<1>. QED  BY <1>1, <1>3

\* An event when one has died dooms everybody.
LEMMA DeadEvent ==
  ASSUME NEW d \in Users, NEW r \in Replies, NEW l \in 0..SPMAX, NEW d2, NEW r2, NEW l2,
         Event(d, r, l, d2, r2, l2), Happened(d), Daemon(d, r, l), Votes(d),
         NoTimeouts(d, r), Sound(d, r), Dead(d)
  PROVE  Doomed(d2, r2)
<1>1. /\ \A t \in TCM : d2[t].state = "DEAD" <=> d[t].state = "DEAD"
  BY EventKeepsDaemon
<1>2. l2 = SPMAX
  BY LastSpnoIs
<1>3. SUFFICES ASSUME NEW t \in TCM, d[t].state # "DEAD"
               PROVE  r2[t].rc = "SYNCERR" /\ ~Good(r2, t)
  BY <1>1 DEF Doomed
<1>4. Voted(d[t])
  <2>1. d[t].state \in UserState
    BY DEF Users
  <2>2. d[t].state # "NOTSYNCED"
    BY DEF Happened, NoTimeouts
  <2>. QED  BY <1>3, <2>1, <2>2 DEF UserState, Voted
<1>5. r[t].rc = "wait"
  BY <1>4 DEF Sound
<1>6. d[t].spno <= l2
  BY <1>2, SpnoRange DEF Users
<1>7. r2[t] = synmsg(d, t)
  BY <1>4, <1>5, <1>6, EventOne
<1>8. Failure(d)
  BY DEF Dead, Failure
<1>9. /\ \A u \in TCM : r2[t].state[u] = d[u].state
      /\ r2[t].rc \in {"OK"} \cup Errors /\ r2[t].rc # "OK" /\ r2[t].rc # "TIMEDOUT"
  <2>1. d[t].state # "TIMEDOUT"
    BY DEF NoTimeouts
  <2>. QED  BY <1>7, <1>8, <2>1, SynmsgIs, Zenon
<1>10. r2[t].rc = "SYNCERR"
  BY <1>9 DEF Errors
<1>11. ~Good(r2, t)
  <2>1. PICK u \in TCM : d[u].state = "DEAD"
    BY DEF Dead
  <2>. QED  BY <1>3, <1>9, <1>10, <2>1 DEF Good, Expected
<1>. QED  BY <1>10, <1>11

LEMMA NoTimeoutsEvent ==
  ASSUME NEW d \in Users, NEW r \in Replies, NEW l \in 0..SPMAX, NEW d2, NEW r2, NEW l2,
         Event(d, r, l, d2, r2, l2), Happened(d), NoTimeouts(d, r)
  PROVE  NoTimeouts(d2, r2)
<1>1. SUFFICES ASSUME NEW t \in TCM
               PROVE  /\ d2[t].ntimedout = 0 /\ d2[t].state # "TIMEDOUT"
                      /\ r2[t].rc \notin {"DONE", "TIMEDOUT"}
  BY DEF NoTimeouts
<1>2. d[t].ntimedout = 0 /\ d[t].state # "TIMEDOUT" /\ r[t].rc \notin {"DONE", "TIMEDOUT"}
  BY DEF NoTimeouts
<1>3. ~SomeTimedOut(d)
  BY DEF NoTimeouts, SomeTimedOut
<1>4. d2[t].ntimedout = 0 /\ d2[t].state # "TIMEDOUT"
  BY <1>2, <1>3, EventOne
<1>5. r2[t] = r[t] \/ r2[t] = synmsg(d, t)
  BY EventOne
<1>6. synmsg(d, t).rc \notin {"DONE", "TIMEDOUT"}
  BY <1>2, SynmsgIs DEF Errors
<1>. QED  BY <1>2, <1>4, <1>5, <1>6

LEMMA DoomedEvent ==
  ASSUME NEW d \in Users, NEW r \in Replies, NEW l \in 0..SPMAX, NEW d2, NEW r2, NEW l2,
         Event(d, r, l, d2, r2, l2), Happened(d), Daemon(d, r, l), Votes(d), Doomed(d, r)
  PROVE  Doomed(d2, r2)
<1>1. SUFFICES ASSUME NEW t \in TCM, d2[t].state # "DEAD"
               PROVE  r2[t].rc = "SYNCERR" /\ ~Good(r2, t)
  BY DEF Doomed
<1>2. d[t].state # "DEAD"
  BY <1>1, EventKeepsDaemon
<1>3. r[t].rc = "SYNCERR" /\ ~Good(r, t)
  BY <1>2 DEF Doomed
<1>4. r2[t] = r[t]
  BY <1>3, EventOne
<1>. QED  BY <1>3, <1>4 DEF Good

\* An event when nobody has died tells everybody that all have voted.
LEMMA LiveEvent ==
  ASSUME Core, AllBefore, NEW d, NEW r, Ready(d, r), Live(d), NEW d2, NEW r2, NEW l2,
         Event(d, r, lastspno, d2, r2, l2), Happened(d), NoTimeouts(d, r), ~Dead(d)
  PROVE  /\ Sound(d2, r2)
         /\ \A t, u \in TCM : pc[t] = "tpstart" =>
                pc[u] = "tpstart" /\ This(u) = This(t) /\ r[u].rc = "wait"
<1>1. /\ d \in Users /\ r \in Replies /\ lastspno \in 0..SPMAX
      /\ Daemon(d, r, lastspno) /\ Votes(d) /\ AllKnown(d, r)
      /\ lastspno \in Nat /\ lastspno <= SPMAX /\ SPMAX \in Nat
  BY CoreTypes DEF Ready
<1>2. lastspno < SPMAX
  BY <1>1 DEF Daemon
<1>3. \A t \in TCM : d[t].state \in {"SYNCYES", "SYNCNO"}
  <2>1. \A t \in TCM : d[t].state \in UserState
    BY <1>1 DEF Users
  <2>. QED  BY <2>1 DEF NoTimeouts, Happened, Dead, UserState
<1>4. \A t \in TCM : Voted(d[t])
  BY <1>3 DEF Voted
<1>5. /\ \A t \in TCM : /\ pc[t] \in Sites /\ r[t].rc = "wait"
                        /\ d[t].spno = Number(pc[t], ic[t], tp[t])
      /\ \A t, u \in TCM : d[u].spno = d[t].spno
  BY <1>2, <1>4, SameSync
<1>6. \A t \in TCM : d[t].spno = l2 /\ d[t].spno = EventSpno(d) /\ l2 \in Nat
  <2>1. l2 = EventSpno(d) /\ l2 \in 0..SPMAX /\ \E t \in TCM : l2 = d[t].spno
    BY <1>1, LastSpnoIs
  <2>. QED  BY <1>5, <2>1, SpnoRange
<1>7. \A t \in TCM : d2[t].state = "NOTSYNCED" /\ r2[t] = synmsg(d, t)
  BY <1>1, <1>4, <1>5, <1>6, EventOne
<1>8. \A t, u \in TCM : pc[t] = pc[u] /\ (pc[t] = "tpstart" => ic[t] = ic[u] /\ tp[t] = tp[u])
  <2>1. ASSUME NEW t \in TCM, NEW u \in TCM
        PROVE  pc[t] = pc[u] /\ (pc[t] = "tpstart" => ic[t] = ic[u] /\ tp[t] = tp[u])
    <3>1. Number(pc[t], ic[t], tp[t]) = Number(pc[u], ic[u], tp[u])
      BY <1>5
    <3>2. /\ ic[t] \in 0..NIC /\ tp[t] \in Nat /\ Placed(pc[t], ic[t], tp[t])
          /\ ic[u] \in 0..NIC /\ tp[u] \in Nat /\ Placed(pc[u], ic[u], tp[u])
      BY CoreTypes DEF Core, Control
    <3>. QED  BY <1>5, <3>1, <3>2, SameNumber
  <2>. QED  BY <2>1
<1>9. ASSUME NEW t \in TCM
      PROVE  /\ ~Voted(d2[t]) /\ r2[t].rc # "wait"
             /\ r2[t].rc = "SYNCERR" => Good(r2, t) /\ pc[t] = "tpstart"
  <2>1. ~Voted(d2[t])
    BY <1>7 DEF Voted
  <2>2. r2[t].rc \in {"OK"} \cup Errors /\ (r2[t].rc = "OK" <=> ~Failure(d))
    BY <1>1, <1>7, SynmsgIs
  <2>3. ASSUME r2[t].rc = "SYNCERR"
        PROVE  Good(r2, t) /\ pc[t] = "tpstart"
    <3>1. Failure(d)
      BY <2>2, <2>3
    <3>2. \A u \in TCM : r2[t].state[u] = d[u].state
      BY <1>1, <1>7, <3>1, SynmsgIs, Zenon
    <3>3. Good(r2, t)
      BY <1>3, <2>3, <3>2 DEF Good, Expected, Errors
    <3>4. PICK u \in TCM : d[u].state = "SYNCNO"
      BY <1>3, <3>1 DEF Failure
    <3>5. VoteOf(pc[u], ic[u], tp[u], deleted[u]) = "SYNCNO"
      <4>1. Known(pc[u], ic[u], tp[u], deleted[u], d[u], r[u])
        BY <1>1 DEF AllKnown
      <4>. QED  BY <1>5, <3>4, <4>1 DEF Known
    <3>6. pc[u] = "tpstart"
      BY <1>5, <3>5 DEF VoteOf, AllBefore
    <3>. QED  BY <1>8, <3>3, <3>6
  <2>. QED  BY <2>1, <2>2, <2>3 DEF Errors
<1>10. Sound(d2, r2)
  BY <1>9 DEF Sound
<1>11. ASSUME NEW t \in TCM, NEW u \in TCM, pc[t] = "tpstart"
       PROVE  pc[u] = "tpstart" /\ This(u) = This(t) /\ r[u].rc = "wait"
  BY <1>5, <1>8, <1>11 DEF This
<1>. QED  BY <1>10, <1>11

\* where a TCM is that is inside a TP
LEMMA InsideIs ==
  ASSUME Core, NEW t \in TCM, Inside(reply, t)
  PROVE  /\ ud[t].spno = Number("tpstart", ic[t], tp[t])
         /\ Floor(ud, lastspno, Number("tpstart", ic[t], tp[t]))
         /\ ic[t] \in 0..NIC /\ tp[t] \in Nat /\ Placed("tpstart", ic[t], tp[t])
<1>1. ic[t] \in 0..NIC /\ tp[t] \in Nat /\ Placed(pc[t], ic[t], tp[t])
  BY CoreTypes DEF Core, Control
<1>2. Placed("tpstart", ic[t], tp[t])
  BY <1>1 DEF Inside, Placed
<1>3. CASE pc[t] = "run"
  <2>1. ud[t].state # "DEAD" /\ Known("run", ic[t], tp[t], deleted[t], ud[t], reply[t])
    BY <1>3 DEF Core, Control, AllKnown
  <2>2. Before("run", ic[t], tp[t]) = Number("tpstart", ic[t], tp[t])
    BY DEF Before
  <2>3. Floor(ud, lastspno, Before("run", ic[t], tp[t]))
    BY <1>3 DEF Core, Control
  <2>. QED  BY <1>1, <1>2, <2>1, <2>2, <2>3 DEF Known
<1>4. CASE pc[t] = "tpstart" /\ Good(reply, t)
  <2>1. "tpstart" \in Sites
    BY DEF Sites
  <2>. QED  BY <1>1, <1>2, <1>4, <2>1, Answered
<1>. QED  BY <1>3, <1>4 DEF Inside

\* While a TCM is inside a TP, the MTCM does not go on to the next one.
LEMMA MasterStays ==
  ASSUME Core, NEW t \in TCM, Inside(reply, t)
  PROVE  /\ ~(pc[Master] \in {"icstart", "tpstart"} /\ reply[Master].rc = "none")
         /\ ~(pc[Master] = "tpend" /\ Good(reply, Master))
<1>1. /\ ud[t].spno = Number("tpstart", ic[t], tp[t])
      /\ Floor(ud, lastspno, Number("tpstart", ic[t], tp[t]))
      /\ ic[t] \in 0..NIC /\ tp[t] \in Nat /\ Placed("tpstart", ic[t], tp[t])
  BY InsideIs
<1>2. /\ Master \in TCM
      /\ ic[Master] \in 0..NIC /\ tp[Master] \in Nat /\ Placed(pc[Master], ic[Master], tp[Master])
      /\ ud[Master].spno \in Nat /\ ud[t].spno \in Nat
  BY TcmAssumption, CoreTypes DEF Core, Control
<1>3. "tpstart" \in Sites /\ "tpend" \in Sites /\ "icstart" \in Sites
  BY DEF Sites
<1>4. Number("tpstart", ic[t], tp[t]) <= ud[Master].spno
  BY <1>1, <1>2 DEF Floor
<1>5. ASSUME pc[Master] \in {"icstart", "tpstart"}, reply[Master].rc = "none"
      PROVE  FALSE
  <2>1. ud[Master].spno = Before(pc[Master], ic[Master], tp[Master])
    <3>1. /\ ud[Master].state # "DEAD"
          /\ Known(pc[Master], ic[Master], tp[Master], deleted[Master], ud[Master], reply[Master])
      BY <1>2, <1>3, <1>5, SiteNumber DEF Core, Control, AllKnown
    <3>. QED  BY <1>3, <1>5, <3>1 DEF Known
  <2>2. Floor(ud, lastspno, Before(pc[Master], ic[Master], tp[Master]))
    BY <1>2, <1>3, <1>5 DEF Core, Control
  <2>3. Before(pc[Master], ic[Master], tp[Master]) <= ud[t].spno
    BY <2>2 DEF Floor
  <2>4. Before(pc[Master], ic[Master], tp[Master]) = Number("tpstart", ic[t], tp[t])
    BY <1>1, <1>2, <1>4, <2>1, <2>3
  <2>5. /\ Number("tpstart", ic[t], tp[t]) = (ic[t] + 1) * 65536 + tp[t] * 2
        /\ ic[t] \in Nat /\ 1 <= tp[t] /\ tp[t] <= 32766
    <3>1. /\ Number("tpstart", ic[t], tp[t]) = (ic[t] + 1) * 65536 + tp[t] * 2
          /\ ic[t] \in Nat /\ 1 <= tp[t] /\ tp[t] <= tpcount[ic[t]]
          /\ tpcount[ic[t]] \in Nat /\ tpcount[ic[t]] <= 32766
      BY <1>1, SiteIs
    <3>. QED  BY <1>1, <3>1
  <2>6. CASE pc[Master] = "icstart"
    <3>1. /\ ic[Master] \in Nat /\ 1 <= ic[Master] /\ ic[Master] <= NIC
          /\ ic[Master] = 1 => Before("icstart", ic[Master], tp[Master]) = 2
          /\ ic[Master] # 1 => Before("icstart", ic[Master], tp[Master])
                                    = ic[Master] * 65536 + tpcount[ic[Master] - 1] * 2 + 1
      BY <1>2, <2>6, SiteIs
    <3>2. ic[Master] # 1 => tpcount[ic[Master] - 1] \in Nat
      <4>1. NIC \in Nat
        BY Bounds
      <4>2. ic[Master] # 1 => ic[Master] - 1 \in 1..NIC
        BY <3>1, <4>1
      <4>. QED  BY <4>2, Bounds
    <3>. QED  BY <1>1, <2>4, <2>5, <2>6, <3>1, <3>2
  <2>7. CASE pc[Master] = "tpstart"
    <3>1. /\ ic[Master] \in Nat /\ 1 <= tp[Master]
          /\ tp[Master] = 1 => Before("tpstart", ic[Master], tp[Master]) = (ic[Master] + 1) * 65536
          /\ tp[Master] # 1 => Before("tpstart", ic[Master], tp[Master])
                                    = (ic[Master] + 1) * 65536 + tp[Master] * 2 - 1
      BY <1>2, <2>7, SiteIs
    <3>. QED  BY <1>1, <1>2, <2>4, <2>5, <2>7, <3>1
  <2>. QED  BY <1>5, <2>6, <2>7
<1>6. ASSUME pc[Master] = "tpend", Good(reply, Master)
      PROVE  FALSE
  <2>1. /\ ud[Master].spno = Number("tpend", ic[Master], tp[Master])
        /\ Floor(ud, lastspno, ud[Master].spno)
    BY <1>2, <1>3, <1>6, Answered
  <2>2. ud[Master].spno <= ud[t].spno
    BY <2>1 DEF Floor
  <2>3. Number("tpstart", ic[t], tp[t]) = Number("tpend", ic[Master], tp[Master])
    BY <1>1, <1>2, <1>4, <2>1, <2>2
  <2>. QED  BY <1>1, <1>2, <1>3, <1>6, <2>3, SameNumber
<1>. QED  BY <1>5, <1>6

\* SYNCD answers only who waits
LEMMA NoneStays ==
  ASSUME Core, NEW d, NEW r, Ready(d, r), stcheck(d, r), NEW t \in TCM
  PROVE  reply'[t].rc = "none" <=> r[t].rc = "none"
<1>1. Event(d, r, lastspno, ud', reply', lastspno')
  BY StcheckIs, Zenon
<1>2. d \in Users /\ r \in Replies /\ lastspno \in 0..SPMAX
  BY CoreTypes DEF Ready
<1>3. CASE ~Happened(d)
  BY <1>1, <1>3 DEF Event
<1>4. CASE Happened(d)
  <2>1. /\ r[t].rc = "wait" /\ Voted(d[t]) /\ d[t].spno <= lastspno' => reply'[t] = synmsg(d, t)
        /\ ~(r[t].rc = "wait" /\ Voted(d[t]) /\ d[t].spno <= lastspno') => reply'[t] = r[t]
    BY <1>1, <1>2, <1>4, EventOne
  <2>2. synmsg(d, t).rc # "none"
    BY <1>2, SynmsgIs DEF Errors
  <2>. QED  BY <2>1, <2>2
<1>. QED  BY <1>3, <1>4

\* the MTCM's part of an exit
LEMMA ToldExit ==
  ASSUME Core, Told(reply, xr), NEW t \in TCM, Exit(t), UNCHANGED <<ic, tp>>,
         t # Master => UNCHANGED xr
  PROVE  Told(reply, xr)'
<1>. DEFINE d == [ud EXCEPT ![t].state = "DEAD"]
            r == [reply EXCEPT ![t] = NoReply]
<1>1. stcheck(d, r) /\ pc' = [pc EXCEPT ![t] = "exit"]
  BY Zenon DEF Exit, Goto, stdead
<1>2. Ready(d, r)
  BY DeadReady
<1>3. \A u \in TCM \ {t} : r[u] = reply[u]
  OBVIOUS
<1>. HIDE DEF d, r
<1>4. Master \in TCM
  BY TcmAssumption
<1>5. CASE t = Master
  <2>1. pc'[Master] = "exit"
    BY <1>1, <1>4, <1>5, CoreTypes
  <2>. QED  BY <2>1 DEF Told
<1>6. CASE t # Master
  <2>1. pc'[Master] = pc[Master] /\ (reply'[Master].rc = "none" <=> reply[Master].rc = "none")
    BY <1>1, <1>2, <1>3, <1>4, <1>6, NoneStays
  <2>. QED  BY <1>6, <2>1 DEF Told
<1>. QED  BY <1>5, <1>6

\* ... of a vote, before and after the event
LEMMA ToldVote ==
  ASSUME Core, Told(reply, xr), NEW t \in TCM, tet_tcm_async(t)
  PROVE  /\ Told([reply EXCEPT ![t] = Waiting], xr')
         /\ Told(reply, xr)'
         /\ xr'.abort = xr.abort
         /\ ~(t = Master /\ pc[t] \in {"icstart", "tpstart"}) => xr' = xr
<1>. DEFINE r == [reply EXCEPT ![t] = Waiting]
<1>1. /\ pc[t] \in Sites /\ reply[t].rc = "none" /\ TellStart(t) /\ op_async(t, Spno(t), Vote(t))
      /\ UNCHANGED <<pc, ic, tp, deleted>>
  BY DEF tet_tcm_async, tcmvars
<1>2. xr \in [ic : 0..NIC, tp : Nat, abort : BOOLEAN] /\ Master \in TCM
  BY TcmAssumption DEF Core, TypeOK
<1>3. /\ t = Master /\ pc[t] = "icstart" => xr'.ic = ic[t] /\ xr'.tp = xr.tp
      /\ t = Master /\ pc[t] = "tpstart" => xr'.tp = tp[t] /\ xr'.ic = xr.ic
      /\ ~(t = Master /\ pc[t] \in {"icstart", "tpstart"}) => xr' = xr
      /\ xr'.abort = xr.abort
  BY <1>1, <1>2 DEF TellStart
<1>4. ASSUME NEW s, s[t].rc # "none", \A u \in TCM \ {t} : s[u].rc = "none" <=> reply[u].rc = "none"
      PROVE  Told(s, xr')
  <2>1. CASE t = Master
    BY <1>1, <1>2, <1>3, <1>4, <2>1 DEF Told
  <2>2. CASE t # Master
    BY <1>2, <1>3, <1>4, <2>2 DEF Told
  <2>. QED  BY <2>1, <2>2
<1>5. r[t].rc = "wait" /\ \A u \in TCM \ {t} : r[u] = reply[u]
  BY CoreTypes DEF Replies, Waiting, NoReply
<1>6. Told(r, xr')
  <2>. HIDE DEF r
  <2>. QED  BY <1>4, <1>5
<1>7. reply'[t].rc # "none" /\ \A u \in TCM \ {t} : reply'[u].rc = "none" <=> reply[u].rc = "none"
  <2>1. CASE ud[t].ntimedout > 0 /\ Spno(t) <= lastspno
    <3>1. reply' = [reply EXCEPT ![t].rc = "DONE"]
      BY <1>1, <2>1 DEF op_async
    <3>2. reply \in Replies
      BY CoreTypes
    <3>. QED  BY <3>1, <3>2 DEF Replies
  <2>2. CASE ~(ud[t].ntimedout > 0 /\ Spno(t) <= lastspno)
    <3>. DEFINE d == [ud EXCEPT ![t] = [state |-> Vote(t), spno |-> Spno(t), ntimedout |-> 0]]
    <3>1. stcheck(d, r)
      BY <1>1, <2>2, Zenon DEF op_async
    <3>2. Ready(d, r)
      BY <1>1, <2>2, VoteReady
    <3>. HIDE DEF d, r
    <3>. QED  BY <1>5, <3>1, <3>2, NoneStays
  <2>. QED  BY <2>1, <2>2
<1>8. Told(reply', xr')
  BY <1>4, <1>7
<1>9. Told(reply, xr)'
  BY <1>1, <1>8 DEF Told
<1>. QED  BY <1>3, <1>6, <1>9

LEMMA ToldTimeOut ==
  ASSUME Core, Told(reply, xr), NEW t \in TCM, TimeOut(t)
  PROVE  Told(reply, xr)'
<1>. DEFINE d == [ud EXCEPT ![t].state = "TIMEDOUT"]
<1>1. /\ reply[t].rc = "wait" /\ stcheck(d, reply)
      /\ UNCHANGED <<pc, ic, tp, deleted, xr>>
  BY Zenon DEF TimeOut, tcmvars
<1>2. Ready(d, reply)
  BY <1>1, TimeReady
<1>. HIDE DEF d
<1>3. Master \in TCM
  BY TcmAssumption
<1>4. reply'[Master].rc = "none" <=> reply[Master].rc = "none"
  BY <1>1, <1>2, <1>3, NoneStays
<1>. QED  BY <1>1, <1>4 DEF Told

\* t goes on: what that has to do with the other parts
Goes(t) ==
    /\ Moves(t)
    /\ pc[t] # "cleanup" /\ pc'[t] # "exit"
    /\ UNCHANGED <<failed, timeouts, dead>>
    /\ pc[t] = "run" \/ Good(reply, t) \/ (pc[t] = "tpend" /\ xr.abort)
    /\ xr.abort => xr'.abort
    /\ \/ xr'.ic = xr.ic /\ xr'.tp = xr.tp
       \/ t = Master /\ pc[t] = "tpend" /\ (xr.abort \/ reply[t].rc = "OK")
    /\ lost' = lost \/ (Inside(reply, t) /\ lost' = (lost \/ ~InProgress(t)))
    /\ pc'[t] = "run" => Inside(reply, t) /\ UNCHANGED <<ic, tp, xr>>
    /\ pc'[t] = "cleanup" =>
            \/ pc[t] = "abort" \/ (pc[t] = "icstart" /\ reply[t].rc \in Errors)
            \/ pc[t] \in Sites /\ Good(reply, t) /\ Number(pc[t], ic[t], tp[t]) = LastTp
    /\ Told(reply, xr) => Told(reply, xr)'

LEMMA ToldOthers ==
  ASSUME Core, NEW t \in TCM, Moves(t), t # Master, xr'.ic = xr.ic /\ xr'.tp = xr.tp,
         Told(reply, xr)
  PROVE  Told(reply, xr)'
<1>1. Master \in TCM \ {t}
  BY TcmAssumption
<1>2. pc'[Master] = pc[Master] /\ ic'[Master] = ic[Master] /\ tp'[Master] = tp[Master]
      /\ reply'[Master] = reply[Master]
  BY <1>1 DEF Moves
<1>. QED  BY <1>2 DEF Told

LEMMA MovesOf ==
  ASSUME Core, NEW t \in TCM,
         \/ Started(t) \/ tet_startup(t) \/ icstart2(t) \/ icstartAborted(t) \/ Aborted(t)
         \/ Uninitiated(t) \/ tet_invoketp(t) \/ TpReturns(t) \/ tpend2(t)
         \/ mtcm_tpend2(t) /\ (xr.abort \/ reply[t].rc = "OK")
  PROVE  Moves(t)
<1>1. pc \in [TCM -> Sites \cup {"run", "exit"}] /\ "exit" \notin Sites
  BY DEF Core, TypeOK, Sites
<1>2. pc[t] # "exit"
  BY DEF Started, tet_startup, icstart2, icstartAborted, Aborted, Uninitiated, tet_invoketp, ReadyForTp,
         TpReturns, tpend2, mtcm_tpend2, Got
<1>3. ~tet_tcm_async(t) /\ ~TimeOut(t) /\ ~(Exit(t) /\ UNCHANGED <<ic, tp, deleted, vetoed, ran>>)
  <2>1. ~Exit(t)
    <3>1. pc'[t] # "exit"
      <4>1. ASSUME NEW s, Goto(t, s), s # "exit"
            PROVE  pc'[t] # "exit"
        BY <1>1, <4>1 DEF Goto
      <4>2. CASE Started(t) \/ icstart2(t) \/ icstartAborted(t) \/ Aborted(t)
                 \/ Uninitiated(t) \/ tet_invoketp(t) \/ TpReturns(t)
        BY <4>1, <4>2 DEF Started, icstart2, icstartAborted, Aborted, Uninitiated, tet_invoketp, TpReturns
      <4>3. NextIc(t) => pc'[t] # "exit"
        BY <4>1 DEF NextIc
      <4>4. NextTp(t) => pc'[t] # "exit"
        BY <4>1, <4>3 DEF NextTp
      <4>5. CASE tet_startup(t) \/ tpend2(t)
        BY <4>3, <4>4, <4>5 DEF tet_startup, tpend2, AfterTp
      <4>6. CASE mtcm_tpend2(t) /\ (xr.abort \/ reply[t].rc = "OK")
        BY <4>1, <4>4, <4>6 DEF mtcm_tpend2, AfterTp
      <4>. QED  BY <4>2, <4>5, <4>6
    <3>. QED  BY <1>1, <3>1 DEF Exit, Goto
  <2>2. reply[t].rc \notin {"wait"}
    <3>1. CASE TpReturns(t)
      <4>1. ud[t].state # "DEAD" /\ Known("run", ic[t], tp[t], deleted[t], ud[t], reply[t])
        BY <3>1 DEF Core, Control, AllKnown, TpReturns
      <4>. QED  BY <4>1 DEF Known
    <3>2. CASE ~TpReturns(t)
      BY <3>2 DEF Started, tet_startup, icstart2, icstartAborted, Aborted, Uninitiated, tet_invoketp, ReadyForTp,
         tpend2, mtcm_tpend2, Got, Errors
    <3>. QED  BY <3>1, <3>2
  <2>3. TpReturns(t) => pc[t] = "run"
    BY DEF TpReturns
  <2>4. ~TpReturns(t) => reply[t].rc # "none"
    BY DEF Started, tet_startup, icstart2, icstartAborted, Aborted, Uninitiated, tet_invoketp, ReadyForTp,
         tpend2, mtcm_tpend2, Got, Errors
  <2>. QED  BY <2>1, <2>2, <2>3, <2>4 DEF tet_tcm_async, TimeOut, Sites
<1>. QED  BY <1>3, StepKinds DEF Step

LEMMA GoesStarted ==
  ASSUME Core, NEW t \in TCM, Started(t) \/ icstart2(t) \/ icstartAborted(t) \/ Aborted(t)
  PROVE  Goes(t)
<1>1. Moves(t)
  BY MovesOf
<1>2. UNCHANGED <<ic, failed, timeouts, dead, xr, lost>>
  BY DEF Started, icstart2, icstartAborted, Aborted, history
<1>3. pc \in [TCM -> Sites \cup {"run", "exit"}] /\ tp \in [TCM -> Nat]
  BY DEF Core, TypeOK
<1>4. /\ Good(reply, t) /\ pc[t] # "cleanup"
      /\ Started(t) => pc'[t] = "startup"
      /\ icstart2(t) => pc'[t] = "tpstart" /\ pc[t] = "icstart" /\ reply[t].rc = "OK"
      /\ icstartAborted(t) => pc'[t] = "cleanup" /\ pc[t] = "icstart" /\ reply[t].rc \in Errors
      /\ Aborted(t) => pc'[t] = "cleanup" /\ pc[t] = "abort"
  BY <1>3, ExpectedIsGood DEF Started, icstart2, icstartAborted, Aborted, Got, Good, Goto
<1>5. Told(reply, xr) => Told(reply, xr)'
  <2>1. CASE t # Master
    BY <1>1, <1>2, <2>1, ToldOthers
  <2>2. CASE t = Master
    <3>1. reply'[t].rc = "none"
      BY <1>1 DEF Moves
    <3>2. CASE icstart2(t)
      BY <1>2, <1>4, <2>2, <3>1, <3>2 DEF Told
    <3>3. CASE ~icstart2(t)
      BY <1>4, <2>2, <3>1, <3>3 DEF Told
    <3>. QED  BY <3>2, <3>3
  <2>. QED  BY <2>1, <2>2
<1>6. pc'[t] # "exit" /\ pc'[t] # "run"
  BY <1>4
<1>7. pc'[t] = "cleanup" => pc[t] = "abort" \/ (pc[t] = "icstart" /\ reply[t].rc \in Errors)
  BY <1>4
<1>. QED  BY <1>1, <1>2, <1>4, <1>5, <1>6, <1>7 DEF Goes

LEMMA GoesTpStart ==
  ASSUME Core, NEW t \in TCM, Uninitiated(t) \/ tet_invoketp(t)
  PROVE  Goes(t)
<1>1. Moves(t)
  BY MovesOf
<1>2. UNCHANGED <<ic, tp, failed, timeouts, dead, xr>>
  BY DEF Uninitiated, tet_invoketp
<1>3. pc \in [TCM -> Sites \cup {"run", "exit"}]
  BY DEF Core, TypeOK
<1>4. pc[t] = "tpstart" /\ Good(reply, t) /\ Inside(reply, t)
  BY ExpectedIsGood DEF Uninitiated, tet_invoketp, Inside
<1>5. pc'[t] \in {"tpend", "run"}
  BY <1>3 DEF Uninitiated, tet_invoketp, Goto
<1>6. lost' = lost \/ lost' = (lost \/ ~InProgress(t))
  BY DEF Uninitiated, tet_invoketp, tet_result
<1>7. Told(reply, xr) => Told(reply, xr)'
  <2>1. CASE t # Master
    BY <1>1, <1>2, <2>1, ToldOthers
  <2>2. CASE t = Master
    <3>1. reply[t].rc # "none"
      BY <1>4 DEF Good, Errors
    <3>. QED  BY <1>2, <1>4, <1>5, <2>2, <3>1 DEF Told
  <2>. QED  BY <2>1, <2>2
<1>8. pc[t] # "cleanup" /\ pc'[t] # "exit" /\ pc'[t] # "cleanup"
  BY <1>4, <1>5
<1>. QED  BY <1>1, <1>2, <1>4, <1>6, <1>7, <1>8 DEF Goes

LEMMA GoesReturns ==
  ASSUME Core, NEW t \in TCM, TpReturns(t)
  PROVE  Goes(t)
<1>1. Moves(t)
  BY MovesOf
<1>2. pc[t] = "run" /\ UNCHANGED <<ic, tp, failed, timeouts, dead>>
  BY DEF TpReturns
<1>3. pc'[t] = "tpend"
  <2>1. pc \in [TCM -> Sites \cup {"run", "exit"}]
    BY DEF Core, TypeOK
  <2>. QED  BY <2>1 DEF TpReturns, Goto
<1>4. xr'.ic = xr.ic /\ xr'.tp = xr.tp /\ (xr.abort => xr'.abort)
  <2>1. xr \in [ic : 0..NIC, tp : Nat, abort : BOOLEAN]
    BY DEF Core, TypeOK
  <2>2. PICK abort : xr' = [xr EXCEPT !.abort = @ \/ (abort /\ InProgress(t))]
    BY Zenon DEF TpReturns
  <2>3. xr'.abort = (xr.abort \/ (abort /\ InProgress(t)))
    BY <2>1, <2>2, Zenon
  <2>4. \A b : [xr EXCEPT !.abort = b].ic = xr.ic /\ [xr EXCEPT !.abort = b].tp = xr.tp
    BY <2>1
  <2>5. xr'.ic = xr.ic /\ xr'.tp = xr.tp
    BY <2>2, <2>4, Zenon
  <2>. QED  BY <2>3, <2>5, Zenon
<1>5. lost' = (lost \/ ~InProgress(t)) /\ Inside(reply, t)
  BY <1>2 DEF TpReturns, tet_result, Inside
<1>6. Told(reply, xr) => Told(reply, xr)'
  <2>1. CASE t # Master
    BY <1>1, <1>4, <2>1, ToldOthers
  <2>2. CASE t = Master
    BY <1>2, <1>3, <1>4, <2>2 DEF Told
  <2>. QED  BY <2>1, <2>2
<1>7. pc[t] # "cleanup" /\ pc'[t] # "exit" /\ pc'[t] # "cleanup" /\ pc'[t] # "run"
  BY <1>2, <1>3
<1>. QED  BY <1>1, <1>2, <1>4, <1>5, <1>6, <1>7 DEF Goes

\* the cleanup comes after the last sync point of all ICs and TPs
LEMMA LastIs ==
  ASSUME Core, NEW t \in TCM, NextIc(t),
         pc[t] = "startup" \/ (pc[t] = "tpend" /\ ~(tp[t] < tpcount[ic[t]]))
  PROVE  /\ pc'[t] \in {"icstart", "cleanup"}
         /\ pc'[t] = "cleanup" => Number(pc[t], ic[t], tp[t]) = LastTp
<1>1. /\ ic[t] \in Nat /\ ic[t] <= NIC /\ tp[t] \in Nat /\ NIC \in Nat
      /\ Placed(pc[t], ic[t], tp[t]) /\ ic[t] \in 0..NIC
  BY Here
<1>2. PICK p \in {"icstart", "cleanup"} :
        pc' = [pc EXCEPT ![t] = p] /\ (p = "cleanup") = (ic[t] = NIC)
  BY NextIcIs
<1>3. pc'[t] = p
  BY <1>2, CoreTypes
<1>4. ASSUME ic[t] = NIC
      PROVE  Number(pc[t], ic[t], tp[t]) = LastTp
  <2>1. CASE pc[t] = "startup"
    <3>1. NIC = 0
      BY <1>1, <1>4, <2>1 DEF Placed
    <3>. QED  BY <2>1, <3>1 DEF LastTp, Number
  <2>2. CASE pc[t] = "tpend"
    <3>1. ic[t] \in 1..NIC /\ tp[t] \in 1..tpcount[ic[t]] /\ ~(tp[t] < tpcount[ic[t]])
      BY <1>1, <2>2 DEF Placed
    <3>2. tpcount[ic[t]] \in Nat
      BY <3>1, Bounds
    <3>3. NIC # 0 /\ tp[t] = tpcount[NIC]
      BY <1>1, <1>4, <3>1, <3>2
    <3>. QED  BY <1>4, <2>2, <3>3 DEF LastTp
  <2>. QED  BY <2>1, <2>2
<1>. QED  BY <1>2, <1>3, <1>4

LEMMA GoesStartup ==
  ASSUME Core, NEW t \in TCM, tet_startup(t)
  PROVE  Goes(t)
<1>1. Moves(t)
  BY MovesOf
<1>2. UNCHANGED <<failed, timeouts, dead, xr, lost>>
  BY DEF tet_startup, history
<1>3. pc[t] = "startup" /\ Good(reply, t) /\ NextIc(t) /\ pc[t] \in Sites
  BY DEF tet_startup, Got, Good, Sites
<1>4. /\ pc'[t] \in {"icstart", "cleanup"}
      /\ pc'[t] = "cleanup" => Number(pc[t], ic[t], tp[t]) = LastTp
  BY <1>3, LastIs
<1>5. Told(reply, xr) => Told(reply, xr)'
  <2>1. CASE t # Master
    BY <1>1, <1>2, <2>1, ToldOthers
  <2>2. CASE t = Master
    <3>1. reply'[t].rc = "none"
      BY <1>1 DEF Moves
    <3>. QED  BY <1>4, <2>2, <3>1 DEF Told
  <2>. QED  BY <2>1, <2>2
<1>6. pc[t] # "cleanup" /\ pc'[t] # "exit" /\ pc'[t] # "run"
  BY <1>3, <1>4
<1>. QED  BY <1>1, <1>2, <1>3, <1>4, <1>5, <1>6 DEF Goes

\* what the step after a TP does to XRESD
LEMMA EndedIs ==
  ASSUME Core
  PROVE  /\ TpEnded.ic = xr.ic /\ TpEnded.abort = xr.abort /\ IcEnded(TpEnded).abort = xr.abort
<1>1. xr \in [ic : 0..NIC, tp : Nat, abort : BOOLEAN]
  BY DEF Core, TypeOK
<1>. QED  BY <1>1 DEF TpEnded, IcEnded

LEMMA GoesTpEnd ==
  ASSUME Core, NEW t \in TCM,
         \/ tpend2(t)
         \/ mtcm_tpend2(t) /\ (xr.abort \/ reply[t].rc = "OK")
  PROVE  Goes(t)
<1>1. Moves(t)
  BY MovesOf
<1>2. /\ UNCHANGED <<timeouts, dead, lost>> /\ pc[t] = "tpend" /\ pc[t] \in Sites
  BY DEF tpend2, mtcm_tpend2, history, Got, Sites
<1>3. UNCHANGED failed
  BY DEF tpend2, mtcm_tpend2, AfterTp
<1>4. xr.abort => xr'.abort
  BY EndedIs DEF tpend2, mtcm_tpend2
<1>5. \/ xr'.ic = xr.ic /\ xr'.tp = xr.tp
      \/ t = Master /\ pc[t] = "tpend" /\ (xr.abort \/ reply[t].rc = "OK")
  BY <1>2 DEF tpend2, mtcm_tpend2
<1>6. CASE mtcm_tpend2(t) /\ xr.abort
  <2>1. pc'[t] = "abort" /\ t = Master
    BY <1>6, CoreTypes DEF mtcm_tpend2, Goto
  <2>2. Told(reply, xr)'
    BY <2>1 DEF Told
  <2>. QED  BY <1>1, <1>2, <1>3, <1>4, <1>5, <1>6, <2>1, <2>2 DEF Goes
<1>7. CASE tpend2(t) \/ (mtcm_tpend2(t) /\ ~xr.abort /\ reply[t].rc = "OK")
  <2>1. NextTp(t) /\ Good(reply, t)
    BY <1>7 DEF tpend2, mtcm_tpend2, AfterTp, Got, Good
  <2>2. tp[t] < tpcount[ic[t]] => pc'[t] = "tpstart" /\ UNCHANGED ic
    BY <2>1, CoreTypes DEF NextTp, Goto
  <2>3. ~(tp[t] < tpcount[ic[t]]) =>
            /\ pc'[t] \in {"icstart", "cleanup"}
            /\ pc'[t] = "cleanup" => Number(pc[t], ic[t], tp[t]) = LastTp
    BY <1>2, <2>1, LastIs DEF NextTp
  <2>4. Told(reply, xr) => Told(reply, xr)'
    <3>1. CASE t # Master
      <4>1. xr'.ic = xr.ic /\ xr'.tp = xr.tp
        BY <1>5, <3>1
      <4>. QED  BY <1>1, <3>1, <4>1, ToldOthers
    <3>2. CASE t = Master
      <4>1. reply'[t].rc = "none"
        BY <1>1 DEF Moves
      <4>2. tp[t] < tpcount[ic[t]] => xr'.ic = xr.ic
        <5>1. ~tpend2(t)
          BY <3>2 DEF tpend2
        <5>2. xr' = IF tp[t] < tpcount[ic[t]] THEN TpEnded ELSE IcEnded(TpEnded)
          BY <1>7, <5>1 DEF mtcm_tpend2
        <5>. QED  BY <5>2, EndedIs
      <4>. QED  BY <1>2, <2>2, <2>3, <3>2, <4>1, <4>2 DEF Told
    <3>. QED  BY <3>1, <3>2
  <2>5. pc[t] # "cleanup" /\ pc'[t] # "exit" /\ pc'[t] # "run"
    BY <1>2, <2>2, <2>3
  <2>6. pc'[t] = "cleanup" => Number(pc[t], ic[t], tp[t]) = LastTp
    BY <2>2, <2>3
  <2>. QED  BY <1>1, <1>2, <1>3, <1>4, <1>5, <2>1, <2>4, <2>5, <2>6 DEF Goes
<1>. QED  BY <1>6, <1>7

LEMMA LastTpType == LastTp \in Nat /\ LastTp = Before("cleanup", 0, 0)
<1>1. LastTp = Before("cleanup", 0, 0)
  BY DEF Before
<1>2. Placed("cleanup", 0, 0) /\ "cleanup" \in Sites /\ 0 \in 0..NIC /\ 0 \in Nat
  BY Bounds DEF Placed, Sites
<1>. QED  BY <1>1, <1>2, NumberType

\* what stcheck() does while all is well, or one has died
LEMMA CalmEvent ==
  ASSUME Core, AllBefore, NEW d, NEW r, Ready(d, r), Live(d), NEW d2, NEW r2, NEW l2,
         Event(d, r, lastspno, d2, r2, l2), NoTimeouts(d, r), Doomed(d, r) \/ Sound(d, r)
  PROVE  /\ Doomed(d2, r2) \/ Sound(d2, r2)
         /\ ~Dead(d) => Sound(d2, r2) \/ Doomed(d, r)
         /\ \A t \in TCM : pc[t] = "tpstart" /\ Good(r2, t) =>
                Good(r, t) \/ \A u \in TCM : pc[u] = "tpstart" /\ This(u) = This(t) /\ r[u].rc = "wait"
<1>1. /\ d \in Users /\ r \in Replies /\ lastspno \in 0..SPMAX
      /\ Daemon(d, r, lastspno) /\ Votes(d) /\ AllKnown(d, r)
  BY CoreTypes DEF Ready
<1>2. CASE ~Happened(d)
  <2>1. d2 = d /\ r2 = r
    BY <1>2 DEF Event
  <2>. QED  BY <2>1
<1>3. CASE Happened(d) /\ ~Dead(d)
  BY <1>3, LiveEvent
<1>4. CASE Happened(d) /\ Dead(d)
  <2>1. Doomed(d2, r2)
    BY <1>1, <1>4, DeadEvent, DoomedEvent
  <2>2. ASSUME NEW t \in TCM, Good(r2, t)
        PROVE  Good(r, t)
    <3>1. d2[t].state = "DEAD"
      BY <2>1, <2>2 DEF Doomed
    <3>2. d[t].state = "DEAD"
      BY <1>1, <3>1, EventKeepsDaemon
    <3>3. r[t].rc = "none"
      BY <1>1, <3>2 DEF AllKnown, Known
    <3>4. r2[t] = r[t]
      BY <1>1, <1>4, <3>3, EventOne
    <3>. QED  BY <2>2, <3>4 DEF Good
  <2>. QED  BY <1>4, <2>1, <2>2
<1>. QED  BY <1>2, <1>3, <1>4

LEMMA NoTimeoutsKept ==
  ASSUME Core, NEW d, NEW r, Ready(d, r), stcheck(d, r), NoTimeouts(d, r)
  PROVE  NoTimeouts(ud', reply')
<1>1. Event(d, r, lastspno, ud', reply', lastspno')
  BY StcheckIs, Zenon
<1>2. d \in Users /\ r \in Replies /\ lastspno \in 0..SPMAX
  BY CoreTypes DEF Ready
<1>3. CASE ~Happened(d)
  <2>1. ud' = d /\ reply' = r
    BY <1>1, <1>3 DEF Event
  <2>. QED  BY <2>1
<1>4. CASE Happened(d)
  BY <1>1, <1>2, <1>4, NoTimeoutsEvent
<1>. QED  BY <1>3, <1>4

\* While nobody has died and all is well, who is not done with the cleanup
\* is not alone.
LEMMA NobodyExited ==
  ASSUME Core, Clean, Free, NEW t \in TCM, pc[t] # "exit",
         ~(pc[t] = "cleanup" /\ reply[t].rc = "OK")
  PROVE  ~Dead(ud) /\ \A u \in TCM : pc[u] # "exit"
<1>1. \A u \in TCM : pc[u] # "exit"
  BY DEF Clean
<1>. QED  BY <1>1 DEF Core, Control, Dead

LEMMA CleanVote ==
  ASSUME Core, Told(reply, xr), Clean, NEW t \in TCM, tet_tcm_async(t)
  PROVE  Clean'
<1>1. /\ pc[t] \in Sites /\ reply[t].rc = "none" /\ op_async(t, Spno(t), Vote(t))
      /\ UNCHANGED <<pc, ic, tp, failed, lost, dead, timeouts>>
  BY DEF tet_tcm_async, tcmvars
<1>2. /\ Told([reply EXCEPT ![t] = Waiting], xr') /\ xr'.abort = xr.abort
      /\ ~(t = Master /\ pc[t] \in {"icstart", "tpstart"}) => xr' = xr
  BY ToldVote
<1>3. Calm' = Calm /\ Free' = Free
  BY <1>1, <1>2 DEF Calm, Free
<1>4. CASE timeouts # 0
  BY <1>1, <1>3, <1>4 DEF Clean, Calm, Free
<1>5. CASE timeouts = 0
  <2>. DEFINE d == [ud EXCEPT ![t] = [state |-> Vote(t), spno |-> Spno(t), ntimedout |-> 0]]
              r == [reply EXCEPT ![t] = Waiting]
  <2>1. NoTimeouts(ud, reply)
    BY <1>5 DEF Clean
  <2>2. ~(ud[t].ntimedout > 0 /\ Spno(t) <= lastspno)
    BY <2>1 DEF NoTimeouts
  <2>3. stcheck(d, r)
    BY <1>1, <2>2, Zenon DEF op_async
  <2>4. Ready(d, r)
    BY <1>1, <2>2, VoteReady
  <2>5. /\ d[t].state = Vote(t) /\ d[t].ntimedout = 0 /\ \A u \in TCM \ {t} : d[u] = ud[u]
        /\ r[t].rc = "wait" /\ \A u \in TCM \ {t} : r[u] = reply[u]
    BY CoreTypes DEF Users, Replies, Waiting, NoReply
  <2>6. Vote(t) \in {"SYNCYES", "SYNCNO"}
    BY DEF Vote
  <2>7. Told(r, xr')
    BY <1>2
  <2>. HIDE DEF d, r
  <2>8. NoTimeouts(d, r)
    BY <2>1, <2>5, <2>6 DEF NoTimeouts
  <2>9. NoTimeouts(ud', reply')
    BY <2>3, <2>4, <2>8, NoTimeoutsKept
  <2>10. ud[t].state # "DEAD" /\ pc[t] # "exit"
    BY <1>1, SiteNumber DEF Core, Control
  <2>11. ASSUME Calm
         PROVE  /\ Doomed(ud', reply') \/ Sound(ud', reply')
                /\ \A u \in TCM : Inside(reply', u) => InProgress(u)'
                /\ Free => Sound(ud', reply')
    <3>1. Sound(ud, reply)
      <4>1. ~Doomed(ud, reply)
        BY <1>1, <2>10 DEF Doomed
      <4>. QED  BY <2>11, <4>1 DEF Clean
    <3>2. Sound(d, r)
      BY <2>5, <2>6, <3>1 DEF Sound, Voted, Good
    <3>3. Live(d)
      <4>1. \A u \in TCM : d[u].state # "DEAD" => ud[u].state # "DEAD"
        BY <2>5, <2>10
      <4>. QED  BY <4>1 DEF Live, Core, Control
    <3>4. AllBefore
      BY <2>11, CalmBefore
    <3>5. Event(d, r, lastspno, ud', reply', lastspno')
      BY <2>3, StcheckIs, Zenon
    <3>6. /\ Doomed(ud', reply') \/ Sound(ud', reply')
          /\ ~Dead(d) => Sound(ud', reply') \/ Doomed(d, r)
          /\ \A u \in TCM : pc[u] = "tpstart" /\ Good(reply', u) =>
                Good(r, u) \/ \A v \in TCM : pc[v] = "tpstart" /\ This(v) = This(u) /\ r[v].rc = "wait"
      BY <2>4, <2>8, <3>2, <3>3, <3>4, <3>5, CalmEvent
    <3>7. ASSUME NEW u \in TCM, Inside(reply', u)
          PROVE  InProgress(u)'
      <4>1. CASE Inside(reply, u)
        <5>1. InProgress(u)
          BY <2>11, <4>1 DEF Clean
        <5>2. xr' = xr
          BY <1>1, <1>2, <4>1, MasterStays
        <5>. QED  BY <1>1, <5>1, <5>2 DEF InProgress
      <4>2. CASE ~Inside(reply, u)
        <5>1. pc[u] = "tpstart" /\ Good(reply', u)
          BY <3>7, <4>2 DEF Inside
        <5>2. ~Good(r, u)
          <6>1. ~Good(reply, u)
            BY <4>2, <5>1 DEF Inside
          <6>2. CASE u = t
            BY <2>5, <6>2 DEF Good, Errors
          <6>3. CASE u # t
            BY <2>5, <6>1, <6>3 DEF Good
          <6>. QED  BY <6>2, <6>3
        <5>3. pc[Master] = "tpstart" /\ This(Master) = This(u) /\ r[Master].rc = "wait"
          BY <3>6, <5>1, <5>2, TcmAssumption
        <5>4. xr'.ic = ic[u] /\ xr'.tp = tp[u]
          BY <2>7, <5>3 DEF Told, This
        <5>. QED  BY <1>1, <5>4 DEF InProgress
      <4>. QED  BY <4>1, <4>2
    <3>8. ASSUME Free
          PROVE  Sound(ud', reply')
      <4>1. ~Dead(ud)
        BY <1>1, <2>10, <3>8, NobodyExited
      <4>2. ~Dead(d)
        BY <2>5, <2>6, <4>1 DEF Dead
      <4>3. ~Doomed(d, r)
        BY <2>5, <2>6 DEF Doomed
      <4>. QED  BY <3>6, <4>2, <4>3
    <3>. QED  BY <3>6, <3>7, <3>8
  <2>12. ASSUME Calm, NEW u \in TCM, pc'[u] = "cleanup"
         PROVE  Floor(ud', lastspno', LastTp)
    <3>1. Floor(ud, lastspno, LastTp)
      BY <1>1, <2>12 DEF Clean
    <3>2. LastTp \in Nat
      BY LastTpType
    <3>3. Done(d, r)
      BY <2>3, <2>4, ReadyDone
    <3>. QED  BY <3>1, <3>2, <3>3 DEF Done
  <2>13. ASSUME Free
         PROVE  \A u \in TCM : pc'[u] # "exit"
    BY <1>1, <2>10, <2>13, NobodyExited
  <2>14. Calm => Calm /\ (Doomed(ud', reply') \/ Sound(ud, reply)')
    BY <1>1, <2>11 DEF Sound
  <2>15. Free => Sound(ud, reply)'
    BY <1>1, <2>11 DEF Sound, Free
  <2>16. \A u \in TCM : Calm /\ Inside(reply, u)' => InProgress(u)'
    BY <1>1, <2>11 DEF Inside
  <2>17. /\ Calm => ~lost'
         /\ Free => failed' = {}
    BY <1>1 DEF Clean
  <2>. QED  BY <1>3, <2>9, <2>12, <2>13, <2>14, <2>15, <2>16, <2>17 DEF Clean
<1>. QED  BY <1>4, <1>5

LEMMA CleanGoes ==
  ASSUME Core, Clean, NEW t \in TCM, Goes(t)
  PROVE  Clean'
<1>1. /\ reply[t].rc # "wait" /\ pc[t] # "exit" /\ pc[t] # "cleanup" /\ pc'[t] # "exit"
      /\ \A u \in TCM \ {t} : /\ pc'[u] = pc[u] /\ ic'[u] = ic[u] /\ tp'[u] = tp[u]
                              /\ reply'[u] = reply[u]
      /\ reply'[t].rc = "none"
      /\ UNCHANGED <<ud, lastspno, failed, timeouts, dead>>
      /\ xr.abort => xr'.abort
  BY DEF Goes, Moves
<1>2. Calm' => Calm
  BY <1>1 DEF Calm
<1>3. Free' => Free
  BY <1>1, <1>2 DEF Free
<1>4. timeouts' = 0 => NoTimeouts(ud', reply')
  BY <1>1 DEF Clean, NoTimeouts
<1>5. ud[t].state # "DEAD"
  BY <1>1 DEF Core, Control
<1>6. ASSUME Calm
      PROVE  Sound(ud, reply) /\ NoTimeouts(ud, reply)
  <2>1. ~Doomed(ud, reply)
    <3>1. pc[t] = "run" \/ Good(reply, t)
      BY <1>6 DEF Goes, Calm
    <3>2. CASE pc[t] = "run"
      <4>1. Known("run", ic[t], tp[t], deleted[t], ud[t], reply[t])
        BY <3>2 DEF Core, Control, AllKnown
      <4>2. reply[t].rc = "none"
        BY <1>5, <4>1 DEF Known
      <4>. QED  BY <1>5, <4>2 DEF Doomed
    <3>3. CASE Good(reply, t)
      BY <1>5, <3>3 DEF Doomed
    <3>. QED  BY <3>1, <3>2, <3>3
  <2>. QED  BY <1>6, <2>1 DEF Clean, Calm
<1>7. ASSUME Calm
      PROVE  \A u \in TCM : /\ Voted(ud'[u]) <=> reply'[u].rc = "wait"
                            /\ reply'[u].rc = "SYNCERR" => Good(reply', u) /\ pc'[u] = "tpstart"
  <2>1. ASSUME NEW u \in TCM
        PROVE  /\ Voted(ud'[u]) <=> reply'[u].rc = "wait"
               /\ reply'[u].rc = "SYNCERR" => Good(reply', u) /\ pc'[u] = "tpstart"
    <3>1. /\ Voted(ud[u]) <=> reply[u].rc = "wait"
          /\ reply[u].rc = "SYNCERR" => Good(reply, u) /\ pc[u] = "tpstart"
      BY <1>6, <1>7 DEF Sound
    <3>2. CASE u = t
      BY <1>1, <3>1, <3>2
    <3>3. CASE u # t
      BY <1>1, <3>1, <3>3 DEF Good
    <3>. QED  BY <3>2, <3>3
  <2>. QED  BY <2>1
<1>8. Calm => Sound(ud, reply)'
  BY <1>7 DEF Sound
<1>9. ASSUME Calm, NEW u \in TCM, Inside(reply, u)'
      PROVE  InProgress(u)'
  <2>1. CASE u = t
    <3>1. pc'[t] = "run"
      BY <1>1, <1>9, <2>1 DEF Inside, Good, Errors
    <3>2. Inside(reply, t) /\ UNCHANGED <<ic, tp, xr>>
      BY <3>1 DEF Goes
    <3>. QED  BY <1>9, <2>1, <3>2 DEF Clean, InProgress
  <2>2. CASE u # t
    <3>1. Inside(reply, u)
      BY <1>1, <1>9, <2>2 DEF Inside, Good
    <3>2. InProgress(u)
      BY <1>9, <3>1 DEF Clean
    <3>3. xr'.ic = xr.ic /\ xr'.tp = xr.tp
      <4>1. ~(t = Master /\ pc[t] = "tpend" /\ reply[t].rc = "OK")
        BY <3>1, MasterStays DEF Good
      <4>. QED  BY <1>9, <4>1 DEF Goes, Calm
    <3>. QED  BY <1>1, <2>2, <3>2, <3>3 DEF InProgress
  <2>. QED  BY <2>1, <2>2
<1>10. Calm => ~lost'
  <2>1. ASSUME Calm
        PROVE  ~lost'
    <3>1. ~lost /\ (Inside(reply, t) => InProgress(t))
      BY <2>1 DEF Clean
    <3>2. lost' = lost \/ (Inside(reply, t) /\ lost' = (lost \/ ~InProgress(t)))
      BY DEF Goes
    <3>3. CASE lost' = lost
      BY <3>1, <3>3
    <3>4. CASE Inside(reply, t) /\ lost' = (lost \/ ~InProgress(t))
      BY <3>1, <3>4
    <3>. QED  BY <3>2, <3>3, <3>4
  <2>. QED  BY <2>1
<1>11. ASSUME Calm, NEW u \in TCM, pc'[u] = "cleanup"
       PROVE  Floor(ud', lastspno', LastTp)
  <2>1. Floor(ud, lastspno, LastTp)
    <3>1. CASE u # t
      BY <1>1, <1>11, <3>1 DEF Clean
    <3>2. CASE u = t
      <4>1. pc[t] # "abort"
        BY <1>11 DEF Core, Control, Calm
      <4>2. ~(pc[t] = "icstart" /\ reply[t].rc \in Errors)
        BY <1>6, <1>11 DEF Sound, NoTimeouts, Errors
      <4>3. pc[t] \in Sites /\ Good(reply, t) /\ Number(pc[t], ic[t], tp[t]) = LastTp
        BY <1>11, <3>2, <4>1, <4>2 DEF Goes
      <4>. QED  BY <4>3, Answered
    <3>. QED  BY <3>1, <3>2
  <2>. QED  BY <1>1, <2>1
<1>12. ASSUME Free
       PROVE  \A u \in TCM : pc'[u] # "exit"
  BY <1>1, <1>12, NobodyExited
<1>13. Free => failed' = {} /\ Sound(ud, reply)'
  BY <1>1, <1>8 DEF Clean, Free
<1>. QED  BY <1>2, <1>3, <1>4, <1>8, <1>9, <1>10, <1>11, <1>12, <1>13 DEF Clean

LEMMA CleanTimeOut ==
  ASSUME Core, NEW t \in TCM, TimeOut(t)
  PROVE  Clean'
<1>1. timeouts \in Nat /\ timeouts' = timeouts + 1
  <2>1. timeouts \in 0..MaxTimeouts /\ MaxTimeouts \in Nat
    BY TcmAssumption DEF Core, TypeOK
  <2>. QED  BY <2>1 DEF TimeOut
<1>. QED  BY <1>1 DEF Clean, Calm, Free

LEMMA DoomedNotInside ==
  ASSUME Core, Doomed(ud, reply), NEW t \in TCM
  PROVE  ~Inside(reply, t)
<1>1. CASE pc[t] = "run"
  <2>1. ud[t].state # "DEAD" /\ Known("run", ic[t], tp[t], deleted[t], ud[t], reply[t])
    BY <1>1 DEF Core, Control, AllKnown
  <2>2. reply[t].rc = "none"
    BY <2>1 DEF Known
  <2>. QED  BY <2>1, <2>2 DEF Doomed
<1>2. CASE pc[t] = "tpstart" /\ Good(reply, t)
  <2>1. ud[t].state = "NOTSYNCED"
    BY <1>2 DEF Core, Daemon
  <2>. QED  BY <1>2, <2>1 DEF Doomed
<1>. QED  BY <1>1, <1>2 DEF Inside

\* While all is well, a TCM that may clean up has the others with it.
LEMMA CleanupTogether ==
  ASSUME Core, Clean, Free, NEW t \in TCM, pc[t] = "cleanup", reply[t].rc = "OK"
  PROVE  \A u \in TCM : pc[u] = "exit" \/ (pc[u] = "cleanup" /\ reply[u].rc = "OK")
<1>1. CASE \E v \in TCM : pc[v] = "exit"
  BY <1>1 DEF Clean
<1>2. CASE \A v \in TCM : pc[v] # "exit"
  <2>1. SUFFICES ASSUME NEW u \in TCM
                 PROVE  pc[u] = "cleanup" /\ reply[u].rc = "OK"
    OBVIOUS
  <2>2. ud[u].state # "DEAD" /\ pc[u] # "exit" /\ ~Dead(ud)
    BY <1>2 DEF Core, Control, Dead
  <2>3. /\ lastspno < SPMAX /\ lastspno \in Nat
    BY <2>2, CoreTypes DEF Core, Daemon
  <2>4. "cleanup" \in Sites /\ Good(reply, t)
    BY DEF Sites, Good
  <2>5. /\ ud[t].spno = Number("cleanup", ic[t], tp[t])
        /\ Floor(ud, lastspno, ud[t].spno)
    BY <2>4, Answered
  <2>6. Number("cleanup", ic[t], tp[t]) = Number("cleanup", 0, 0) /\ Number("cleanup", ic[u], tp[u]) = Number("cleanup", 0, 0)
    BY NumberIs
  <2>7. Number("cleanup", 0, 0) <= lastspno /\ Number("cleanup", 0, 0) <= ud[u].spno
        /\ ud[u].spno \in Nat /\ ud[t].spno \in Nat
    BY <2>5, <2>6, CoreTypes DEF Floor
  <2>8. Known(pc[u], ic[u], tp[u], deleted[u], ud[u], reply[u])
    BY DEF Core, Control, AllKnown
  <2>9. ic[u] \in 0..NIC /\ tp[u] \in Nat /\ Placed(pc[u], ic[u], tp[u]) /\ pc[u] \in Sites \cup {"run"}
    BY <2>2, CoreTypes DEF Core, Control
  <2>10. pc[u] # "run"
    <3>1. ASSUME pc[u] = "run"
          PROVE  FALSE
      <4>1. ud[u].spno = Number("tpstart", ic[u], tp[u])
        BY <2>2, <2>8, <3>1 DEF Known
      <4>2. Placed("tpstart", ic[u], tp[u]) /\ "tpstart" \in Sites
        BY <2>9, <3>1 DEF Placed, Sites
      <4>3. Number("tpstart", ic[u], tp[u]) < Number("cleanup", 0, 0) /\ Number("tpstart", ic[u], tp[u]) \in Nat
        BY <2>9, <4>2, NumberType
      <4>4. Number("cleanup", 0, 0) \in Nat
        BY <2>5, <2>6, <2>7
      <4>. QED  BY <2>7, <4>1, <4>3, <4>4
    <3>. QED  BY <3>1
  <2>11. pc[u] = "cleanup"
    <3>1. ASSUME pc[u] # "cleanup"
          PROVE  FALSE
      <4>1. Number(pc[u], ic[u], tp[u]) < Number("cleanup", 0, 0) /\ Number(pc[u], ic[u], tp[u]) \in Nat
        BY <2>9, <2>10, <3>1, NumberType
      <4>2. ud[u].spno <= Number(pc[u], ic[u], tp[u])
        BY <2>9, <2>10, SiteNumber
      <4>3. Number("cleanup", 0, 0) \in Nat
        BY <2>5, <2>6, <2>7
      <4>. QED  BY <2>7, <4>1, <4>2, <4>3
    <3>. QED  BY <3>1
  <2>12. reply[u].rc \notin {"none", "DONE"}
    <3>1. ASSUME reply[u].rc \in {"none", "DONE"}
          PROVE  FALSE
      <4>1. ud[u].spno < Number("cleanup", ic[u], tp[u])
        BY <2>2, <2>4, <2>8, <2>11, <3>1 DEF Known
      <4>2. Number("cleanup", 0, 0) \in Nat
        BY <2>5, <2>6, <2>7
      <4>. QED  BY <2>6, <2>7, <4>1, <4>2
    <3>. QED  BY <3>1
  <2>13. /\ Voted(ud[u]) <=> reply[u].rc = "wait"
         /\ reply[u].rc = "SYNCERR" => pc[u] = "tpstart"
         /\ reply[u].rc # "TIMEDOUT"
    BY DEF Clean, Sound, NoTimeouts, Free, Calm
  <2>14. reply[u].rc # "wait"
    <3>1. ASSUME reply[u].rc = "wait"
          PROVE  FALSE
      <4>1. ud[u].spno > lastspno
        BY <2>3, <2>13, <3>1 DEF Core, Daemon
      <4>2. ud[u].spno = Number("cleanup", 0, 0)
        BY <2>2, <2>4, <2>6, <2>8, <2>11, <3>1 DEF Known
      <4>. QED  BY <2>3, <2>7, <4>1, <4>2
    <3>. QED  BY <3>1
  <2>15. reply[u].rc \in {"none", "wait", "OK"} \cup Bad
    BY CoreTypes DEF Message
  <2>. QED  BY <2>11, <2>12, <2>13, <2>14, <2>15 DEF Bad, Errors
<1>. QED  BY <1>1, <1>2

\* While all is well, no TCM gives up.
LEMMA NoErrors ==
  ASSUME Core, Clean, Free, NEW t \in TCM
  PROVE  /\ ~SyncError(t)
         /\ ~(mtcm_tpend2(t) /\ ~xr.abort /\ reply[t].rc # "OK")
<1>1. /\ reply[t].rc \notin {"DONE", "TIMEDOUT"}
      /\ reply[t].rc = "SYNCERR" => Good(reply, t) /\ pc[t] = "tpstart"
  BY DEF Clean, Sound, NoTimeouts, Free, Calm
<1>2. reply[t].rc \in Bad => reply[t].rc = "SYNCERR" /\ Good(reply, t) /\ pc[t] = "tpstart"
  BY <1>1 DEF Bad, Errors
<1>3. reply[t].rc = "SYNCERR" => OthersVoted(t, Expected)
  BY <1>1 DEF Good, OthersVoted
<1>4. ~Unexpected(t)
  BY <1>2, <1>3 DEF Unexpected, Got, Bad, Errors
<1>. QED  BY <1>2, <1>4 DEF SyncError, mtcm_tpend2, Got, Bad

\* the ways to exit
LeavesFor(t) ==
    \/ SyncError(t) \/ tet_docleanup(t) \/ Die(t)
    \/ mtcm_tpend2(t) /\ ~xr.abort /\ reply[t].rc # "OK"

LEMMA CleanExit ==
  ASSUME Core, Clean, NEW t \in TCM, LeavesFor(t)
  PROVE  Clean'
<1>. DEFINE d == [ud EXCEPT ![t].state = "DEAD"]
            r == [reply EXCEPT ![t] = NoReply]
<1>1. Ready(d, r)
  BY DeadReady
<1>2. /\ Exit(t) /\ UNCHANGED <<ic, tp, deleted, lost, timeouts>> /\ xr'.abort = xr.abort
  BY EndedIs DEF LeavesFor, SyncError, ExitFailure, tet_docleanup, Die, mtcm_tpend2, history
<1>3. stcheck(d, r) /\ pc' = [pc EXCEPT ![t] = "exit"]
  BY <1>2, Zenon DEF Exit, Goto, stdead
<1>4. /\ d[t].state = "DEAD" /\ d[t].ntimedout = ud[t].ntimedout
      /\ \A u \in TCM \ {t} : d[u] = ud[u]
      /\ r[t].rc = "none" /\ \A u \in TCM \ {t} : r[u] = reply[u]
  BY CoreTypes DEF Users, Replies, NoReply
<1>. HIDE DEF d, r
<1>5. Done(d, r)
  BY <1>1, <1>3, ReadyDone
<1>6. pc'[t] = "exit" /\ \A u \in TCM \ {t} : pc'[u] = pc[u]
  BY <1>3, CoreTypes
<1>7. Event(d, r, lastspno, ud', reply', lastspno')
  BY <1>3, StcheckIs, Zenon
<1>8. Calm' = Calm
  BY <1>2 DEF Calm
<1>9. /\ Free' => Free /\ ~Die(t)
  <2>1. dead \in Nat
    BY TcmAssumption DEF Core, TypeOK
  <2>2. Die(t) => dead' # 0
    BY <2>1 DEF Die
  <2>3. ~Die(t) => dead' = dead
    BY DEF LeavesFor, SyncError, tet_docleanup, mtcm_tpend2
  <2>. QED  BY <1>8, <2>2, <2>3 DEF Free
<1>10. ASSUME timeouts = 0
       PROVE  NoTimeouts(d, r) /\ NoTimeouts(ud', reply')
  <2>1. NoTimeouts(ud, reply)
    BY <1>10 DEF Clean
  <2>2. NoTimeouts(d, r)
    BY <1>4, <2>1 DEF NoTimeouts
  <2>. QED  BY <1>1, <1>3, <2>2, NoTimeoutsKept
<1>11. ud'[t].state = "DEAD" /\ reply'[t].rc = "none"
  BY <1>4, <1>5 DEF Done, AllKnown, Known
<1>12. Sound(ud, reply) => Sound(d, r)
  BY <1>4 DEF Sound, Voted, Good
<1>13. ASSUME Calm
       PROVE  /\ Doomed(ud', reply') \/ Sound(ud, reply)'
              /\ \A u \in TCM : Inside(reply, u)' => InProgress(u)'
  <2>1. Doomed(ud, reply) => Doomed(d, r)
    BY <1>4 DEF Doomed, Good
  <2>2. Doomed(d, r) \/ Sound(d, r)
    BY <1>12, <1>13, <2>1 DEF Clean
  <2>3. Live(d)
    <3>1. \A u \in TCM : d[u].state # "DEAD" => ud[u].state # "DEAD"
      BY <1>4
    <3>. QED  BY <3>1 DEF Live, Core, Control
  <2>4. AllBefore
    BY <1>13, CalmBefore
  <2>5. /\ Doomed(ud', reply') \/ Sound(ud', reply')
        /\ \A u \in TCM : pc[u] = "tpstart" /\ Good(reply', u) =>
              Good(r, u) \/ \A v \in TCM : pc[v] = "tpstart" /\ This(v) = This(u) /\ r[v].rc = "wait"
    <3>1. NoTimeouts(d, r)
      BY <1>10, <1>13 DEF Calm
    <3>. QED  BY <1>1, <1>7, <2>2, <2>3, <2>4, <3>1, CalmEvent
  <2>6. Sound(ud', reply') => Sound(ud, reply)'
    <3>1. ASSUME Sound(ud', reply'), NEW u \in TCM
          PROVE  /\ Voted(ud'[u]) <=> reply'[u].rc = "wait"
                 /\ reply'[u].rc = "SYNCERR" => Good(reply', u) /\ pc'[u] = "tpstart"
      <4>1. CASE u = t
        BY <1>11, <4>1 DEF Voted
      <4>2. CASE u # t
        BY <1>6, <3>1, <4>2 DEF Sound
      <4>. QED  BY <4>1, <4>2
    <3>. QED  BY <3>1 DEF Sound
  <2>7. ASSUME NEW u \in TCM, Inside(reply, u)'
        PROVE  InProgress(u)'
    <3>1. u # t /\ pc'[u] = pc[u]
      BY <1>6, <2>7 DEF Inside
    <3>2. Inside(reply, u)
      <4>1. CASE pc[u] = "run"
        BY <4>1 DEF Inside
      <4>2. CASE pc[u] # "run"
        <5>1. pc[u] = "tpstart" /\ Good(reply', u)
          BY <2>7, <3>1, <4>2 DEF Inside
        <5>2. Good(r, u)
          BY <1>4, <2>5, <5>1
        <5>3. Good(reply, u)
          BY <1>4, <3>1, <5>2 DEF Good
        <5>. QED  BY <5>1, <5>3 DEF Inside
      <4>. QED  BY <4>1, <4>2
    <3>3. InProgress(u)
      BY <1>13, <3>2 DEF Clean
    <3>4. xr' = xr
      <4>1. ASSUME mtcm_tpend2(t), ~xr.abort, reply[t].rc # "OK"
            PROVE  FALSE
        <5>1. pc[t] = "tpend" /\ reply[t].rc \in Errors
          BY <4>1 DEF mtcm_tpend2, Got
        <5>2. reply[t].rc # "TIMEDOUT"
          BY <1>13 DEF Clean, NoTimeouts, Calm
        <5>3. ~Sound(ud, reply)
          BY <5>1, <5>2 DEF Sound, Errors
        <5>4. Doomed(ud, reply)
          BY <1>13, <5>3 DEF Clean
        <5>. QED  BY <3>2, <5>4, DoomedNotInside
      <4>. QED  BY <4>1 DEF LeavesFor, SyncError, tet_docleanup, Die
    <3>. QED  BY <1>2, <3>3, <3>4 DEF InProgress
  <2>. QED  BY <2>5, <2>6, <2>7
<1>14. ASSUME Calm, NEW u \in TCM, pc'[u] = "cleanup"
       PROVE  Floor(ud', lastspno', LastTp)
  <2>1. Floor(ud, lastspno, LastTp)
    BY <1>6, <1>14 DEF Clean
  <2>. QED  BY <1>5, <2>1, LastTpType DEF Done
<1>15. Calm => ~lost'
  BY <1>2 DEF Clean
<1>16. ASSUME Free'
       PROVE  /\ failed' = {} /\ Sound(ud, reply)'
              /\ \A u \in TCM : pc'[u] = "exit" \/ (pc'[u] = "cleanup" /\ reply'[u].rc = "OK")
  <2>1. Free /\ tet_docleanup(t)
    BY <1>9, <1>16, NoErrors DEF LeavesFor
  <2>2. failed' = {}
    BY <2>1 DEF tet_docleanup, Clean
  <2>3. pc[t] = "cleanup" /\ reply[t].rc = "OK"
    BY <2>1 DEF tet_docleanup, Got
  <2>4. \A u \in TCM : pc[u] = "exit" \/ (pc[u] = "cleanup" /\ reply[u].rc = "OK")
    BY <2>1, <2>3, CleanupTogether
  <2>5. Sound(ud, reply) /\ NoTimeouts(ud, reply)
    BY <2>1 DEF Clean, Free, Calm
  <2>6. \A u \in TCM : r[u].rc # "wait" /\ ~Voted(d[u]) /\ d[u].state # "TIMEDOUT"
    <3>1. ASSUME NEW u \in TCM
          PROVE  r[u].rc # "wait" /\ ~Voted(d[u]) /\ d[u].state # "TIMEDOUT"
      <4>1. CASE u = t
        BY <1>4, <4>1 DEF Voted
      <4>2. CASE u # t /\ pc[u] = "exit"
        <5>1. ud[u].state = "DEAD" /\ reply[u].rc = "none"
          BY <4>2 DEF Core, Control, AllKnown, Known
        <5>. QED  BY <1>4, <4>2, <5>1 DEF Voted
      <4>3. CASE u # t /\ reply[u].rc = "OK"
        BY <1>4, <2>5, <4>3 DEF Sound, NoTimeouts
      <4>. QED  BY <2>4, <4>1, <4>2, <4>3
    <3>. QED  BY <3>1
  <2>7. \A u \in TCM : ud'[u] = d[u] /\ reply'[u] = r[u]
    <3>1. CASE ~Happened(d)
      BY <1>7, <3>1 DEF Event
    <3>2. CASE Happened(d)
      <4>1. d \in Users /\ r \in Replies /\ lastspno \in 0..SPMAX
        BY <1>1, CoreTypes DEF Ready
      <4>2. ~SomeTimedOut(d)
        BY <2>6 DEF SomeTimedOut
      <4>. QED  BY <1>7, <2>6, <3>2, <4>1, <4>2, EventOne
    <3>. QED  BY <3>1, <3>2
  <2>8. ASSUME NEW u \in TCM
        PROVE  /\ Voted(ud'[u]) <=> reply'[u].rc = "wait"
               /\ reply'[u].rc # "SYNCERR"
               /\ pc'[u] = "exit" \/ (pc'[u] = "cleanup" /\ reply'[u].rc = "OK")
    <3>1. Voted(ud'[u]) <=> reply'[u].rc = "wait"
      BY <2>6, <2>7
    <3>2. CASE u = t
      BY <1>6, <1>11, <3>1, <3>2
    <3>3. CASE u # t /\ pc[u] = "exit"
      <4>1. reply[u].rc = "none"
        BY <3>3 DEF Core, Control, AllKnown, Known
      <4>. QED  BY <1>4, <1>6, <2>7, <3>1, <3>3, <4>1
    <3>4. CASE u # t /\ pc[u] = "cleanup" /\ reply[u].rc = "OK"
      BY <1>4, <1>6, <2>7, <3>1, <3>4
    <3>. QED  BY <2>4, <3>2, <3>3, <3>4
  <2>. QED  BY <2>2, <2>8 DEF Sound
<1>. QED  BY <1>2, <1>8, <1>10, <1>13, <1>14, <1>15, <1>16 DEF Clean

LEMMA CleanKept ==
  ASSUME Core, Told(reply, xr), Clean, [Next]_vars
  PROVE  Told(reply, xr)' /\ Clean'
<1>1. CASE UNCHANGED vars
  <2>1. UNCHANGED <<pc, ic, tp, failed, ud, reply, lastspno, xr, lost, dead, timeouts>>
    BY <1>1 DEF vars, tcmvars, sdvars, history
  <2>2. Told(reply, xr)'
    BY <2>1 DEF Told
  <2>3. Clean'
    BY <2>1 DEF Clean, Calm, Free, NoTimeouts, Doomed, Sound, Inside, InProgress, Floor, Good, Voted
  <2>. QED  BY <2>2, <2>3
<1>2. ASSUME NEW t \in TCM, Step(t) \/ Die(t) \/ TimeOut(t)
      PROVE  Told(reply, xr)' /\ Clean'
  <2>1. CASE tet_tcm_async(t)
    BY <2>1, ToldVote, CleanVote
  <2>2. CASE TimeOut(t)
    BY <2>2, ToldTimeOut, CleanTimeOut
  <2>3. CASE LeavesFor(t)
    <3>1. Exit(t) /\ UNCHANGED <<ic, tp>> /\ (t # Master => UNCHANGED xr)
      BY <2>3 DEF LeavesFor, SyncError, ExitFailure, tet_docleanup, Die, mtcm_tpend2
    <3>. QED  BY <2>3, <3>1, ToldExit, CleanExit
  <2>4. CASE Goes(t)
    BY <2>4, CleanGoes DEF Goes
  <2>5. tet_tcm_async(t) \/ TimeOut(t) \/ LeavesFor(t) \/ Goes(t)
    BY <1>2, GoesStarted, GoesStartup, GoesTpStart, GoesReturns, GoesTpEnd, Zenon DEF Step, LeavesFor
  <2>. QED  BY <2>1, <2>2, <2>3, <2>4, <2>5
<1>. QED  BY <1>1, <1>2, Zenon DEF Next, Finished

LEMMA CleanStarts ==
  ASSUME Init
  PROVE  Told(reply, xr) /\ Clean
<1>1. /\ \A t \in TCM : pc[t] = "exec" /\ reply[t].rc = "none"
      /\ \A t \in TCM : ud[t].state = "NOTSYNCED" /\ ud[t].ntimedout = 0
      /\ failed = {} /\ lost = FALSE
  BY DEF Init, NoReply
<1>2. Told(reply, xr)
  BY <1>1, TcmAssumption DEF Told
<1>3. NoTimeouts(ud, reply) /\ Sound(ud, reply) /\ \A t \in TCM : ~Inside(reply, t)
  BY <1>1 DEF NoTimeouts, Sound, Voted, Inside
<1>4. Clean
  BY <1>1, <1>3 DEF Clean
<1>. QED  BY <1>2, <1>4

(* While no sync times out and no abort is asked for: the MTCM tells XRESD *)
(* of a TP before any TCM can be in it, all TCMs vote for one sync point   *)
(* at a time, and a death is told to everybody at once.                    *)
THEOREM AllIsWell == Spec => [](Told(reply, xr) /\ Clean)
<1>1. Init => Told(reply, xr) /\ Clean
  BY CleanStarts
<1>2. Core /\ (Told(reply, xr) /\ Clean) /\ [Next]_vars => (Told(reply, xr) /\ Clean)'
  BY CleanKept, Zenon
<1>. QED  BY <1>1, <1>2, Lockstep, PTL DEF Spec

(* XRESD gets each result while the test purpose it belongs to is in       *)
(* progress, unless a sync has timed out or the test case is being aborted *)
(* (tet_result(), mtcm_tpstart2(), mtcm_tpend2()): in any test case.       *)
THEOREM ResultsArrive == Spec => []NoResultLost
<1>1. Clean => NoResultLost
  BY DEF Clean, Calm, NoResultLost
<1>. QED  BY <1>1, AllIsWell, PTL

(* No TCM gives up unless one has died, a sync has timed out, or the test  *)
(* case has been aborted.                                                  *)
THEOREM ErrorsHaveCause == Spec => []ErrorHasCause
<1>1. Core /\ Clean => ErrorHasCause
  <2>1. SUFFICES ASSUME Core, Clean, failed # {}, ~xr.abort, timeouts = 0
                 PROVE  dead > 0
    <3>1. Core => timeouts \in Nat
      BY TcmAssumption DEF Core, TypeOK
    <3>. QED  BY <3>1 DEF ErrorHasCause
  <2>2. dead \in Nat
    <3>1. dead \in 0..MaxDead
      BY <2>1 DEF Core, TypeOK
    <3>. QED  BY <3>1, TcmAssumption
  <2>3. dead # 0
    BY <2>1 DEF Clean, Free, Calm
  <2>. QED  BY <2>2, <2>3
<1>. QED  BY <1>1, AllIsWell, Lockstep, PTL
=============================================================================
