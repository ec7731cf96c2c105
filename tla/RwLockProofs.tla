---------------------------- MODULE RwLockProofs ----------------------------
(***************************************************************************)
(* Many inside or one alone, for any number of threads: the readers/writer *)
(* lock of lock_prim.s (RwLock) and the perimeter of a STREAMS module      *)
(* (Syncq).                                                                *)
(***************************************************************************)
EXTENDS RwLock, Syncq, FiniteSetTheorems, TLAPS

-----------------------------------------------------------------------------
(* Syncq: the perimeter of putnext() and entersq().                        *)

\* The threads that came in by put lock i, and those that came in under SQLOCK.
FastIn(i) == {p \in Putter : i \in counter[p]}
SlowIn == {p \in Putter : sq_pc[p] = "in" /\ counter[p] = {}}

\* Where a thread with SQLOCK is.
HasSqlock == {"clrfast", "enter_locks", "sum", "test", "setfast", "wake"}

\* The types of the perimeter's counts and flags and of the threads' places.
SyncqTypeOK ==
  /\ sqlock \in Excl \union {NoOwner} /\ nputlocks \in 0 .. sq_nciputctrl + 1
  /\ sq_i \in PutLock /\ sum \in Nat /\ sq_count \in Nat
  /\ ciputctrl_count \in [PutLock -> Nat]
  /\ sq_flags \subseteq {"EXCL", "WANTWAKEUP"} /\ sq_needexcl \in Int
  /\ sq_wait \subseteq Excl
  /\ sq_pc \in [Putter \union Excl -> HasSqlock \union {"out", "in", "tail", "wait", "excl"}]
  /\ \A p \in Putter : sq_pc[p] \in {"out", "in", "tail"}
  /\ \A x \in Excl : sq_pc[x] \in HasSqlock \union {"out", "wait", "excl"}
  /\ counter \in [Putter -> SUBSET PutLock]

\* Each count is that of the threads that will decrement it, with or without the flag.
SyncqCounts ==
  /\ \A i \in PutLock : \/ ciputctrl_count[i] = Cardinality(FastIn(i))
                        \/ ciputctrl_count[i] = SQ_FASTPUT + Cardinality(FastIn(i))
  /\ sq_count = Cardinality(SlowIn)
  /\ \A p \in Putter : /\ counter[p] # {} => sq_pc[p] = "in"
                       /\ \A i, j \in counter[p] : i = j

\* The sum is that of the counts seen so far, which are locked.
SyncqOwner(x) ==
  /\ sqlock = x <=> sq_pc[x] \in HasSqlock
  /\ sq_pc[x] \in {"clrfast", "enter_locks"} => sum = sq_count
  /\ sq_pc[x] \in {"enter_locks", "test", "wake"} => sq_i = 0
  /\ sq_pc[x] = "enter_locks" => nputlocks <= sq_nciputctrl
  /\ sq_pc[x] \in {"sum", "test"} =>
       /\ sq_ciputctrl => nputlocks = sq_nciputctrl + 1
       /\ sum = 0 <=> SlowIn = {} /\ \A i \in PutLock : i < sq_i \/ sq_pc[x] = "test" => FastIn(i) = {}
  /\ sq_pc[x] \in {"clrfast", "setfast", "wake"} => nputlocks = 0
  /\ sq_pc[x] = "excl" => "EXCL" \in sq_flags

\* A queue without put locks has none to hold and nobody in their counts.
NoneToHold ==
  /\ sq_ciputctrl \in BOOLEAN
  /\ ~sq_ciputctrl => /\ sq_i = 0 /\ nputlocks = 0
                      /\ \A p \in Putter : counter[p] = {}

\* The inductive invariant of the perimeter, together with NoneToHold.
SyncqInv ==
  /\ SyncqTypeOK /\ SyncqCounts
  /\ \A x \in Excl : SyncqOwner(x)
  /\ sqlock = NoOwner => nputlocks = 0 /\ sq_i = 0
  /\ "EXCL" \in sq_flags => \E x \in Excl : sq_pc[x] = "excl"
  /\ ExclusiveIsAlone /\ NoSkippedWakeup

\* Counting the threads in putnext(): the flag is above any count.
LEMMA PutterCount ==
  ASSUME NEW S \in SUBSET Putter
  PROVE  /\ IsFiniteSet(S) /\ Cardinality(S) \in Nat /\ Cardinality(S) < SQ_FASTPUT
         /\ Cardinality(S) = 0 <=> S = {}
         /\ \A p \in S : Cardinality(S \ {p}) = Cardinality(S) - 1
         /\ \A p \in Putter \ S : Cardinality(S \union {p}) = Cardinality(S) + 1
<1>1. IsFiniteSet(S) /\ Cardinality(S) \in Nat
  BY SyncqAssumption, FS_Subset, FS_CardinalityType, Zenon
<1>2. Cardinality(S) < SQ_FASTPUT
  <2>1. Cardinality(S) <= Cardinality(Putter) /\ Cardinality(Putter) \in Nat
    BY SyncqAssumption, FS_Subset, FS_CardinalityType, Zenon
  <2> QED BY <1>1, <2>1, SyncqAssumption
<1>3. Cardinality(S) = 0 <=> S = {}
  BY <1>1, FS_EmptySet, Zenon
<1>4. \A p \in S : Cardinality(S \ {p}) = Cardinality(S) - 1
  BY <1>1, FS_RemoveElement, Zenon
<1>5. \A p \in Putter \ S : Cardinality(S \union {p}) = Cardinality(S) + 1
  BY <1>1, FS_AddElement, Zenon
<1> QED BY <1>1, <1>2, <1>3, <1>4, <1>5, Zenon

\* The mask takes the flag away and leaves the count.
LEMMA FastMaskedIs ==
  ASSUME NEW k \in Nat, k < SQ_FASTPUT
  PROVE  FastMasked(k) = k /\ FastMasked(SQ_FASTPUT + k) = k
<1>1. SQ_FASTPUT \in Nat \ {0} /\ k \in 0 .. SQ_FASTPUT - 1
  BY SyncqAssumption
<1>2. ASSUME NEW d \in Nat \ {0}, NEW a \in Int, NEW q \in Int, NEW r \in 0 .. d - 1,
             a = d * q + r, a \in 0 .. 2 * d - 1
      PROVE  a = r \/ a = d + r
  <2>1. CASE q >= 2
    <3>1. d * q >= d * 2
      BY <2>1
    <3> QED BY <1>2, <3>1
  <2>2. CASE q <= -1
    <3>1. d * q <= -d
      BY <2>2
    <3> QED BY <1>2, <3>1
  <2>3. CASE q = 0 \/ q = 1
    BY <1>2, <2>3
  <2> QED BY <2>1, <2>2, <2>3
<1>3. ASSUME NEW a \in 0 .. 2 * SQ_FASTPUT - 1
      PROVE  a % SQ_FASTPUT \in 0 .. SQ_FASTPUT - 1 /\ (a = a % SQ_FASTPUT \/ a = SQ_FASTPUT + (a % SQ_FASTPUT))
  <2>1. /\ a = SQ_FASTPUT * (a \div SQ_FASTPUT) + (a % SQ_FASTPUT)
        /\ a % SQ_FASTPUT \in 0 .. SQ_FASTPUT - 1 /\ a \div SQ_FASTPUT \in Int /\ a \in Int
    BY <1>1
  <2> QED BY <1>1, <1>2, <2>1, Zenon
<1>4. k \in 0 .. 2 * SQ_FASTPUT - 1 /\ SQ_FASTPUT + k \in 0 .. 2 * SQ_FASTPUT - 1
  BY <1>1
<1>5. FastMasked(k) = k % SQ_FASTPUT /\ FastMasked(SQ_FASTPUT + k) = (SQ_FASTPUT + k) % SQ_FASTPUT
  BY Zenon DEF FastMasked
<1> DEFINE m == k % SQ_FASTPUT  n == (SQ_FASTPUT + k) % SQ_FASTPUT
<1>6. /\ m \in 0 .. SQ_FASTPUT - 1 /\ (k = m \/ k = SQ_FASTPUT + m)
      /\ n \in 0 .. SQ_FASTPUT - 1 /\ (SQ_FASTPUT + k = n \/ SQ_FASTPUT + k = SQ_FASTPUT + n)
  BY <1>3, <1>4, Zenon
<1> HIDE DEF m, n
<1>7. m = k /\ n = k
  BY <1>1, <1>6
<1> QED BY <1>5, <1>7, Zenon DEF m, n

\* With the flag masked off, each putnext count is that of its threads.
LEMMA MaskedCounts ==
  ASSUME SyncqCounts, NEW i \in PutLock
  PROVE  /\ FastMasked(ciputctrl_count[i]) = Cardinality(FastIn(i))
         /\ Cardinality(FastIn(i)) \in Nat /\ Cardinality(FastIn(i)) < SQ_FASTPUT
         /\ Cardinality(FastIn(i)) = 0 <=> FastIn(i) = {}
<1>1. FastIn(i) \in SUBSET Putter
  BY Zenon DEF FastIn
<1> QED BY <1>1, PutterCount, FastMaskedIs, ZenonT(30) DEF SyncqCounts

\* Nobody is inside and no count has a thread.
LEMMA SyncqInitial ==
  ASSUME SyncqInit
  PROVE  SyncqInv /\ NoneToHold
<1>0. 0 \in PutLock /\ sq_nciputctrl \in Nat /\ SQ_FASTPUT \in Nat
  BY SyncqAssumption DEF PutLock
<1>1. SyncqTypeOK
  BY <1>0 DEF SyncqInit, SyncqTypeOK, HasSqlock
<1>2. SlowIn = {} /\ \A i \in PutLock : FastIn(i) = {}
  BY Zenon DEF SyncqInit, SlowIn, FastIn
<1>3. SyncqCounts
  BY <1>0, <1>2, PutterCount DEF SyncqInit, SyncqCounts
<1>4. \A x \in Excl : SyncqOwner(x)
  BY SyncqAssumption, Zenon DEF SyncqInit, SyncqOwner, HasSqlock
<1>5. NoneToHold
  BY Zenon DEF SyncqInit, NoneToHold
<1> QED BY <1>1, <1>3, <1>4, <1>5, Zenon DEF SyncqInit, SyncqInv, ExclusiveIsAlone, NoSkippedWakeup

\* Each step of a thread that wants the perimeter for itself, from
\* entersq() to leavesq(), keeps the invariant.
LEMMA ExclusiveStep ==
  ASSUME SyncqInv, NoneToHold, UNCHANGED sq_ciputctrl, \E x \in Excl : ExclStep(x)
  PROVE  SyncqInv'
<1> USE SyncqAssumption
<1>0. /\ SyncqTypeOK /\ SyncqCounts /\ ExclusiveIsAlone /\ NoSkippedWakeup
      /\ \A x \in Excl : SyncqOwner(x) /\ x # NoOwner
      /\ sqlock = NoOwner => nputlocks = 0 /\ sq_i = 0
      /\ "EXCL" \in sq_flags => \E x \in Excl : sq_pc[x] = "excl"
      /\ 0 \in PutLock
  BY DEF SyncqInv, PutLock
<1>a. \A q \in Putter : /\ counter[q] # {} => sq_pc[q] = "in"
                        /\ \A k, l \in counter[q] : k = l
  BY <1>0, Zenon DEF SyncqCounts
<1>1. ASSUME NEW x \in Excl, EnterExcl(x)
      PROVE  SyncqInv'
  <2>1. /\ sq_pc[x] = "out" /\ sq_pc'[x] = (IF sq_needexcl = 0 THEN "clrfast" ELSE "enter_locks")
        /\ \A t \in (Putter \union Excl) \ {x} : sq_pc'[t] = sq_pc[t]
        /\ sq_pc' \in [Putter \union Excl -> HasSqlock \union {"out", "in", "tail", "wait", "excl"}]
    BY <1>0, <1>1, Zenon DEF EnterExcl, SqGoto, SyncqTypeOK, HasSqlock
  <2>2. SlowIn' = SlowIn /\ \A i \in PutLock : FastIn(i)' = FastIn(i)
    BY <1>0, <1>1, <2>1, Zenon DEF EnterExcl, SqGoto, SlowIn, FastIn, local
  <2>3. SyncqTypeOK'
    BY <1>0, <1>1, <2>1 DEF EnterExcl, SqGoto, SyncqTypeOK, HasSqlock, local
  <2>4. SyncqCounts'
    BY <1>0, <1>1, <2>1, <2>2 DEF EnterExcl, SqGoto, SyncqCounts, local
  <2>5. SyncqOwner(x)'
    BY <1>0, <1>1, <2>1, <2>2 DEF EnterExcl, SqGoto, SyncqOwner, HasSqlock, local, SyncqTypeOK
  <2>6. ASSUME NEW y \in Excl \ {x}
        PROVE  SyncqOwner(y)'
    BY <1>0, <1>1, <2>1, <2>2, Zenon DEF EnterExcl, SqGoto, SyncqOwner, HasSqlock, local, SyncqTypeOK, ExclusiveIsAlone
  <2>7. /\ sqlock' = NoOwner => nputlocks' = 0 /\ sq_i' = 0
        /\ "EXCL" \in sq_flags' => \E y \in Excl : sq_pc'[y] = "excl"
    BY <1>0, <1>1, <2>1, Zenon DEF EnterExcl, SqGoto, local, SyncqOwner, HasSqlock, ExclusiveIsAlone
  <2>8. ExclusiveIsAlone'
    BY <1>0, <1>1, <2>1, <2>2 DEF EnterExcl, SqGoto, ExclusiveIsAlone, local
  <2>9. NoSkippedWakeup'
    BY <1>0, <1>1, <2>1, Zenon DEF EnterExcl, SqGoto, NoSkippedWakeup, local
  <2> QED BY <2>3, <2>4, <2>5, <2>6, <2>7, <2>8, <2>9, Zenon DEF SyncqInv
<1>2. ASSUME NEW x \in Excl, WaitEmpty(x)
      PROVE  SyncqInv'
  <2>1. /\ sq_pc[x] = "test" /\ sq_pc'[x] = "wait"
        /\ \A t \in (Putter \union Excl) \ {x} : sq_pc'[t] = sq_pc[t]
        /\ sq_pc' \in [Putter \union Excl -> HasSqlock \union {"out", "in", "tail", "wait", "excl"}]
    BY <1>0, <1>2, Zenon DEF WaitEmpty, SqGoto, SQ_PUTLOCKS_EXIT, SyncqTypeOK, HasSqlock
  <2>2. SlowIn' = SlowIn /\ \A i \in PutLock : FastIn(i)' = FastIn(i)
    BY <1>0, <1>2, <2>1, Zenon DEF WaitEmpty, SqGoto, SQ_PUTLOCKS_EXIT, SlowIn, FastIn, local
  <2>a. \E t \in Putter \union Excl : t # x /\ sq_pc[t] \in {"in", "excl"}
    <3>1. CASE "EXCL" \in sq_flags
      BY <1>0, <2>1, <3>1, Zenon
    <3>2. CASE sum # 0
      <4>1. SlowIn # {} \/ \E i \in PutLock : FastIn(i) # {}
        BY <1>0, <2>1, <3>2, Zenon DEF SyncqOwner
      <4> QED BY <1>0, <2>1, <4>1, Zenon DEF SlowIn, FastIn, SyncqCounts
    <3> QED BY <1>2, <3>1, <3>2, Zenon DEF WaitEmpty
  <2>3. SyncqTypeOK'
    BY <1>0, <1>2, <2>1 DEF WaitEmpty, SqGoto, SQ_PUTLOCKS_EXIT, SyncqTypeOK, HasSqlock, local
  <2>4. SyncqCounts'
    BY <1>0, <1>2, <2>1, <2>2 DEF WaitEmpty, SqGoto, SQ_PUTLOCKS_EXIT, SyncqCounts, local
  <2>5. SyncqOwner(x)'
    BY <1>0, <1>2, <2>1, <2>2, <2>a, Zenon DEF WaitEmpty, SqGoto, SQ_PUTLOCKS_EXIT, SyncqOwner, HasSqlock, local, SyncqTypeOK
  <2>6. ASSUME NEW y \in Excl \ {x}
        PROVE  SyncqOwner(y)'
    BY <1>0, <1>2, <2>1, <2>2 DEF WaitEmpty, SqGoto, SQ_PUTLOCKS_EXIT, SyncqOwner, HasSqlock, local, SyncqTypeOK, ExclusiveIsAlone
  <2>7. /\ sqlock' = NoOwner => nputlocks' = 0 /\ sq_i' = 0
        /\ "EXCL" \in sq_flags' => \E y \in Excl : sq_pc'[y] = "excl"
    BY <1>0, <1>2, <2>1, Zenon DEF WaitEmpty, SqGoto, SQ_PUTLOCKS_EXIT, local, SyncqOwner, HasSqlock, ExclusiveIsAlone
  <2>8. ExclusiveIsAlone'
    BY <1>0, <1>2, <2>1, <2>2, <2>a DEF WaitEmpty, SqGoto, SQ_PUTLOCKS_EXIT, ExclusiveIsAlone, local
  <2>9. NoSkippedWakeup'
    BY <1>0, <1>2, <2>1, <2>a, Zenon DEF WaitEmpty, SqGoto, SQ_PUTLOCKS_EXIT, NoSkippedWakeup, local
  <2> QED BY <2>3, <2>4, <2>5, <2>6, <2>7, <2>8, <2>9, ZenonT(30) DEF SyncqInv
<1>3. ASSUME NEW x \in Excl, WaitReturns(x)
      PROVE  SyncqInv'
  <2>1. /\ sq_pc[x] = "wait" /\ sq_pc'[x] = "enter_locks"
        /\ \A t \in (Putter \union Excl) \ {x} : sq_pc'[t] = sq_pc[t]
        /\ sq_pc' \in [Putter \union Excl -> HasSqlock \union {"out", "in", "tail", "wait", "excl"}]
    BY <1>0, <1>3, Zenon DEF WaitReturns, SqGoto, SyncqTypeOK, HasSqlock
  <2>2. SlowIn' = SlowIn /\ \A i \in PutLock : FastIn(i)' = FastIn(i)
    BY <1>0, <1>3, <2>1, Zenon DEF WaitReturns, SqGoto, SlowIn, FastIn, local
  <2>3. SyncqTypeOK'
    BY <1>0, <1>3, <2>1, Zenon DEF WaitReturns, SqGoto, SyncqTypeOK, HasSqlock, local
  <2>4. SyncqCounts'
    BY <1>0, <1>3, <2>1, <2>2 DEF WaitReturns, SqGoto, SyncqCounts, local
  <2>5. SyncqOwner(x)'
    BY <1>0, <1>3, <2>1, <2>2 DEF WaitReturns, SqGoto, SyncqOwner, HasSqlock, local, SyncqTypeOK
  <2>6. ASSUME NEW y \in Excl \ {x}
        PROVE  SyncqOwner(y)'
    BY <1>0, <1>3, <2>1, <2>2, Zenon DEF WaitReturns, SqGoto, SyncqOwner, HasSqlock, local, SyncqTypeOK, ExclusiveIsAlone
  <2>7. /\ sqlock' = NoOwner => nputlocks' = 0 /\ sq_i' = 0
        /\ "EXCL" \in sq_flags' => \E y \in Excl : sq_pc'[y] = "excl"
    BY <1>0, <1>3, <2>1, Zenon DEF WaitReturns, SqGoto, local, SyncqOwner, HasSqlock, ExclusiveIsAlone
  <2>8. ExclusiveIsAlone'
    BY <1>0, <1>3, <2>1, <2>2 DEF WaitReturns, SqGoto, ExclusiveIsAlone, local
  <2>9. NoSkippedWakeup'
    BY <1>0, <1>3, <2>1, Zenon DEF WaitReturns, SqGoto, NoSkippedWakeup, local
  <2> QED BY <2>3, <2>4, <2>5, <2>6, <2>7, <2>8, <2>9, ZenonT(30) DEF SyncqInv
<1>4. ASSUME NEW x \in Excl, BecomeExcl(x)
      PROVE  SyncqInv'
  <2>1. /\ sq_pc[x] = "test" /\ sq_pc'[x] = "excl"
        /\ \A t \in (Putter \union Excl) \ {x} : sq_pc'[t] = sq_pc[t]
        /\ sq_pc' \in [Putter \union Excl -> HasSqlock \union {"out", "in", "tail", "wait", "excl"}]
    BY <1>0, <1>4, Zenon DEF BecomeExcl, SqGoto, SQ_PUTLOCKS_EXIT, SyncqTypeOK, HasSqlock
  <2>2. SlowIn' = SlowIn /\ \A i \in PutLock : FastIn(i)' = FastIn(i)
    BY <1>0, <1>4, <2>1, Zenon DEF BecomeExcl, SqGoto, SQ_PUTLOCKS_EXIT, SlowIn, FastIn, local
  <2>a. /\ \A p \in Putter : sq_pc[p] # "in"
        /\ \A y \in Excl : sq_pc[y] # "excl"
    <3>1. SlowIn = {} /\ \A i \in PutLock : FastIn(i) = {}
      BY <1>0, <1>4, <2>1, Zenon DEF BecomeExcl, SyncqOwner
    <3>2. \A p \in Putter : sq_pc[p] # "in"
      BY <1>0, <3>1 DEF SlowIn, FastIn, SyncqTypeOK
    <3> QED BY <1>0, <1>4, <3>2, Zenon DEF BecomeExcl, SyncqOwner
  <2>3. SyncqTypeOK'
    BY <1>0, <1>4, <2>1 DEF BecomeExcl, SqGoto, SQ_PUTLOCKS_EXIT, SyncqTypeOK, HasSqlock, local
  <2>4. SyncqCounts'
    BY <1>0, <1>4, <2>1, <2>2 DEF BecomeExcl, SqGoto, SQ_PUTLOCKS_EXIT, SyncqCounts, local
  <2>5. SyncqOwner(x)'
    BY <1>0, <1>4, <2>1, <2>2, <2>a, Zenon DEF BecomeExcl, SqGoto, SQ_PUTLOCKS_EXIT, SyncqOwner, HasSqlock, local, SyncqTypeOK
  <2>6. ASSUME NEW y \in Excl \ {x}
        PROVE  SyncqOwner(y)'
    BY <1>0, <1>4, <2>1, <2>2 DEF BecomeExcl, SqGoto, SQ_PUTLOCKS_EXIT, SyncqOwner, HasSqlock, local, SyncqTypeOK, ExclusiveIsAlone
  <2>7. /\ sqlock' = NoOwner => nputlocks' = 0 /\ sq_i' = 0
        /\ "EXCL" \in sq_flags' => \E y \in Excl : sq_pc'[y] = "excl"
    BY <1>0, <1>4, <2>1, Zenon DEF BecomeExcl, SqGoto, SQ_PUTLOCKS_EXIT, local, SyncqOwner, HasSqlock, ExclusiveIsAlone
  <2>8. ExclusiveIsAlone'
    BY <1>0, <1>4, <2>1, <2>2, <2>a, Zenon DEF BecomeExcl, SqGoto, SQ_PUTLOCKS_EXIT, ExclusiveIsAlone, local
  <2>9. NoSkippedWakeup'
    BY <1>0, <1>4, <2>1, <2>a, Zenon DEF BecomeExcl, SqGoto, SQ_PUTLOCKS_EXIT, NoSkippedWakeup, local
  <2> QED BY <2>3, <2>4, <2>5, <2>6, <2>7, <2>8, <2>9, ZenonT(30) DEF SyncqInv
<1>5. ASSUME NEW x \in Excl, LeaveExcl(x)
      PROVE  SyncqInv'
  <2>1. /\ sq_pc[x] = "excl" /\ sq_pc'[x] = (IF sq_needexcl = 1 THEN "setfast" ELSE "wake")
        /\ \A t \in (Putter \union Excl) \ {x} : sq_pc'[t] = sq_pc[t]
        /\ sq_pc' \in [Putter \union Excl -> HasSqlock \union {"out", "in", "tail", "wait", "excl"}]
    BY <1>0, <1>5, Zenon DEF LeaveExcl, SqGoto, SyncqTypeOK, HasSqlock
  <2>2. SlowIn' = SlowIn /\ \A i \in PutLock : FastIn(i)' = FastIn(i)
    BY <1>0, <1>5, <2>1, Zenon DEF LeaveExcl, SqGoto, SlowIn, FastIn, local
  <2>3. SyncqTypeOK'
    BY <1>0, <1>5, <2>1 DEF LeaveExcl, SqGoto, SyncqTypeOK, HasSqlock, local
  <2>4. SyncqCounts'
    BY <1>0, <1>5, <2>1, <2>2 DEF LeaveExcl, SqGoto, SyncqCounts, local
  <2>5. SyncqOwner(x)'
    BY <1>0, <1>5, <2>1, <2>2, Zenon DEF LeaveExcl, SqGoto, SyncqOwner, HasSqlock, local, SyncqTypeOK
  <2>6. ASSUME NEW y \in Excl \ {x}
        PROVE  SyncqOwner(y)'
    BY <1>0, <1>5, <2>1, <2>2, Zenon DEF LeaveExcl, SqGoto, SyncqOwner, HasSqlock, local, SyncqTypeOK, ExclusiveIsAlone
  <2>7. /\ sqlock' = NoOwner => nputlocks' = 0 /\ sq_i' = 0
        /\ "EXCL" \in sq_flags' => \E y \in Excl : sq_pc'[y] = "excl"
    BY <1>0, <1>5, <2>1, Zenon DEF LeaveExcl, SqGoto, local, SyncqOwner, HasSqlock, ExclusiveIsAlone
  <2>8. ExclusiveIsAlone'
    BY <1>0, <1>5, <2>1, <2>2, Zenon DEF LeaveExcl, SqGoto, ExclusiveIsAlone, local
  <2>9. NoSkippedWakeup'
    BY <1>0, <1>5, <2>1, Zenon DEF LeaveExcl, SqGoto, NoSkippedWakeup, local
  <2> QED BY <2>3, <2>4, <2>5, <2>6, <2>7, <2>8, <2>9, ZenonT(30) DEF SyncqInv
<1>6. ASSUME NEW x \in Excl, LeaveWakes(x)
      PROVE  SyncqInv'
  <2>1. /\ sq_pc[x] = "wake" /\ sq_pc'[x] = "out"
        /\ \A t \in (Putter \union Excl) \ {x} : sq_pc'[t] = sq_pc[t]
        /\ sq_pc' \in [Putter \union Excl -> HasSqlock \union {"out", "in", "tail", "wait", "excl"}]
    BY <1>0, <1>6, Zenon DEF LeaveWakes, SqGoto, Wakeup, SyncqTypeOK, HasSqlock
  <2>2. SlowIn' = SlowIn /\ \A i \in PutLock : FastIn(i)' = FastIn(i)
    BY <1>0, <1>6, <2>1, ZenonT(30) DEF LeaveWakes, SqGoto, Wakeup, SlowIn, FastIn, local
  <2>3. SyncqTypeOK'
    BY <1>0, <1>6, <2>1, ZenonT(30) DEF LeaveWakes, SqGoto, Wakeup, SyncqTypeOK, HasSqlock, local
  <2>4. SyncqCounts'
    BY <1>0, <1>6, <2>1, <2>2 DEF LeaveWakes, SqGoto, Wakeup, SyncqCounts, local
  <2>5. SyncqOwner(x)'
    BY <1>0, <1>6, <2>1, <2>2, Zenon DEF LeaveWakes, SqGoto, Wakeup, SyncqOwner, HasSqlock, local, SyncqTypeOK
  <2>6. ASSUME NEW y \in Excl \ {x}
        PROVE  SyncqOwner(y)'
    BY <1>0, <1>6, <2>1, <2>2 DEF LeaveWakes, SqGoto, Wakeup, SyncqOwner, HasSqlock, local, SyncqTypeOK, ExclusiveIsAlone
  <2>7. /\ sqlock' = NoOwner => nputlocks' = 0 /\ sq_i' = 0
        /\ "EXCL" \in sq_flags' => \E y \in Excl : sq_pc'[y] = "excl"
    BY <1>0, <1>6, <2>1, Zenon DEF LeaveWakes, SqGoto, Wakeup, local, SyncqOwner, HasSqlock, ExclusiveIsAlone
  <2>8. ExclusiveIsAlone'
    BY <1>0, <1>6, <2>1, <2>2 DEF LeaveWakes, SqGoto, Wakeup, ExclusiveIsAlone, local
  <2>9. NoSkippedWakeup'
    BY <1>0, <1>6, <2>1, Zenon DEF LeaveWakes, SqGoto, Wakeup, NoSkippedWakeup, local
  <2> QED BY <2>3, <2>4, <2>5, <2>6, <2>7, <2>8, <2>9, ZenonT(30) DEF SyncqInv
<1>7. ASSUME NEW x \in Excl, SQ_PUTLOCKS_ENTER(x)
      PROVE  SyncqInv'
  <2>1. /\ sq_pc[x] = "enter_locks" /\ sq_pc'[x] = (IF nputlocks = sq_nciputctrl THEN "sum" ELSE "enter_locks")
        /\ \A t \in (Putter \union Excl) \ {x} : sq_pc'[t] = sq_pc[t]
        /\ sq_pc' \in [Putter \union Excl -> HasSqlock \union {"out", "in", "tail", "wait", "excl"}]
    BY <1>0, <1>7, Zenon DEF SQ_PUTLOCKS_ENTER, PutlocksStep, SyncqTypeOK, HasSqlock
  <2>2. SlowIn' = SlowIn /\ \A i \in PutLock : FastIn(i)' = FastIn(i)
    BY <1>0, <1>7, <2>1, Zenon DEF SQ_PUTLOCKS_ENTER, PutlocksStep, SlowIn, FastIn, local
  <2>a. nputlocks = sq_nciputctrl => sum = sq_count /\ sq_i = 0 /\ (sum = 0 <=> SlowIn = {})
    <3>1. SlowIn \in SUBSET Putter /\ sum = sq_count /\ sq_i = 0
      BY <1>0, <2>1, Zenon DEF SlowIn, SyncqOwner
    <3> QED BY <1>0, <3>1, PutterCount, Zenon DEF SyncqCounts
  <2>b. (\A i \in PutLock : ~(i < 0)) /\ nputlocks + 1 \in 0 .. sq_nciputctrl + 1
    BY <1>0, <2>1 DEF PutLock, SyncqOwner, SyncqTypeOK
  <2>3. SyncqTypeOK'
    BY <1>0, <1>7, <2>1, <2>b, Zenon DEF SQ_PUTLOCKS_ENTER, PutlocksStep, SyncqTypeOK, HasSqlock, local
  <2>4. SyncqCounts'
    BY <1>0, <1>7, <2>1, <2>2 DEF SQ_PUTLOCKS_ENTER, PutlocksStep, SyncqCounts, local
  <2>5. SyncqOwner(x)'
    BY <1>0, <1>7, <2>1, <2>2, <2>a, <2>b DEF SQ_PUTLOCKS_ENTER, PutlocksStep, SyncqOwner, HasSqlock, local, SyncqTypeOK
  <2>6. ASSUME NEW y \in Excl \ {x}
        PROVE  SyncqOwner(y)'
    BY <1>0, <1>7, <2>1, <2>2 DEF SQ_PUTLOCKS_ENTER, PutlocksStep, SyncqOwner, HasSqlock, local, SyncqTypeOK, ExclusiveIsAlone
  <2>7. /\ sqlock' = NoOwner => nputlocks' = 0 /\ sq_i' = 0
        /\ "EXCL" \in sq_flags' => \E y \in Excl : sq_pc'[y] = "excl"
    BY <1>0, <1>7, <2>1, Zenon DEF SQ_PUTLOCKS_ENTER, PutlocksStep, local, SyncqOwner, HasSqlock, ExclusiveIsAlone
  <2>8. ExclusiveIsAlone'
    BY <1>0, <1>7, <2>1, <2>2, <2>a, <2>b, ZenonT(30) DEF SQ_PUTLOCKS_ENTER, PutlocksStep, ExclusiveIsAlone, local
  <2>9. NoSkippedWakeup'
    BY <1>0, <1>7, <2>1, <2>a, <2>b, ZenonT(30) DEF SQ_PUTLOCKS_ENTER, PutlocksStep, NoSkippedWakeup, local
  <2> QED BY <2>3, <2>4, <2>5, <2>6, <2>7, <2>8, <2>9, ZenonT(30) DEF SyncqInv
<1>8. ASSUME NEW x \in Excl, SUM_SQ_PUTCOUNTS(x)
      PROVE  SyncqInv'
  <2>1. /\ sq_pc[x] = "sum" /\ sq_pc'[x] = IF sq_i = sq_nciputctrl THEN "test" ELSE "sum"
        /\ sq_i' = IF sq_i = sq_nciputctrl THEN 0 ELSE sq_i + 1
        /\ \A t \in (Putter \union Excl) \ {x} : sq_pc'[t] = sq_pc[t]
        /\ sq_pc' \in [Putter \union Excl -> HasSqlock \union {"out", "in", "tail", "wait", "excl"}]
        /\ UNCHANGED <<sqlock, nputlocks, sq_count, sq_flags, sq_needexcl, sq_wait, counter>>
    BY <1>0, <1>8, Zenon DEF SUM_SQ_PUTCOUNTS, SumStep, SyncqTypeOK, HasSqlock
  <2>2. SlowIn' = SlowIn /\ \A i \in PutLock : FastIn(i)' = FastIn(i)
    BY <1>0, <2>1, Zenon DEF SlowIn, FastIn
  <2>a. sq_i' \in PutLock /\ sqlock = x
    BY <1>0, <2>1 DEF PutLock, SyncqTypeOK, SyncqOwner, HasSqlock
  <2>b. /\ ciputctrl_count' = ciputctrl_count
        /\ sum' = sum + Cardinality(FastIn(sq_i)) /\ sum' \in Nat
        /\ sum' = 0 <=> sum = 0 /\ FastIn(sq_i) = {}
    <3>1. sum' = sum + FastMasked(ciputctrl_count[sq_i]) /\ ciputctrl_count' = ciputctrl_count
      BY <1>8, Zenon DEF SUM_SQ_PUTCOUNTS, SumStep
    <3> QED BY <1>0, <3>1, MaskedCounts DEF SyncqTypeOK
  <2>3. SyncqTypeOK'
    BY <1>0, <2>1, <2>a, <2>b, Zenon DEF SyncqTypeOK, HasSqlock
  <2>4. SyncqCounts'
    <3>1. \A j \in PutLock : \/ ciputctrl_count'[j] = Cardinality(FastIn(j)')
                             \/ ciputctrl_count'[j] = SQ_FASTPUT + Cardinality(FastIn(j)')
      BY <1>0, <2>2, <2>b, Zenon DEF SyncqCounts
    <3>2. sq_count' = Cardinality(SlowIn')
      BY <1>0, <2>1, <2>2, Zenon DEF SyncqCounts
    <3>3. \A q \in Putter : /\ counter'[q] # {} => sq_pc'[q] = "in"
                            /\ \A k, l \in counter'[q] : k = l
      <4>1. \A q \in Putter : sq_pc'[q] = sq_pc[q] /\ counter'[q] = counter[q]
        BY <2>1, Zenon
      <4> QED BY <1>a, <4>1, Zenon
    <3> QED BY <3>1, <3>2, <3>3, Zenon DEF SyncqCounts
  <2>5. SyncqOwner(x)'
    <3>1. (sq_ciputctrl => nputlocks = sq_nciputctrl + 1)
          /\ (sum = 0 <=> SlowIn = {} /\ \A i \in PutLock : i < sq_i => FastIn(i) = {})
      BY <1>0, <2>1, Zenon DEF SyncqOwner
    <3>2. CASE sq_i = sq_nciputctrl
      <4>1. \A i \in PutLock : i < sq_i \/ i = sq_i
        BY <3>2 DEF PutLock
      <4>2. sum' = 0 <=> SlowIn = {} /\ \A i \in PutLock : FastIn(i) = {}
        BY <1>0, <2>b, <3>1, <4>1, Zenon DEF SyncqTypeOK
      <4> QED BY <1>0, <2>1, <2>2, <2>a, <3>1, <3>2, <4>2, Zenon DEF SyncqOwner, HasSqlock
    <3>3. CASE sq_i # sq_nciputctrl
      <4>1. \A i \in PutLock : i < sq_i' <=> i < sq_i \/ i = sq_i
        BY <1>0, <2>1, <3>3 DEF PutLock, SyncqTypeOK
      <4>2. sum' = 0 <=> SlowIn = {} /\ \A i \in PutLock : i < sq_i' => FastIn(i) = {}
        BY <1>0, <2>b, <3>1, <4>1, Zenon DEF SyncqTypeOK
      <4> QED BY <1>0, <2>1, <2>2, <2>a, <3>1, <3>3, <4>2, Zenon DEF SyncqOwner, HasSqlock
    <3> QED BY <3>2, <3>3, Zenon
  <2>6. ASSUME NEW y \in Excl \ {x}
        PROVE  SyncqOwner(y)'
    BY <1>0, <2>1, <2>a, Zenon DEF SyncqOwner, HasSqlock, SyncqTypeOK
  <2>7. /\ sqlock' = NoOwner => nputlocks' = 0 /\ sq_i' = 0
        /\ "EXCL" \in sq_flags' => \E y \in Excl : sq_pc'[y] = "excl"
    BY <1>0, <2>1, <2>a, Zenon
  <2>8. ExclusiveIsAlone'
    BY <1>0, <2>1, Zenon DEF ExclusiveIsAlone
  <2>9. NoSkippedWakeup'
    BY <1>0, <2>1, Zenon DEF NoSkippedWakeup
  <2> QED BY <2>3, <2>4, <2>5, <2>6, <2>7, <2>8, <2>9, ZenonT(30) DEF SyncqInv
<1>9. ASSUME NEW x \in Excl, SQ_PUTCOUNT_CLRFAST(x)
      PROVE  SyncqInv'
  <2>1. /\ sq_pc[x] = "clrfast" /\ sq_pc'[x] = IF sq_i = sq_nciputctrl THEN "enter_locks" ELSE "clrfast"
        /\ sq_i' = IF sq_i = sq_nciputctrl THEN 0 ELSE sq_i + 1
        /\ \A t \in (Putter \union Excl) \ {x} : sq_pc'[t] = sq_pc[t]
        /\ sq_pc' \in [Putter \union Excl -> HasSqlock \union {"out", "in", "tail", "wait", "excl"}]
        /\ UNCHANGED <<sqlock, nputlocks, sq_count, sq_flags, sq_needexcl, sq_wait, counter>>
    BY <1>0, <1>9, Zenon DEF SQ_PUTCOUNT_CLRFAST, PutcountStep, SyncqTypeOK, HasSqlock
  <2>2. SlowIn' = SlowIn /\ \A i \in PutLock : FastIn(i)' = FastIn(i)
    BY <1>0, <2>1, Zenon DEF SlowIn, FastIn
  <2>a. sq_i' \in PutLock /\ sqlock = x
    BY <1>0, <2>1 DEF PutLock, SyncqTypeOK, SyncqOwner, HasSqlock
  <2>b. /\ sum' = sum
        /\ ciputctrl_count' \in [PutLock -> Nat]
        /\ ciputctrl_count'[sq_i] = Cardinality(FastIn(sq_i))
        /\ \A i \in PutLock \ {sq_i} : ciputctrl_count'[i] = ciputctrl_count[i]
    <3>1. /\ ciputctrl_count' = [ciputctrl_count EXCEPT ![sq_i] = FastMasked(ciputctrl_count[sq_i])]
          /\ sum' = sum /\ sq_i \in PutLock
      BY <1>0, <1>9, Zenon DEF SQ_PUTCOUNT_CLRFAST, PutcountStep, SyncqTypeOK
    <3>2. FastMasked(ciputctrl_count[sq_i]) = Cardinality(FastIn(sq_i)) /\ Cardinality(FastIn(sq_i)) \in Nat
      BY <1>0, <3>1, MaskedCounts, Zenon
    <3> QED BY <1>0, <3>1, <3>2, Zenon DEF SyncqTypeOK
  <2>3. SyncqTypeOK'
    BY <1>0, <2>1, <2>a, <2>b, Zenon DEF SyncqTypeOK, HasSqlock
  <2>4. SyncqCounts'
    <3>1. \A j \in PutLock : \/ ciputctrl_count'[j] = Cardinality(FastIn(j)')
                             \/ ciputctrl_count'[j] = SQ_FASTPUT + Cardinality(FastIn(j)')
      <4> TAKE j \in PutLock
      <4>1. CASE j = sq_i
        BY <2>2, <2>b, <4>1, Zenon
      <4>2. CASE j # sq_i
        <5>1. FastIn(j)' = FastIn(j) /\ ciputctrl_count'[j] = ciputctrl_count[j]
          BY <2>2, <2>b, <4>2, Zenon
        <5> QED BY <1>0, <5>1, Zenon DEF SyncqCounts
      <4> QED BY <4>1, <4>2, Zenon
    <3>2. sq_count' = Cardinality(SlowIn')
      BY <1>0, <2>1, <2>2, Zenon DEF SyncqCounts
    <3>3. \A q \in Putter : /\ counter'[q] # {} => sq_pc'[q] = "in"
                            /\ \A k, l \in counter'[q] : k = l
      <4>1. \A q \in Putter : sq_pc'[q] = sq_pc[q] /\ counter'[q] = counter[q]
        BY <2>1, Zenon
      <4> QED BY <1>a, <4>1, Zenon
    <3> QED BY <3>1, <3>2, <3>3, Zenon DEF SyncqCounts
  <2>5. SyncqOwner(x)'
    BY <1>0, <2>1, <2>a, <2>b DEF SyncqOwner, HasSqlock
  <2>6. ASSUME NEW y \in Excl \ {x}
        PROVE  SyncqOwner(y)'
    BY <1>0, <2>1, <2>a, Zenon DEF SyncqOwner, HasSqlock, SyncqTypeOK
  <2>7. /\ sqlock' = NoOwner => nputlocks' = 0 /\ sq_i' = 0
        /\ "EXCL" \in sq_flags' => \E y \in Excl : sq_pc'[y] = "excl"
    BY <1>0, <2>1, <2>a, Zenon
  <2>8. ExclusiveIsAlone'
    BY <1>0, <2>1, Zenon DEF ExclusiveIsAlone
  <2>9. NoSkippedWakeup'
    BY <1>0, <2>1, Zenon DEF NoSkippedWakeup
  <2> QED BY <2>3, <2>4, <2>5, <2>6, <2>7, <2>8, <2>9, ZenonT(30) DEF SyncqInv
<1>10. ASSUME NEW x \in Excl, SQ_PUTCOUNT_SETFAST(x)
      PROVE  SyncqInv'
  <2>1. /\ sq_pc[x] = "setfast" /\ sq_pc'[x] = IF sq_i = sq_nciputctrl THEN "wake" ELSE "setfast"
        /\ sq_i' = IF sq_i = sq_nciputctrl THEN 0 ELSE sq_i + 1
        /\ \A t \in (Putter \union Excl) \ {x} : sq_pc'[t] = sq_pc[t]
        /\ sq_pc' \in [Putter \union Excl -> HasSqlock \union {"out", "in", "tail", "wait", "excl"}]
        /\ UNCHANGED <<sqlock, nputlocks, sq_count, sq_flags, sq_needexcl, sq_wait, counter>>
    BY <1>0, <1>10, Zenon DEF SQ_PUTCOUNT_SETFAST, PutcountStep, SyncqTypeOK, HasSqlock
  <2>2. SlowIn' = SlowIn /\ \A i \in PutLock : FastIn(i)' = FastIn(i)
    BY <1>0, <2>1, Zenon DEF SlowIn, FastIn
  <2>a. sq_i' \in PutLock /\ sqlock = x
    BY <1>0, <2>1 DEF PutLock, SyncqTypeOK, SyncqOwner, HasSqlock
  <2>b. /\ sum' = sum
        /\ ciputctrl_count' \in [PutLock -> Nat]
        /\ ciputctrl_count'[sq_i] = SQ_FASTPUT + Cardinality(FastIn(sq_i))
        /\ \A i \in PutLock \ {sq_i} : ciputctrl_count'[i] = ciputctrl_count[i]
    <3>1. /\ ciputctrl_count' = [ciputctrl_count EXCEPT ![sq_i] = SQ_FASTPUT + FastMasked(ciputctrl_count[sq_i])]
          /\ sum' = sum /\ sq_i \in PutLock
      BY <1>0, <1>10, Zenon DEF SQ_PUTCOUNT_SETFAST, PutcountStep, SyncqTypeOK
    <3>2. FastMasked(ciputctrl_count[sq_i]) = Cardinality(FastIn(sq_i)) /\ Cardinality(FastIn(sq_i)) \in Nat
      BY <1>0, <3>1, MaskedCounts, Zenon
    <3> QED BY <1>0, <3>1, <3>2 DEF SyncqTypeOK
  <2>3. SyncqTypeOK'
    BY <1>0, <2>1, <2>a, <2>b, Zenon DEF SyncqTypeOK, HasSqlock
  <2>4. SyncqCounts'
    <3>1. \A j \in PutLock : \/ ciputctrl_count'[j] = Cardinality(FastIn(j)')
                             \/ ciputctrl_count'[j] = SQ_FASTPUT + Cardinality(FastIn(j)')
      <4> TAKE j \in PutLock
      <4>1. CASE j = sq_i
        BY <2>2, <2>b, <4>1, Zenon
      <4>2. CASE j # sq_i
        <5>1. FastIn(j)' = FastIn(j) /\ ciputctrl_count'[j] = ciputctrl_count[j]
          BY <2>2, <2>b, <4>2, Zenon
        <5> QED BY <1>0, <5>1, Zenon DEF SyncqCounts
      <4> QED BY <4>1, <4>2
    <3>2. sq_count' = Cardinality(SlowIn')
      BY <1>0, <2>1, <2>2, Zenon DEF SyncqCounts
    <3>3. \A q \in Putter : /\ counter'[q] # {} => sq_pc'[q] = "in"
                            /\ \A k, l \in counter'[q] : k = l
      <4>1. \A q \in Putter : sq_pc'[q] = sq_pc[q] /\ counter'[q] = counter[q]
        BY <2>1, Zenon
      <4> QED BY <1>a, <4>1, Zenon
    <3> QED BY <3>1, <3>2, <3>3, Zenon DEF SyncqCounts
  <2>5. SyncqOwner(x)'
    BY <1>0, <2>1, <2>a, <2>b, Zenon DEF SyncqOwner, HasSqlock
  <2>6. ASSUME NEW y \in Excl \ {x}
        PROVE  SyncqOwner(y)'
    BY <1>0, <2>1, <2>a, Zenon DEF SyncqOwner, HasSqlock, SyncqTypeOK
  <2>7. /\ sqlock' = NoOwner => nputlocks' = 0 /\ sq_i' = 0
        /\ "EXCL" \in sq_flags' => \E y \in Excl : sq_pc'[y] = "excl"
    BY <1>0, <2>1, <2>a, Zenon
  <2>8. ExclusiveIsAlone'
    BY <1>0, <2>1, Zenon DEF ExclusiveIsAlone
  <2>9. NoSkippedWakeup'
    BY <1>0, <2>1, Zenon DEF NoSkippedWakeup
  <2> QED BY <2>3, <2>4, <2>5, <2>6, <2>7, <2>8, <2>9, ZenonT(30) DEF SyncqInv
<1>11. ASSUME NEW x \in Excl, NoPutlocks(x)
       PROVE  SyncqInv'
  <2>1. /\ UNCHANGED <<sqlock, nputlocks, sq_count, ciputctrl_count, sq_flags, sq_needexcl, sq_wait>>
        /\ UNCHANGED <<sq_i, sum, counter>>
        /\ ~sq_ciputctrl
    BY <1>11, Zenon DEF NoPutlocks, local
  <2>2. /\ \/ sq_pc[x] = "clrfast" /\ sq_pc'[x] = "enter_locks"
           \/ sq_pc[x] = "enter_locks" /\ sq_pc'[x] = "sum"
           \/ sq_pc[x] = "sum" /\ sq_pc'[x] = "test"
           \/ sq_pc[x] = "setfast" /\ sq_pc'[x] = "wake"
        /\ \A t \in (Putter \union Excl) \ {x} : sq_pc'[t] = sq_pc[t]
        /\ sq_pc' \in [Putter \union Excl -> HasSqlock \union {"out", "in", "tail", "wait", "excl"}]
    BY <1>0, <1>11 DEF NoPutlocks, SqGoto, SyncqTypeOK, HasSqlock
  <2>3. SlowIn' = SlowIn /\ \A i \in PutLock : FastIn(i)' = FastIn(i) /\ FastIn(i) = {}
    <3>1. \A p \in Putter : sq_pc'[p] = sq_pc[p] /\ counter[p] = {}
      BY <1>0, <2>1, <2>2, Zenon DEF NoneToHold
    <3> QED BY <2>1, <3>1, Zenon DEF SlowIn, FastIn
  <2>4. SyncqTypeOK'
    BY <1>0, <2>1, <2>2 DEF SyncqTypeOK, HasSqlock
  <2>5. SyncqCounts'
    <3>1. \A q \in Putter : sq_pc'[q] = sq_pc[q]
      BY <2>2, Zenon
    <3> QED BY <1>0, <2>1, <2>3, <3>1, Zenon DEF SyncqCounts
  <2>6. SyncqOwner(x)'
    <3>1. sum = sq_count => (sum = 0 <=> SlowIn = {})
      <4>1. SlowIn \in SUBSET Putter
        BY Zenon DEF SlowIn
      <4> QED BY <1>0, <4>1, PutterCount, Zenon DEF SyncqCounts
    <3>2. sq_i = 0 /\ nputlocks = 0 /\ ~sq_ciputctrl' /\ nputlocks <= sq_nciputctrl
      BY <2>1 DEF NoneToHold
    <3> QED BY <1>0, <2>1, <2>2, <2>3, <3>1, <3>2 DEF SyncqOwner, HasSqlock
  <2>7. ASSUME NEW y \in Excl \ {x}
        PROVE  SyncqOwner(y)'
    <3>1. sq_pc'[y] = sq_pc[y]
      BY <2>2, Zenon
    <3> QED BY <1>0, <2>1, <2>3, <3>1, Zenon DEF SyncqOwner
  <2>8. /\ sqlock' = NoOwner => nputlocks' = 0 /\ sq_i' = 0
        /\ "EXCL" \in sq_flags' => \E y \in Excl : sq_pc'[y] = "excl"
    BY <1>0, <2>1, <2>2, Zenon
  <2>9. ExclusiveIsAlone'
    BY <1>0, <2>1, <2>2, Zenon DEF ExclusiveIsAlone
  <2>10. NoSkippedWakeup'
    BY <1>0, <2>1, <2>2, Zenon DEF NoSkippedWakeup
  <2> QED BY <2>4, <2>5, <2>6, <2>7, <2>8, <2>9, <2>10, ZenonT(30) DEF SyncqInv
<1> QED
  BY <1>1, <1>2, <1>3, <1>4, <1>5, <1>6, <1>7, <1>8, <1>9, <1>10, <1>11, Zenon DEF ExclStep

\* So does each step of a thread in putnext().
LEMMA PutnextStep ==
  ASSUME SyncqInv, NoneToHold, UNCHANGED sq_ciputctrl, \E p \in Putter : PutStep(p)
  PROVE  SyncqInv'
<1> USE SyncqAssumption
<1>0. /\ SyncqTypeOK /\ SyncqCounts /\ ExclusiveIsAlone /\ NoSkippedWakeup
      /\ \A x \in Excl : SyncqOwner(x) /\ x # NoOwner /\ x \notin Putter
      /\ sqlock = NoOwner => nputlocks = 0 /\ sq_i = 0
      /\ "EXCL" \in sq_flags => \E x \in Excl : sq_pc[x] = "excl"
      /\ \A i \in PutLock : i \in Nat /\ i <= sq_nciputctrl
  BY DEF SyncqInv, PutLock
<1>a. \A q \in Putter : /\ counter[q] # {} => sq_pc[q] = "in"
                        /\ \A k, l \in counter[q] : k = l
  BY <1>0, Zenon DEF SyncqCounts
<1>b. /\ \A j \in PutLock : \/ ciputctrl_count[j] = Cardinality(FastIn(j))
                             \/ ciputctrl_count[j] = SQ_FASTPUT + Cardinality(FastIn(j))
      /\ SQ_FASTPUT \in Nat
  BY <1>0, Zenon DEF SyncqCounts
<1>1. ASSUME NEW p \in Putter, NEW i \in PutLock, PutFast(p, i)
      PROVE  SyncqInv'
  <2>1. /\ sq_pc[p] = "out" /\ sq_pc'[p] = "in"
        /\ \A t \in (Putter \union Excl) \ {p} : sq_pc'[t] = sq_pc[t]
        /\ sq_pc' \in [Putter \union Excl -> HasSqlock \union {"out", "in", "tail", "wait", "excl"}]
    BY <1>0, <1>1, Zenon DEF PutFast, SqGoto, SyncqTypeOK, HasSqlock
  <2>0. \A x \in Excl : sq_pc'[x] = sq_pc[x]
    BY <2>1, Zenon
  <2>2. /\ counter[p] = {} /\ counter'[p] = {i} /\ \A q \in Putter \ {p} : counter'[q] = counter[q]
        /\ counter' \in [Putter -> SUBSET PutLock]
        /\ ciputctrl_count' \in [PutLock -> Nat] /\ ciputctrl_count'[i] = ciputctrl_count[i] + 1
        /\ \A j \in PutLock \ {i} : ciputctrl_count'[j] = ciputctrl_count[j]
    BY <1>0, <1>1, <2>1 DEF PutFast, SyncqTypeOK, SyncqCounts
  <2>a. /\ SlowIn' = SlowIn /\ FastIn(i)' = FastIn(i) \union {p} /\ p \notin FastIn(i)
        /\ \A j \in PutLock \ {i} : FastIn(j)' = FastIn(j)
    BY <1>0, <2>1, <2>2, ZenonT(30) DEF SlowIn, FastIn
  <2>b. ciputctrl_count[i] = SQ_FASTPUT + Cardinality(FastIn(i))
    <3>1. ciputctrl_count[i] >= SQ_FASTPUT
      BY <1>1, Zenon DEF PutFast
    <3>2. Cardinality(FastIn(i)) \in Nat /\ Cardinality(FastIn(i)) < SQ_FASTPUT
      BY <1>0, MaskedCounts, Zenon
    <3> QED BY <1>b, <3>1, <3>2
  <2>c. Cardinality(FastIn(i)') = Cardinality(FastIn(i)) + 1 /\ Cardinality(FastIn(i)) \in Nat
    <3>1. FastIn(i) \in SUBSET Putter
      BY Zenon DEF FastIn
    <3> QED BY <2>a, <3>1, PutterCount
  <2>3. SyncqTypeOK'
    BY <1>0, <1>1, <2>0, <2>1, <2>2, Zenon DEF PutFast, SqGoto, SyncqTypeOK, HasSqlock, local
  <2>4. SyncqCounts'
    <3>1. ciputctrl_count'[i] = SQ_FASTPUT + Cardinality(FastIn(i)')
      <4>1. ciputctrl_count'[i] = ciputctrl_count[i] + 1
        BY <2>2, Zenon
      <4> QED BY <1>b, <2>b, <2>c, <4>1
    <3>2. UNCHANGED sq_count
      BY <1>1, Zenon DEF PutFast
    <3>3. \A j \in PutLock : \/ ciputctrl_count'[j] = Cardinality(FastIn(j)')
                              \/ ciputctrl_count'[j] = SQ_FASTPUT + Cardinality(FastIn(j)')
      <4> TAKE j \in PutLock
      <4>1. CASE j = i
        BY <3>1, <4>1, Zenon
      <4>2. CASE j # i
        <5>1. FastIn(j)' = FastIn(j) /\ ciputctrl_count'[j] = ciputctrl_count[j]
          BY <2>2, <2>a, <4>2, Zenon
        <5> QED BY <1>0, <5>1, Zenon DEF SyncqCounts
      <4> QED BY <4>1, <4>2, Zenon
    <3>4. \A q \in Putter : /\ counter'[q] # {} => sq_pc'[q] = "in"
                            /\ \A k, l \in counter'[q] : k = l
      <4> TAKE q \in Putter
      <4>1. CASE q = p
        BY <2>1, <2>2, <4>1, Zenon
      <4>2. CASE q # p
        <5>1. counter'[q] = counter[q] /\ sq_pc'[q] = sq_pc[q]
          BY <2>1, <2>2, <4>2, Zenon
        <5> QED BY <1>a, <5>1, Zenon
      <4> QED BY <4>1, <4>2, Zenon
    <3> QED BY <1>0, <2>a, <3>2, <3>3, <3>4, Zenon DEF SyncqCounts
  <2>5. ASSUME NEW x \in Excl
        PROVE  SyncqOwner(x)'
    <3>1. sq_pc[x] \notin {"sum", "test"}
      BY <1>0, <1>1 DEF PutFast, PutLockFree, SyncqOwner, SyncqTypeOK
    <3> QED BY <1>0, <1>1, <2>0, <3>1, Zenon DEF PutFast, SyncqOwner
  <2>7. /\ sqlock' = NoOwner => nputlocks' = 0 /\ sq_i' = 0
        /\ "EXCL" \in sq_flags' => \E y \in Excl : sq_pc'[y] = "excl"
    BY <1>0, <1>1, <2>0, Zenon DEF PutFast, SqGoto, local
  <2>8. ExclusiveIsAlone'
    BY <1>0, <1>1, <2>0, <2>1, Zenon DEF PutFast, SqGoto, ExclusiveIsAlone, local, SyncqOwner
  <2>9. NoSkippedWakeup'
    BY <1>0, <1>1, <2>1, ZenonT(30) DEF PutFast, SqGoto, NoSkippedWakeup, local
  <2> QED BY <2>3, <2>4, <2>5, <2>7, <2>8, <2>9, ZenonT(30) DEF SyncqInv
<1>2. ASSUME NEW p \in Putter, PutSlow(p)
      PROVE  SyncqInv'
  <2>1. /\ sq_pc[p] = "out" /\ sq_pc'[p] = "in"
        /\ \A t \in (Putter \union Excl) \ {p} : sq_pc'[t] = sq_pc[t]
        /\ sq_pc' \in [Putter \union Excl -> HasSqlock \union {"out", "in", "tail", "wait", "excl"}]
    BY <1>0, <1>2, Zenon DEF PutSlow, SqGoto, SyncqTypeOK, HasSqlock
  <2>0. \A x \in Excl : sq_pc'[x] = sq_pc[x]
    BY <2>1
  <2>2. counter[p] = {} /\ counter' = counter /\ ciputctrl_count' = ciputctrl_count
    BY <1>0, <1>2, <2>1, Zenon DEF PutSlow, local, SyncqCounts
  <2>a. /\ SlowIn' = SlowIn \union {p} /\ p \notin SlowIn
        /\ \A j \in PutLock : FastIn(j)' = FastIn(j)
    BY <1>0, <2>1, <2>2, Zenon DEF SlowIn, FastIn
  <2>b. Cardinality(SlowIn') = Cardinality(SlowIn) + 1
    <3>1. SlowIn \in SUBSET Putter
      BY Zenon DEF SlowIn
    <3> QED BY <2>a, <3>1, PutterCount, Zenon
  <2>3. SyncqTypeOK'
    BY <1>0, <1>2, <2>0, <2>1, <2>2 DEF PutSlow, SqGoto, SyncqTypeOK, HasSqlock, local
  <2>4. SyncqCounts'
    <3>1. \A j \in PutLock : \/ ciputctrl_count'[j] = Cardinality(FastIn(j)')
                             \/ ciputctrl_count'[j] = SQ_FASTPUT + Cardinality(FastIn(j)')
      BY <1>0, <2>2, <2>a, Zenon DEF SyncqCounts
    <3>2. sq_count' = Cardinality(SlowIn')
      BY <1>0, <1>2, <2>b, Zenon DEF PutSlow, SyncqCounts
    <3>3. \A q \in Putter : /\ counter'[q] # {} => sq_pc'[q] = "in"
                            /\ \A k, l \in counter'[q] : k = l
      BY <1>a, <2>1, <2>2, Zenon
    <3> QED BY <3>1, <3>2, <3>3, Zenon DEF SyncqCounts
  <2>5. ASSUME NEW x \in Excl
        PROVE  SyncqOwner(x)'
    <3>1. sq_pc[x] \notin HasSqlock
      BY <1>0, <1>2, Zenon DEF PutSlow, SyncqOwner
    <3> QED BY <1>0, <1>2, <2>0, <3>1, Zenon DEF PutSlow, SyncqOwner, HasSqlock
  <2>7. /\ sqlock' = NoOwner => nputlocks' = 0 /\ sq_i' = 0
        /\ "EXCL" \in sq_flags' => \E y \in Excl : sq_pc'[y] = "excl"
    BY <1>0, <1>2, <2>0, Zenon DEF PutSlow, SqGoto, local
  <2>8. ExclusiveIsAlone'
    BY <1>0, <1>2, <2>0, <2>1, Zenon DEF PutSlow, SqGoto, ExclusiveIsAlone, local, SyncqOwner
  <2>9. NoSkippedWakeup'
    BY <1>0, <1>2, <2>1, Zenon DEF PutSlow, SqGoto, NoSkippedWakeup, local
  <2> QED BY <2>3, <2>4, <2>5, <2>7, <2>8, <2>9, ZenonT(30) DEF SyncqInv
<1>3. ASSUME NEW p \in Putter, PutReturns(p)
      PROVE  SyncqInv'
  <2>1. /\ sq_pc[p] = "in" /\ sq_pc'[p] = (IF "WANTWAKEUP" \in sq_flags THEN "tail" ELSE "out")
        /\ \A t \in (Putter \union Excl) \ {p} : sq_pc'[t] = sq_pc[t]
        /\ sq_pc' \in [Putter \union Excl -> HasSqlock \union {"out", "in", "tail", "wait", "excl"}]
    BY <1>0, <1>3, Zenon DEF PutReturns, SqGoto, SyncqTypeOK, HasSqlock
  <2>0. \A x \in Excl : sq_pc'[x] = sq_pc[x]
    BY <2>1, Zenon
  <2>c. /\ counter' \in [Putter -> SUBSET PutLock]
        /\ counter'[p] = {} /\ \A q \in Putter \ {p} : counter'[q] = counter[q]
        /\ UNCHANGED <<sqlock, nputlocks, sq_flags, sq_needexcl, sq_wait, sq_i, sum>>
    BY <1>0, <1>3, Zenon DEF PutReturns, SyncqTypeOK
  <2>d. \A S \in SUBSET Putter : p \in S => Cardinality(S \ {p}) = Cardinality(S) - 1 /\ Cardinality(S) \in Nat \ {0}
    BY PutterCount, Zenon
  <2>e. SlowIn \in SUBSET Putter /\ \A j \in PutLock : FastIn(j) \in SUBSET Putter
    BY Zenon DEF SlowIn, FastIn
  <2>2. /\ ciputctrl_count' \in [PutLock -> Nat] /\ sq_count' \in Nat /\ SyncqCounts'
        /\ \A x \in Excl : sq_pc[x] \notin {"sum", "test"}
        /\ sq_count' # sq_count => sqlock = NoOwner
        /\ counter' \in [Putter -> SUBSET PutLock]
    <3>1. CASE counter[p] = {}
      <4>1. sqlock = NoOwner /\ sq_count' = sq_count - 1 /\ ciputctrl_count' = ciputctrl_count
        BY <1>3, <3>1, Zenon DEF PutReturns
      <4>2. SlowIn' = SlowIn \ {p} /\ p \in SlowIn /\ \A j \in PutLock : FastIn(j)' = FastIn(j)
        BY <1>0, <2>1, <2>c, <3>1, Zenon DEF SlowIn, FastIn
      <4>3. Cardinality(SlowIn') = Cardinality(SlowIn) - 1 /\ Cardinality(SlowIn) \in Nat \ {0}
        BY <2>d, <2>e, <4>2, Zenon
      <4>4. SyncqCounts' /\ sq_count' \in Nat
        <5>1. \A j \in PutLock : \/ ciputctrl_count'[j] = Cardinality(FastIn(j)')
                                 \/ ciputctrl_count'[j] = SQ_FASTPUT + Cardinality(FastIn(j)')
          BY <1>0, <4>1, <4>2, Zenon DEF SyncqCounts
        <5>2. sq_count' = Cardinality(SlowIn') /\ sq_count' \in Nat
          <6>1. sq_count = Cardinality(SlowIn)
            BY <1>0, ZenonT(30) DEF SyncqCounts
          <6> QED BY ONLY <4>1, <4>3, <6>1
        <5>3. \A q \in Putter : /\ counter'[q] # {} => sq_pc'[q] = "in"
                                /\ \A k, l \in counter'[q] : k = l
          BY <1>a, <2>1, <2>c, ZenonT(30)
        <5> QED BY <5>1, <5>2, <5>3, ZenonT(30) DEF SyncqCounts
      <4> QED BY <1>0, <2>c, <4>1, <4>4, Zenon DEF SyncqOwner, HasSqlock, SyncqTypeOK
    <3>2. CASE counter[p] # {}
      <4>1. PICK i \in PutLock : counter[p] = {i}
        BY <1>0, <3>2 DEF SyncqTypeOK, SyncqCounts
      <4>2. /\ PutLockFree(i) /\ sq_count' = sq_count
            /\ ciputctrl_count' = [j \in PutLock |->
                 IF j \in counter[p] THEN ciputctrl_count[j] - 1 ELSE ciputctrl_count[j]]
        BY <1>3, <3>2, <4>1, Zenon DEF PutReturns
      <4>3. /\ SlowIn' = SlowIn /\ FastIn(i)' = FastIn(i) \ {p} /\ p \in FastIn(i)
            /\ \A j \in PutLock \ {i} : FastIn(j)' = FastIn(j)
        BY <1>0, <2>1, <2>c, <4>1, Zenon DEF SlowIn, FastIn
      <4>4. Cardinality(FastIn(i)') = Cardinality(FastIn(i)) - 1 /\ Cardinality(FastIn(i)) \in Nat \ {0}
        BY <2>d, <2>e, <4>3, Zenon
      <4>5. /\ ciputctrl_count'[i] = ciputctrl_count[i] - 1 /\ ciputctrl_count[i] \in Nat \ {0}
            /\ \A j \in PutLock \ {i} : ciputctrl_count'[j] = ciputctrl_count[j]
        <5>1. ciputctrl_count[i] \in Nat \ {0}
          BY <1>b, <4>4
        <5> QED BY <4>1, <4>2, <5>1, Zenon
      <4>6. ciputctrl_count' \in [PutLock -> Nat]
        BY <1>0, <4>1, <4>2, <4>5 DEF SyncqTypeOK
      <4>7. \/ ciputctrl_count'[i] = Cardinality(FastIn(i)')
            \/ ciputctrl_count'[i] = SQ_FASTPUT + Cardinality(FastIn(i)')
        BY <1>b, <4>4, <4>5
      <4>8. SyncqCounts'
        <5>1. \A j \in PutLock : \/ ciputctrl_count'[j] = Cardinality(FastIn(j)')
                                  \/ ciputctrl_count'[j] = SQ_FASTPUT + Cardinality(FastIn(j)')
          <6> TAKE j \in PutLock
          <6>1. CASE j = i
            BY <4>7, <6>1, Zenon
          <6>2. CASE j # i
            <7>1. FastIn(j)' = FastIn(j) /\ ciputctrl_count'[j] = ciputctrl_count[j]
              BY <4>3, <4>5, <6>2, Zenon
            <7> QED BY <1>0, <7>1 DEF SyncqCounts
          <6> QED BY <6>1, <6>2
        <5>2. \A q \in Putter : /\ counter'[q] # {} => sq_pc'[q] = "in"
                                /\ \A k, l \in counter'[q] : k = l
          BY <1>a, <2>1, <2>c, ZenonT(60)
        <5> QED BY <1>0, <4>2, <4>3, <5>1, <5>2, ZenonT(30) DEF SyncqCounts
      <4>9. \A x \in Excl : sq_pc[x] \notin {"sum", "test"}
        <5>1. sq_ciputctrl
          BY <3>2, Zenon DEF NoneToHold
        <5> QED BY <1>0, <4>2, <5>1 DEF PutLockFree, SyncqOwner, SyncqTypeOK
      <4> QED BY <1>0, <2>c, <4>2, <4>6, <4>8, <4>9, Zenon DEF SyncqTypeOK
    <3> QED BY <3>1, <3>2, Zenon
  <2>3. SyncqTypeOK'
    BY <1>0, <1>3, <2>0, <2>1, <2>2, Zenon DEF PutReturns, SqGoto, SyncqTypeOK, HasSqlock, local
  <2>4. SyncqCounts'
    BY <2>2, Zenon
  <2>5. ASSUME NEW x \in Excl
        PROVE  SyncqOwner(x)'
    BY <1>0, <2>0, <2>2, <2>c, Zenon DEF SyncqOwner, HasSqlock
  <2>7. /\ sqlock' = NoOwner => nputlocks' = 0 /\ sq_i' = 0
        /\ "EXCL" \in sq_flags' => \E y \in Excl : sq_pc'[y] = "excl"
    BY <1>0, <1>3, <2>0, ZenonT(30) DEF PutReturns, SqGoto, local
  <2>8. ExclusiveIsAlone'
    BY <1>0, <1>3, <2>0, <2>1, ZenonT(60) DEF PutReturns, SqGoto, ExclusiveIsAlone, local, SyncqOwner
  <2>9. NoSkippedWakeup'
    BY <1>0, <1>3, <2>1, ZenonT(30) DEF PutReturns, SqGoto, NoSkippedWakeup, local
  <2> QED BY <2>3, <2>4, <2>5, <2>7, <2>8, <2>9, ZenonT(30) DEF SyncqInv
<1>4. ASSUME NEW p \in Putter, PutTail(p)
      PROVE  SyncqInv'
  <2>1. /\ sq_pc[p] = "tail" /\ sq_pc'[p] = "out"
        /\ \A t \in (Putter \union Excl) \ {p} : sq_pc'[t] = sq_pc[t]
        /\ sq_pc' \in [Putter \union Excl -> HasSqlock \union {"out", "in", "tail", "wait", "excl"}]
    BY <1>0, <1>4, Zenon DEF PutTail, SqGoto, Wakeup, SyncqTypeOK, HasSqlock
  <2>0. \A x \in Excl : sq_pc'[x] = sq_pc[x]
    BY <2>1, Zenon
  <2>2. UNCHANGED <<counter, ciputctrl_count, sq_count, sqlock, nputlocks, sq_needexcl, sq_i, sum>> /\ sqlock = NoOwner
    BY <1>4, Zenon DEF PutTail, local
  <2>a. SlowIn' = SlowIn /\ \A j \in PutLock : FastIn(j)' = FastIn(j)
    BY <1>0, <2>1, <2>2, Zenon DEF SlowIn, FastIn
  <2>3. SyncqTypeOK'
    BY <1>0, <1>4, <2>0, <2>1, <2>2 DEF PutTail, SqGoto, Wakeup, SyncqTypeOK, HasSqlock, local
  <2>4. SyncqCounts'
    BY <1>0, <2>1, <2>2, <2>a, ZenonT(30) DEF SyncqCounts
  <2>5. ASSUME NEW x \in Excl
        PROVE  SyncqOwner(x)'
    <3>1. sq_pc[x] \notin HasSqlock
      BY <1>0, <2>2, Zenon DEF SyncqOwner
    <3>2. "EXCL" \in sq_flags => "EXCL" \in sq_flags'
      BY <1>4, Zenon DEF PutTail, Wakeup
    <3> QED BY <1>0, <2>0, <2>2, <3>1, <3>2, Zenon DEF SyncqOwner, HasSqlock
  <2>7. /\ sqlock' = NoOwner => nputlocks' = 0 /\ sq_i' = 0
        /\ "EXCL" \in sq_flags' => \E y \in Excl : sq_pc'[y] = "excl"
    BY <1>0, <1>4, <2>0, Zenon DEF PutTail, SqGoto, Wakeup, local
  <2>8. ExclusiveIsAlone'
    BY <1>0, <1>4, <2>0, <2>1 DEF PutTail, SqGoto, Wakeup, ExclusiveIsAlone, local, SyncqOwner
  <2>9. NoSkippedWakeup'
    BY <1>0, <1>4, <2>1, Zenon DEF PutTail, SqGoto, Wakeup, NoSkippedWakeup, local
  <2> QED BY <2>3, <2>4, <2>5, <2>7, <2>8, <2>9, ZenonT(30) DEF SyncqInv
<1> QED
  BY <1>1, <1>2, <1>3, <1>4, Zenon DEF PutStep

\* No step puts a thread into a count of a queue without put locks.
LEMMA StillNone ==
  ASSUME NoneToHold, SyncqTypeOK, UNCHANGED sq_ciputctrl,
         (\E x \in Excl : ExclStep(x)) \/ (\E p \in Putter : PutStep(p))
  PROVE  NoneToHold'
<1> SUFFICES ASSUME ~sq_ciputctrl
             PROVE  sq_i' = 0 /\ nputlocks' = 0 /\ \A q \in Putter : counter'[q] = {}
  BY Zenon DEF NoneToHold
<1>0. sq_i = 0 /\ nputlocks = 0 /\ \A q \in Putter : counter[q] = {}
  BY Zenon DEF NoneToHold
<1>1. ASSUME NEW x \in Excl, ExclStep(x)
      PROVE  counter' = counter /\ sq_i' = sq_i /\ nputlocks' \in {0, nputlocks}
  BY <1>1, Zenon DEF ExclStep, EnterExcl, SQ_PUTCOUNT_CLRFAST, SQ_PUTLOCKS_ENTER, SUM_SQ_PUTCOUNTS,
     WaitEmpty, WaitReturns, BecomeExcl, LeaveExcl, SQ_PUTCOUNT_SETFAST, LeaveWakes, NoPutlocks,
     PutcountStep, PutlocksStep, SumStep, SQ_PUTLOCKS_EXIT, local
<1>2. ASSUME NEW p \in Putter, PutStep(p)
      PROVE  /\ \A q \in Putter : counter'[q] \in {{}, counter[q]}
             /\ sq_i' = sq_i /\ nputlocks' = nputlocks
  BY <1>2 DEF PutStep, PutFast, PutSlow, PutReturns, PutTail, SyncqTypeOK, local
<1> QED BY <1>0, <1>1, <1>2, Zenon

\* The put locks appear while nobody has SQLOCK, with counts that are right:
\* everybody inside came in under SQLOCK.
LEMMA CreationStep ==
  ASSUME SyncqInv, NoneToHold, CreatePutlocks
  PROVE  SyncqInv' /\ NoneToHold'
<1>1. /\ sqlock = NoOwner /\ ~sq_ciputctrl /\ sq_ciputctrl' = TRUE
      /\ UNCHANGED <<sqlock, nputlocks, sq_count, sq_flags, sq_needexcl, sq_wait, sq_pc>>
      /\ UNCHANGED <<sq_i, sum, counter>>
  BY Zenon DEF CreatePutlocks, local
<1>2. SlowIn' = SlowIn /\ \A i \in PutLock : FastIn(i)' = FastIn(i) /\ FastIn(i) = {}
  BY <1>1, Zenon DEF SlowIn, FastIn, NoneToHold
<1>3. /\ ciputctrl_count' \in [PutLock -> Nat]
      /\ \A i \in PutLock : ciputctrl_count'[i] = 0 \/ ciputctrl_count'[i] = SQ_FASTPUT
  BY SyncqAssumption DEF CreatePutlocks
<1>4. SyncqTypeOK'
  BY <1>1, <1>3, Zenon DEF SyncqInv, SyncqTypeOK
<1>5. SyncqCounts'
  <2>1. SQ_FASTPUT = SQ_FASTPUT + 0 /\ Cardinality({}) = 0
    BY SyncqAssumption, FS_EmptySet
  <2> QED BY <1>1, <1>2, <1>3, <2>1, Zenon DEF SyncqInv, SyncqCounts
<1>6. \A x \in Excl : SyncqOwner(x)'
  <2> TAKE x \in Excl
  <2>1. SyncqOwner(x) /\ sq_pc[x] \notin HasSqlock
    BY <1>1, SyncqAssumption, Zenon DEF SyncqInv, SyncqOwner
  <2> QED BY <1>1, <2>1, Zenon DEF SyncqOwner, HasSqlock
<1> QED BY <1>1, <1>4, <1>5, <1>6, Zenon DEF SyncqInv, NoneToHold, ExclusiveIsAlone, NoSkippedWakeup

\* It holds however the threads of putnext() and of entersq() interleave, and
\* whenever the put locks are created.
LEMMA SyncqInvariant == SyncqSpec => [](SyncqInv /\ NoneToHold)
<1>1. SyncqInv /\ NoneToHold /\ [SyncqNext]_sqVars => SyncqInv' /\ NoneToHold'
  <2> SUFFICES ASSUME SyncqInv, NoneToHold, [SyncqNext]_sqVars
               PROVE  SyncqInv' /\ NoneToHold'
    BY Zenon
  <2>1. CASE UNCHANGED sqVars
    <3>1. SlowIn' = SlowIn /\ \A j \in PutLock : FastIn(j)' = FastIn(j)
      BY <2>1, Zenon DEF sqVars, local, SlowIn, FastIn
    <3>2. SyncqTypeOK' /\ SyncqCounts'
      BY <2>1, <3>1 DEF sqVars, local, SyncqInv, SyncqTypeOK, SyncqCounts
    <3>3. \A x \in Excl : SyncqOwner(x)'
      BY <2>1, <3>1, Zenon DEF sqVars, local, SyncqInv, SyncqOwner
    <3> QED BY <2>1, <3>2, <3>3, Zenon
        DEF sqVars, local, SyncqInv, NoneToHold, ExclusiveIsAlone, NoSkippedWakeup
  <2> QED BY <2>1, ExclusiveStep, PutnextStep, StillNone, CreationStep, Zenon DEF SyncqNext, SyncqInv
<1>2. SyncqInit => SyncqInv /\ NoneToHold
  BY SyncqInitial, Zenon
<1> QED BY <1>1, <1>2, PTL DEF SyncqSpec

\* PerimeterIsExclusive: the sum that SUM_SQ_PUTCOUNTS takes one counter at a
\* time is 0 only when nobody is inside, for any number of processors, putters
\* and threads that want the perimeter.
THEOREM SyncqExclusive == SyncqSpec => []PerimeterIsExclusive
<1>1. SyncqInv => PerimeterIsExclusive
  <2> SUFFICES ASSUME SyncqInv PROVE CountsAreExact
    BY Zenon DEF SyncqInv, PerimeterIsExclusive
  <2> QED BY MaskedCounts, Zenon DEF SyncqInv, SyncqCounts, CountsAreExact, FastIn, SlowIn
<1> QED BY <1>1, SyncqInvariant, PTL

\* NoSkippedWakeup: whoever sleeps on sq_wait has SQ_WANTWAKEUP set for it and
\* a thread ahead that will see the flag on its way out.
THEOREM SyncqWakes == SyncqSpec => []NoSkippedWakeup
BY SyncqInvariant, PTL DEF SyncqInv

-----------------------------------------------------------------------------
(* RwLock: the readers/writer lock.                                        *)

\* Sets of threads have a size, which is 0 only for the empty set.
LEMMA Count ==
  ASSUME NEW S, S \subseteq Thread
  PROVE  /\ IsFiniteSet(S) /\ Cardinality(S) \in Nat
         /\ Cardinality(S) = 0 <=> S = {}
BY FS_Subset, FS_CardinalityType, FS_EmptySet, RwLockAssumption, Zenon

\* A set of threads with one more has one more.
LEMMA CountAdd ==
  ASSUME NEW S, S \subseteq Thread, NEW t \in Thread, t \notin S
  PROVE  Cardinality(S \cup {t}) = Cardinality(S) + 1
BY Count, FS_AddElement, Zenon

\* A set of threads with one less has one less.
LEMMA CountRemove ==
  ASSUME NEW S, S \subseteq Thread, NEW t \in S
  PROVE  Cardinality(S \ {t}) = Cardinality(S) - 1
BY Count, FS_RemoveElement, Zenon

\* The inductive invariant of the readers/writer lock.
Inv ==
  /\ TypeOK
  /\ HoldCountIsExact
  /\ OwnerIsWriter /\ WantedIsMeant /\ LoadedWord
  /\ WaitersAreFlagged
  /\ KpriBalanced

\* The initial state satisfies the invariant.
LEMMA InitEstablishes == Init => Inv
<1> SUFFICES ASSUME Init PROVE Inv
  OBVIOUS
<1>1. Readers = {}
  BY Zenon DEF Init, Readers, ReadHeld
<1>2. HoldCountIsExact
  BY <1>1, FS_EmptySet, Zenon DEF Init, HoldCountIsExact, Unheld
<1>3. TypeOK
  BY RwLockAssumption DEF Init, TypeOK, Word, Unheld, PC
<1>4. OwnerIsWriter /\ WantedIsMeant /\ LoadedWord
  BY RwLockAssumption, Zenon
     DEF Init, OwnerIsWriter, WantedIsMeant, LoadedWord, Unheld, WriteHeld
<1>5. WaitersAreFlagged /\ KpriBalanced
  BY Zenon DEF Init, WaitersAreFlagged, KpriBalanced, Blocked, ReadHeld
<1> QED BY <1>2, <1>3, <1>4, <1>5, Zenon DEF Inv

\* What an exchange or the slow path does to the word, in five forms, and
\* what follows from each.  The blocked threads stay as they are.
Holds == HoldCountIsExact /\ OwnerIsWriter /\ WantedIsMeant /\ WaitersAreFlagged

\* Nobody blocks and nobody is woken.
BlockedSame ==
  /\ Blocked("read_blocked")' = Blocked("read_blocked")
  /\ Blocked("write_blocked")' = Blocked("write_blocked")

\* The flag bits of the word stay.
Flags == rw_wwwh'.wanted = rw_wwwh.wanted /\ rw_wwwh'.waiters = rw_wwwh.waiters

\* Where a thread sleeps.
Blocking == {"read_blocked", "write_blocked"}

\* A thread that neither blocks nor is woken moves.
LEMMA BlockedStay ==
  ASSUME TypeOK, NEW t \in Thread, NEW to, pc' = [pc EXCEPT ![t] = to],
         pc[t] \notin Blocking, to \notin Blocking
  PROVE  BlockedSame
BY Zenon DEF TypeOK, BlockedSame, Blocked, Blocking

\* The word stays, and t holds what it held.
LEMMA SameWord ==
  ASSUME Inv, NEW t \in Thread, NEW to, pc' = [pc EXCEPT ![t] = to], BlockedSame,
         rw_wwwh' = rw_wwwh,
         pc[t] \in ReadHeld <=> to \in ReadHeld,
         pc[t] \in WriteHeld <=> to \in WriteHeld
  PROVE  Holds'
<1>1. Readers' = Readers
  BY Zenon DEF Inv, TypeOK, Readers
<1>2. HoldCountIsExact'
  BY <1>1, Zenon DEF Inv, HoldCountIsExact
<1>3. OwnerIsWriter'
  BY Zenon DEF Inv, TypeOK, OwnerIsWriter
<1>4. WantedIsMeant' /\ WaitersAreFlagged'
  BY Zenon DEF Inv, WantedIsMeant, WaitersAreFlagged, BlockedSame
<1> QED BY <1>2, <1>3, <1>4, Zenon DEF Holds

\* t becomes a reader of a word without a writer.
LEMMA JoinReaders ==
  ASSUME Inv, NEW t \in Thread, pc' = [pc EXCEPT ![t] = "reading"], BlockedSame, Flags,
         pc[t] \notin ReadHeld \cup WriteHeld,
         rw_wwwh.owner = NoThread, rw_wwwh'.owner = NoThread,
         rw_wwwh'.readers = rw_wwwh.readers + 1
  PROVE  Holds'
<1>1. Readers' = Readers \cup {t} /\ t \notin Readers /\ Readers \subseteq Thread
  BY Zenon DEF Inv, TypeOK, Readers, ReadHeld
<1>2. HoldCountIsExact'
  BY <1>1, CountAdd, Zenon DEF Inv, HoldCountIsExact
<1>3. OwnerIsWriter'
  BY RwLockAssumption, Zenon DEF Inv, TypeOK, OwnerIsWriter, WriteHeld
<1>4. WantedIsMeant' /\ WaitersAreFlagged'
  BY Zenon DEF Inv, WantedIsMeant, WaitersAreFlagged, BlockedSame, Flags
<1> QED BY <1>2, <1>3, <1>4, Zenon DEF Holds

\* A reader leaves: the count goes down with the set of readers.
LEMMA LeaveReaders ==
  ASSUME Inv, NEW t \in Thread, pc' = [pc EXCEPT ![t] = "out"], BlockedSame, Flags,
         pc[t] \in ReadHeld,
         rw_wwwh'.owner = rw_wwwh.owner, rw_wwwh'.readers = rw_wwwh.readers - 1
  PROVE  Holds'
<1>1. Readers' = Readers \ {t} /\ t \in Readers /\ Readers \subseteq Thread
  BY Zenon DEF Inv, TypeOK, Readers, ReadHeld
<1>2. HoldCountIsExact'
  BY <1>1, CountRemove, Zenon DEF Inv, HoldCountIsExact
<1>3. rw_wwwh.owner = NoThread
  BY <1>1, Count, Zenon DEF Inv, OwnerIsWriter, HoldCountIsExact
<1>4. OwnerIsWriter'
  BY <1>3, RwLockAssumption, Zenon DEF Inv, TypeOK, OwnerIsWriter, WriteHeld, ReadHeld
<1>5. WantedIsMeant' /\ WaitersAreFlagged'
  BY Zenon DEF Inv, WantedIsMeant, WaitersAreFlagged, BlockedSame, Flags
<1> QED BY <1>2, <1>4, <1>5, Zenon DEF Holds

\* t becomes the writer of an unheld word.
LEMMA BecomeWriter ==
  ASSUME Inv, NEW t \in Thread, pc' = [pc EXCEPT ![t] = "writing"], BlockedSame, Flags,
         pc[t] \notin ReadHeld \cup WriteHeld, rw_wwwh.owner = NoThread,
         rw_wwwh'.owner = t, rw_wwwh.readers = 0, rw_wwwh'.readers = 0
  PROVE  Holds'
<1>1. Readers' = Readers
  BY Zenon DEF Inv, TypeOK, Readers, ReadHeld
<1>2. HoldCountIsExact'
  BY <1>1, Zenon DEF Inv, HoldCountIsExact
<1>3. OwnerIsWriter'
  BY RwLockAssumption, Zenon DEF Inv, TypeOK, OwnerIsWriter, WriteHeld
<1>4. WantedIsMeant' /\ WaitersAreFlagged'
  BY Zenon DEF Inv, WantedIsMeant, WaitersAreFlagged, BlockedSame, Flags
<1> QED BY <1>2, <1>3, <1>4, Zenon DEF Holds

\* The writer leaves: nobody has the lock.
LEMMA LeaveWriter ==
  ASSUME Inv, NEW t \in Thread, pc' = [pc EXCEPT ![t] = "out"], BlockedSame, Flags,
         pc[t] \in WriteHeld,
         rw_wwwh'.owner = NoThread, rw_wwwh'.readers = rw_wwwh.readers
  PROVE  Holds'
<1>1. Readers' = Readers
  BY Zenon DEF Inv, TypeOK, Readers, ReadHeld, WriteHeld
<1>2. HoldCountIsExact'
  BY <1>1, Zenon DEF Inv, HoldCountIsExact
<1>3. OwnerIsWriter'
  BY RwLockAssumption, Zenon DEF Inv, TypeOK, OwnerIsWriter, WriteHeld
<1>4. WantedIsMeant' /\ WaitersAreFlagged'
  BY Zenon DEF Inv, WantedIsMeant, WaitersAreFlagged, BlockedSame, Flags
<1> QED BY <1>2, <1>3, <1>4, Zenon DEF Holds

\* While a thread reads, the hold count is positive.
LEMMA CountedIsPositive ==
  ASSUME Inv, NEW t \in Thread, pc[t] \in ReadHeld
  PROVE  rw_wwwh.readers \in Nat \ {0}
<1>1. Readers \subseteq Thread /\ t \in Readers
  BY Zenon DEF Readers
<1> QED BY <1>1, Count, Zenon DEF Inv, HoldCountIsExact

\* The fields of the two words that an exchange compares with or stores.
LEMMA WordFacts ==
  /\ Unheld \in Word /\ Unheld.owner = NoThread /\ Unheld.readers = 0
  /\ Unheld.wanted = FALSE /\ Unheld.waiters = FALSE
  /\ \A t \in Thread : LET w == RW_WRITE_LOCK(t)
                        IN  /\ w \in Word /\ w.owner = t /\ w.readers = 0
                            /\ w.wanted = FALSE /\ w.waiters = FALSE
BY Zenon DEF Unheld, RW_WRITE_LOCK, Word

\* rw_enter(RW_READER) requests the priority and loads the word.
LEMMA rw_enter_reader_Step ==
  ASSUME Inv, NEW t \in Thread, rw_enter_reader(t)
  PROVE  Inv'
<1> DEFINE NextPc == IF read_claimed(rw_wwwh) THEN "read_sleep" ELSE "read_enter"
<1>1. Holds'
  <2>1. /\ pc' = [pc EXCEPT ![t] = NextPc]
        /\ pc[t] \notin Blocking /\ NextPc \notin Blocking
    BY Zenon DEF Inv, Blocking, rw_enter_reader, KpriRequest, Goto
  <2>2. BlockedSame
    BY <2>1, BlockedStay, Zenon DEF Inv
  <2>3. rw_wwwh' = rw_wwwh
    BY Zenon DEF rw_enter_reader, KpriRequest, Goto
  <2>4. /\ pc[t] \in ReadHeld <=> NextPc \in ReadHeld
        /\ pc[t] \in WriteHeld <=> NextPc \in WriteHeld
    BY Zenon DEF ReadHeld, WriteHeld, rw_enter_reader
  <2> QED BY <2>1, <2>2, <2>3, <2>4, SameWord, Zenon
<1>2. TypeOK'
  BY <1>1, CountedIsPositive, RwLockAssumption
     DEF Inv, TypeOK, Word, PC, ReadHeld, WriteHeld, KpriBalanced, LoadedWord,
         WriteLocked, WriteClaimed, Locked, not_last_reader, AddReader, DropReader,
         Unheld, RW_WRITE_LOCK, rw_enter_reader, KpriRequest, Goto
<1>3. LoadedWord'
  BY Zenon DEF Inv, TypeOK, LoadedWord, read_claimed, rw_enter_reader, KpriRequest, Goto
<1>4. KpriBalanced'
  BY RwLockAssumption
     DEF Inv, TypeOK, PC, ReadHeld, WriteHeld, OwnerIsWriter, KpriBalanced,
         WriteLocked, rw_enter_reader, KpriRequest, Goto
<1> QED BY <1>1, <1>2, <1>3, <1>4, Zenon DEF Inv, Holds

\* The exchange of rw_enter(RW_READER) adds a reader to an unclaimed word.
LEMMA rw_read_enter_Step ==
  ASSUME Inv, NEW t \in Thread, rw_read_enter(t)
  PROVE  Inv'
<1>1. ASSUME rw_wwwh = eax[t] PROVE Holds'
  <2>1. /\ pc' = [pc EXCEPT ![t] = "reading"]
        /\ pc[t] \notin Blocking /\ "reading" \notin Blocking
    BY <1>1, Zenon DEF Inv, Blocking, rw_read_enter, cmpxchg, Goto
  <2>2. BlockedSame
    BY <2>1, BlockedStay, Zenon DEF Inv
  <2>3. /\ rw_wwwh.owner = NoThread /\ rw_wwwh'.owner = NoThread
        /\ rw_wwwh'.readers = rw_wwwh.readers + 1
        /\ Flags
    BY <1>1, RwLockAssumption
       DEF Inv, TypeOK, Word, LoadedWord, WriteClaimed, WriteLocked, Flags, AddReader,
           rw_read_enter, cmpxchg, Goto
  <2>4. pc[t] \notin ReadHeld \cup WriteHeld
    BY <1>1, Zenon DEF ReadHeld, WriteHeld, rw_read_enter
  <2> QED BY <2>1, <2>2, <2>3, <2>4, JoinReaders, Zenon
<1>2. ASSUME rw_wwwh # eax[t] PROVE Holds'
  <2>1. /\ pc' = [pc EXCEPT ![t] = "read_sleep"]
        /\ pc[t] \notin Blocking /\ "read_sleep" \notin Blocking
    BY <1>2, Zenon DEF Inv, Blocking, rw_read_enter, cmpxchg, Goto
  <2>2. BlockedSame
    BY <2>1, BlockedStay, Zenon DEF Inv
  <2>3. rw_wwwh' = rw_wwwh
    BY <1>2, Zenon DEF rw_read_enter, cmpxchg, Goto
  <2>4. /\ pc[t] \in ReadHeld <=> "read_sleep" \in ReadHeld
        /\ pc[t] \in WriteHeld <=> "read_sleep" \in WriteHeld
    BY <1>2, Zenon DEF ReadHeld, WriteHeld, rw_read_enter
  <2> QED BY <2>1, <2>2, <2>3, <2>4, SameWord, Zenon
<1>3. Holds'
  BY <1>1, <1>2, Zenon DEF rw_read_enter
<1>4. TypeOK'
  BY <1>3, CountedIsPositive, RwLockAssumption
     DEF Inv, TypeOK, Word, PC, ReadHeld, WriteHeld, KpriBalanced, LoadedWord,
         WriteLocked, WriteClaimed, Locked, not_last_reader, AddReader, DropReader,
         Unheld, RW_WRITE_LOCK, rw_read_enter, cmpxchg, Goto
<1>5. LoadedWord'
  BY Zenon DEF Inv, TypeOK, LoadedWord, read_claimed, rw_read_enter, cmpxchg, Goto
<1>6. KpriBalanced'
  BY RwLockAssumption
     DEF Inv, TypeOK, PC, ReadHeld, WriteHeld, OwnerIsWriter, KpriBalanced,
         WriteLocked, rw_read_enter, cmpxchg, Goto
<1> QED BY <1>3, <1>4, <1>5, <1>6 DEF Inv, Holds

\* The exchange of rw_enter(RW_WRITER) takes an unheld word.
LEMMA rw_enter_writer_Step ==
  ASSUME Inv, NEW t \in Thread, rw_enter_writer(t)
  PROVE  Inv'
<1>1. ASSUME rw_wwwh = Unheld PROVE Holds'
  <2>1. /\ pc' = [pc EXCEPT ![t] = "writing"]
        /\ pc[t] \notin Blocking /\ "writing" \notin Blocking
    BY <1>1, Zenon DEF Inv, Blocking, rw_enter_writer, cmpxchg, Goto
  <2>2. BlockedSame
    BY <2>1, BlockedStay, Zenon DEF Inv
  <2>3. /\ rw_wwwh.owner = NoThread /\ rw_wwwh'.owner = t
        /\ rw_wwwh.readers = 0 /\ rw_wwwh'.readers = 0
        /\ Flags
    BY <1>1, WordFacts, RwLockAssumption
       DEF Inv, TypeOK, Word, Flags, rw_enter_writer, cmpxchg, Goto
  <2>4. pc[t] \notin ReadHeld \cup WriteHeld
    BY <1>1, WordFacts, Zenon DEF ReadHeld, WriteHeld, rw_enter_writer
  <2> QED BY <2>1, <2>2, <2>3, <2>4, BecomeWriter, Zenon
<1>2. ASSUME rw_wwwh # Unheld PROVE Holds'
  <2>1. /\ pc' = [pc EXCEPT ![t] = "write_sleep"]
        /\ pc[t] \notin Blocking /\ "write_sleep" \notin Blocking
    BY <1>2, Zenon DEF Inv, Blocking, rw_enter_writer, cmpxchg, Goto
  <2>2. BlockedSame
    BY <2>1, BlockedStay, Zenon DEF Inv
  <2>3. rw_wwwh' = rw_wwwh
    BY <1>2, Zenon DEF rw_enter_writer, cmpxchg, Goto
  <2>4. /\ pc[t] \in ReadHeld <=> "write_sleep" \in ReadHeld
        /\ pc[t] \in WriteHeld <=> "write_sleep" \in WriteHeld
    BY <1>2, Zenon DEF ReadHeld, WriteHeld, rw_enter_writer
  <2> QED BY <2>1, <2>2, <2>3, <2>4, SameWord, Zenon
<1>3. Holds'
  BY <1>1, <1>2, Zenon DEF rw_enter_writer
<1>4. TypeOK'
  <2>1. rw_wwwh' \in Word
    BY WordFacts, CountedIsPositive, Zenon DEF Inv, TypeOK, rw_enter_writer, cmpxchg, Goto
  <2>2. rw_wwwh'.waiters => Locked(rw_wwwh')
    BY RwLockAssumption, WordFacts, Zenon
       DEF Inv, TypeOK, Locked, WriteLocked, rw_enter_writer, cmpxchg, Goto
  <2>3. eax' \in [Thread -> Word] /\ pc' \in [Thread -> PC]
    BY WordFacts, Zenon
       DEF Inv, TypeOK, PC, ReadHeld, WriteHeld, rw_enter_writer, cmpxchg, Goto
  <2>4. kpri_req' \in [Thread -> 0 .. 1]
    BY Zenon DEF Inv, TypeOK, KpriBalanced, ReadHeld, rw_enter_writer, cmpxchg, Goto
  <2> QED BY <2>1, <2>2, <2>3, <2>4, Zenon DEF TypeOK
<1>5. LoadedWord'
  BY Zenon DEF Inv, TypeOK, LoadedWord, read_claimed, rw_enter_writer, cmpxchg, Goto
<1>6. KpriBalanced'
  BY RwLockAssumption
     DEF Inv, TypeOK, PC, ReadHeld, WriteHeld, OwnerIsWriter, KpriBalanced,
         WriteLocked, rw_enter_writer, cmpxchg, Goto
<1> QED BY <1>3, <1>4, <1>5, <1>6 DEF Inv, Holds

\* rw_exit() loads the word and chooses its path.
LEMMA rw_exit_Step ==
  ASSUME Inv, NEW t \in Thread, rw_exit(t)
  PROVE  Inv'
<1> DEFINE NextPc == IF WriteLocked(rw_wwwh) THEN "write_exit"
                      ELSE IF not_last_reader(rw_wwwh) THEN "read_exit" ELSE "read_wakeup"
<1>0. pc[t] = "writing" <=> WriteLocked(rw_wwwh)
  BY CountedIsPositive, RwLockAssumption, Zenon
     DEF Inv, OwnerIsWriter, WriteLocked, ReadHeld, WriteHeld, rw_exit
<1>1. Holds'
  <2>1. /\ pc' = [pc EXCEPT ![t] = NextPc]
        /\ pc[t] \notin Blocking /\ NextPc \notin Blocking
    BY <1>0, Zenon DEF Inv, Blocking, rw_exit, Goto
  <2>2. BlockedSame
    BY <2>1, BlockedStay, Zenon DEF Inv
  <2>3. rw_wwwh' = rw_wwwh
    BY <1>0, Zenon DEF rw_exit, Goto
  <2>4. /\ pc[t] \in ReadHeld <=> NextPc \in ReadHeld
        /\ pc[t] \in WriteHeld <=> NextPc \in WriteHeld
    BY <1>0, Zenon DEF ReadHeld, WriteHeld, rw_exit
  <2> QED BY <2>1, <2>2, <2>3, <2>4, SameWord, Zenon
<1>2. TypeOK'
  BY <1>1, CountedIsPositive, RwLockAssumption, Zenon
     DEF Inv, TypeOK, Word, PC, ReadHeld, WriteHeld, KpriBalanced, LoadedWord,
         WriteLocked, WriteClaimed, Locked, not_last_reader, AddReader, DropReader,
         Unheld, RW_WRITE_LOCK, rw_exit, Goto
<1>3. LoadedWord'
  BY Zenon DEF Inv, TypeOK, LoadedWord, read_claimed, rw_exit, Goto
<1>4. KpriBalanced'
  BY <1>0, RwLockAssumption, Zenon
     DEF Inv, TypeOK, PC, ReadHeld, WriteHeld, OwnerIsWriter, KpriBalanced,
         WriteLocked, rw_exit, Goto
<1> QED BY <1>1, <1>2, <1>3, <1>4 DEF Inv, Holds

\* The exchange of a reader that is not the last one, or has no waiters.
LEMMA rw_read_exit_Step ==
  ASSUME Inv, NEW t \in Thread, rw_read_exit(t)
  PROVE  Inv'
<1>1. ASSUME rw_wwwh = eax[t] PROVE Holds'
  <2>1. /\ pc' = [pc EXCEPT ![t] = "out"]
        /\ pc[t] \notin Blocking /\ "out" \notin Blocking
    BY <1>1, Zenon DEF Inv, Blocking, rw_read_exit, cmpxchg, Goto, KpriRelease
  <2>2. BlockedSame
    BY <2>1, BlockedStay, Zenon DEF Inv
  <2>3. /\ rw_wwwh'.owner = rw_wwwh.owner /\ rw_wwwh'.readers = rw_wwwh.readers - 1
        /\ Flags
    BY <1>1, RwLockAssumption
       DEF Inv, TypeOK, Word, LoadedWord, Flags, DropReader, rw_read_exit, cmpxchg,
           Goto, KpriRelease
  <2>4. pc[t] \in ReadHeld
    BY <1>1, Zenon DEF ReadHeld, WriteHeld, rw_read_exit
  <2> QED BY <2>1, <2>2, <2>3, <2>4, LeaveReaders, Zenon
<1>2. ASSUME rw_wwwh # eax[t] PROVE Holds'
  <2>1. /\ pc' = [pc EXCEPT ![t] = "read_wakeup"]
        /\ pc[t] \notin Blocking /\ "read_wakeup" \notin Blocking
    BY <1>2, Zenon DEF Inv, Blocking, rw_read_exit, cmpxchg, Goto, KpriRelease
  <2>2. BlockedSame
    BY <2>1, BlockedStay, Zenon DEF Inv
  <2>3. rw_wwwh' = rw_wwwh
    BY <1>2, Zenon DEF rw_read_exit, cmpxchg, Goto, KpriRelease
  <2>4. /\ pc[t] \in ReadHeld <=> "read_wakeup" \in ReadHeld
        /\ pc[t] \in WriteHeld <=> "read_wakeup" \in WriteHeld
    BY <1>2, Zenon DEF ReadHeld, WriteHeld, rw_read_exit
  <2> QED BY <2>1, <2>2, <2>3, <2>4, SameWord, Zenon
<1>3. Holds'
  BY <1>1, <1>2, Zenon DEF rw_read_exit
<1>4. TypeOK'
  BY <1>3, CountedIsPositive, RwLockAssumption
     DEF Inv, TypeOK, Word, PC, ReadHeld, WriteHeld, KpriBalanced, LoadedWord,
         WriteLocked, WriteClaimed, Locked, not_last_reader, AddReader, DropReader,
         Unheld, RW_WRITE_LOCK, rw_read_exit, cmpxchg, Goto, KpriRelease
<1>5. LoadedWord'
  BY Zenon DEF Inv, TypeOK, LoadedWord, read_claimed, rw_read_exit, cmpxchg, Goto, KpriRelease
<1>6. KpriBalanced'
  BY RwLockAssumption
     DEF Inv, TypeOK, PC, ReadHeld, WriteHeld, OwnerIsWriter, KpriBalanced,
         WriteLocked, rw_read_exit, cmpxchg, Goto, KpriRelease
<1> QED BY <1>3, <1>4, <1>5, <1>6 DEF Inv, Holds

\* The exchange of a writer without waiters.
LEMMA rw_write_exit_Step ==
  ASSUME Inv, NEW t \in Thread, rw_write_exit(t)
  PROVE  Inv'
<1>1. ASSUME rw_wwwh = RW_WRITE_LOCK(t) PROVE Holds'
  <2>1. /\ pc' = [pc EXCEPT ![t] = "out"]
        /\ pc[t] \notin Blocking /\ "out" \notin Blocking
    BY <1>1, WordFacts, Zenon DEF Inv, Blocking, rw_write_exit, cmpxchg, Goto
  <2>2. BlockedSame
    BY <2>1, BlockedStay, Zenon DEF Inv
  <2>3. /\ rw_wwwh'.owner = NoThread /\ rw_wwwh'.readers = rw_wwwh.readers
        /\ Flags
    BY <1>1, WordFacts, RwLockAssumption, Zenon
       DEF Inv, TypeOK, Word, OwnerIsWriter, Flags, rw_write_exit, cmpxchg, Goto
  <2>4. pc[t] \in WriteHeld
    BY <1>1, WordFacts, Zenon DEF ReadHeld, WriteHeld, rw_write_exit
  <2> QED BY <2>1, <2>2, <2>3, <2>4, LeaveWriter, Zenon
<1>2. ASSUME rw_wwwh # RW_WRITE_LOCK(t) PROVE Holds'
  <2>1. /\ pc' = [pc EXCEPT ![t] = "write_wakeup"]
        /\ pc[t] \notin Blocking /\ "write_wakeup" \notin Blocking
    BY <1>2, WordFacts, Zenon DEF Inv, Blocking, rw_write_exit, cmpxchg, Goto
  <2>2. BlockedSame
    BY <2>1, BlockedStay, Zenon DEF Inv
  <2>3. rw_wwwh' = rw_wwwh
    BY <1>2, WordFacts, Zenon DEF rw_write_exit, cmpxchg, Goto
  <2>4. /\ pc[t] \in ReadHeld <=> "write_wakeup" \in ReadHeld
        /\ pc[t] \in WriteHeld <=> "write_wakeup" \in WriteHeld
    BY <1>2, WordFacts, Zenon DEF ReadHeld, WriteHeld, rw_write_exit
  <2> QED BY <2>1, <2>2, <2>3, <2>4, SameWord, Zenon
<1>3. Holds'
  BY <1>1, <1>2, Zenon DEF rw_write_exit
<1>4. TypeOK'
  <2>1. rw_wwwh' \in Word
    BY WordFacts, CountedIsPositive, Zenon DEF Inv, TypeOK, rw_write_exit, cmpxchg, Goto
  <2>2. rw_wwwh'.waiters => Locked(rw_wwwh')
    BY RwLockAssumption, WordFacts, Zenon
       DEF Inv, TypeOK, Locked, WriteLocked, rw_write_exit, cmpxchg, Goto
  <2>3. eax' \in [Thread -> Word] /\ pc' \in [Thread -> PC]
    BY WordFacts, Zenon DEF Inv, TypeOK, PC, ReadHeld, WriteHeld, rw_write_exit, cmpxchg, Goto
  <2>4. kpri_req' \in [Thread -> 0 .. 1]
    BY Zenon DEF Inv, TypeOK, KpriBalanced, ReadHeld, rw_write_exit, cmpxchg, Goto
  <2> QED BY <2>1, <2>2, <2>3, <2>4 DEF TypeOK
<1>5. LoadedWord'
  BY Zenon DEF Inv, TypeOK, LoadedWord, read_claimed, rw_write_exit, cmpxchg, Goto
<1>6. KpriBalanced'
  BY RwLockAssumption
     DEF Inv, TypeOK, PC, ReadHeld, WriteHeld, OwnerIsWriter, KpriBalanced,
         WriteLocked, rw_write_exit, cmpxchg, Goto
<1> QED BY <1>3, <1>4, <1>5, <1>6 DEF Inv, Holds

\* The slow path of rw_enter() takes the lock.
LEMMA EnterSleepGets_Step ==
  ASSUME Inv, NEW t \in Thread, EnterSleepGets(t)
  PROVE  Inv'
<1>1. ASSUME pc[t] = "read_sleep" PROVE Holds'
  <2>1. /\ pc' = [pc EXCEPT ![t] = "reading"]
        /\ pc[t] \notin Blocking /\ "reading" \notin Blocking
    BY <1>1, Zenon DEF Inv, Blocking, EnterSleepGets, Goto
  <2>2. BlockedSame
    BY <2>1, BlockedStay, Zenon DEF Inv
  <2>3. /\ rw_wwwh.owner = NoThread /\ rw_wwwh'.owner = NoThread
        /\ rw_wwwh'.readers = rw_wwwh.readers + 1
        /\ Flags
    BY <1>1, RwLockAssumption, Zenon
       DEF Inv, TypeOK, Word, WriteClaimed, WriteLocked, Locked, Flags, AddReader,
           EnterSleepGets, Goto
  <2>4. pc[t] \notin ReadHeld \cup WriteHeld
    BY <1>1, Zenon DEF ReadHeld, WriteHeld, EnterSleepGets
  <2> QED BY <2>1, <2>2, <2>3, <2>4, JoinReaders, Zenon
<1>2. ASSUME pc[t] = "write_sleep" PROVE Holds'
  <2>1. /\ pc' = [pc EXCEPT ![t] = "writing"]
        /\ pc[t] \notin Blocking /\ "writing" \notin Blocking
    BY <1>2, Zenon DEF Inv, Blocking, EnterSleepGets, Goto
  <2>2. BlockedSame
    BY <2>1, BlockedStay, Zenon DEF Inv
  <2>3. /\ rw_wwwh.owner = NoThread /\ rw_wwwh'.owner = t
        /\ rw_wwwh.readers = 0 /\ rw_wwwh'.readers = 0
        /\ Flags
    BY <1>2, RwLockAssumption
       DEF Inv, TypeOK, Word, WriteClaimed, WriteLocked, Locked, Flags, EnterSleepGets,
           Goto
  <2>4. pc[t] \notin ReadHeld \cup WriteHeld
    BY <1>2, Zenon DEF ReadHeld, WriteHeld, EnterSleepGets
  <2> QED BY <2>1, <2>2, <2>3, <2>4, BecomeWriter, Zenon
<1>3. Holds'
  BY <1>1, <1>2, Zenon DEF EnterSleepGets
<1>4. TypeOK'
  BY <1>3, CountedIsPositive, RwLockAssumption
     DEF Inv, TypeOK, Word, PC, ReadHeld, WriteHeld, KpriBalanced, LoadedWord,
         WriteLocked, WriteClaimed, Locked, not_last_reader, AddReader, DropReader,
         Unheld, RW_WRITE_LOCK, EnterSleepGets, Goto
<1>5. LoadedWord'
  BY Zenon DEF Inv, TypeOK, LoadedWord, read_claimed, EnterSleepGets, Goto
<1>6. KpriBalanced'
  BY RwLockAssumption
     DEF Inv, TypeOK, PC, ReadHeld, WriteHeld, OwnerIsWriter, KpriBalanced,
         WriteLocked, EnterSleepGets, Goto
<1> QED BY <1>3, <1>4, <1>5, <1>6 DEF Inv, Holds

\* The slow path of rw_exit() drops the lock.
LEMMA ExitWakeupDrops_Step ==
  ASSUME Inv, NEW t \in Thread, ExitWakeupDrops(t)
  PROVE  Inv'
<1>1. ASSUME pc[t] = "read_wakeup" PROVE Holds'
  <2>1. /\ pc' = [pc EXCEPT ![t] = "out"]
        /\ pc[t] \notin Blocking /\ "out" \notin Blocking
    BY <1>1, Zenon DEF Inv, Blocking, ExitWakeupDrops, Goto, Dropped
  <2>2. BlockedSame
    BY <2>1, BlockedStay, Zenon DEF Inv
  <2>3. /\ rw_wwwh'.owner = rw_wwwh.owner /\ rw_wwwh'.readers = rw_wwwh.readers - 1
        /\ Flags
    BY <1>1, RwLockAssumption, Zenon
       DEF Inv, TypeOK, Word, Flags, DropReader, ExitWakeupDrops, Goto, Dropped
  <2>4. pc[t] \in ReadHeld
    BY <1>1, Zenon DEF ReadHeld, WriteHeld, ExitWakeupDrops
  <2> QED BY <2>1, <2>2, <2>3, <2>4, LeaveReaders, Zenon
<1>2. ASSUME pc[t] = "write_wakeup" PROVE Holds'
  <2>1. /\ pc' = [pc EXCEPT ![t] = "out"]
        /\ pc[t] \notin Blocking /\ "out" \notin Blocking
    BY <1>2, Zenon DEF Inv, Blocking, ExitWakeupDrops, Goto, Dropped
  <2>2. BlockedSame
    BY <2>1, BlockedStay, Zenon DEF Inv
  <2>3. /\ rw_wwwh'.owner = NoThread /\ rw_wwwh'.readers = rw_wwwh.readers
        /\ Flags
    BY <1>2, RwLockAssumption, Zenon
       DEF Inv, TypeOK, Word, Flags, ExitWakeupDrops, Goto, Dropped
  <2>4. pc[t] \in WriteHeld
    BY <1>2, Zenon DEF ReadHeld, WriteHeld, ExitWakeupDrops
  <2> QED BY <2>1, <2>2, <2>3, <2>4, LeaveWriter, Zenon
<1>3. Holds'
  BY <1>1, <1>2, Zenon DEF ExitWakeupDrops
<1>4. TypeOK'
  <2>1. rw_wwwh' \in Word
    BY CountedIsPositive, WordFacts
       DEF Inv, TypeOK, Word, DropReader, ReadHeld, ExitWakeupDrops, Goto, Dropped
  <2>2. rw_wwwh'.waiters => Locked(rw_wwwh')
    BY RwLockAssumption, WordFacts, Zenon
       DEF Inv, TypeOK, Locked, WriteLocked, Word, DropReader, ReadHeld,
           ExitWakeupDrops, Goto, Dropped
  <2>3. eax' \in [Thread -> Word] /\ pc' \in [Thread -> PC]
    BY WordFacts, Zenon
       DEF Inv, TypeOK, PC, ReadHeld, WriteHeld, ExitWakeupDrops, Goto, Dropped
  <2>4. kpri_req' \in [Thread -> 0 .. 1]
    BY
       DEF Inv, TypeOK, KpriBalanced, ReadHeld, ExitWakeupDrops, Goto, Dropped,
           WakeupKpri, KpriRelease
  <2> QED BY <2>1, <2>2, <2>3, <2>4 DEF TypeOK
<1>5. LoadedWord'
  BY Zenon
     DEF Inv, TypeOK, LoadedWord, read_claimed, ExitWakeupDrops, Goto, Dropped,
         WakeupKpri, KpriRelease
<1>6. KpriBalanced'
  BY RwLockAssumption
     DEF Inv, TypeOK, PC, ReadHeld, WriteHeld, OwnerIsWriter, KpriBalanced,
         WriteLocked, ExitWakeupDrops, Goto, Dropped, WakeupKpri, KpriRelease
<1> QED BY <1>3, <1>4, <1>5, <1>6 DEF Inv, Holds

\* A thread that blocks changes only the flags of a held word.
LEMMA BlocksWord ==
  ASSUME Inv, NEW t \in Thread, EnterSleepBlocks(t)
  PROVE  /\ rw_wwwh' \in Word /\ rw_wwwh'.waiters /\ Locked(rw_wwwh')
         /\ rw_wwwh'.owner = rw_wwwh.owner /\ rw_wwwh'.readers = rw_wwwh.readers
         /\ rw_wwwh'.wanted = (rw_wwwh.wanted \/ pc[t] = "write_sleep")
<1>1. CASE pc[t] = "read_sleep"
  BY <1>1, Zenon
     DEF Inv, TypeOK, WantedIsMeant, Word, Locked, WriteLocked, WriteClaimed, EnterSleepBlocks
<1>2. CASE pc[t] = "write_sleep"
  BY <1>2, Zenon DEF Inv, TypeOK, Word, Locked, WriteLocked, EnterSleepBlocks
<1> QED BY <1>1, <1>2, Zenon DEF EnterSleepBlocks

\* The slow path of rw_enter() flags the waiter and blocks.
LEMMA EnterSleepBlocks_Step ==
  ASSUME Inv, NEW t \in Thread, EnterSleepBlocks(t)
  PROVE  Inv'
<1>1. /\ pc[t] \in {"read_sleep", "write_sleep"}
      /\ pc' = [pc EXCEPT ![t] = IF pc[t] = "read_sleep" THEN "read_blocked"
                                                        ELSE "write_blocked"]
  BY Zenon DEF EnterSleepBlocks, Goto
<1>2. /\ rw_wwwh' \in Word /\ rw_wwwh'.waiters /\ Locked(rw_wwwh')
      /\ rw_wwwh'.owner = rw_wwwh.owner /\ rw_wwwh'.readers = rw_wwwh.readers
      /\ rw_wwwh'.wanted = (rw_wwwh.wanted \/ pc[t] = "write_sleep")
  BY BlocksWord, Zenon
<1>3. Readers' = Readers
  BY <1>1, Zenon DEF Inv, TypeOK, Readers, ReadHeld
<1>4. HoldCountIsExact'
  BY <1>2, <1>3, Zenon DEF Inv, HoldCountIsExact
<1>5. OwnerIsWriter'
  BY <1>1, <1>2, Zenon DEF Inv, TypeOK, OwnerIsWriter, WriteHeld
<1>6. WantedIsMeant'
  BY <1>1, <1>2, Zenon DEF Inv, TypeOK, WantedIsMeant, Blocked
<1>7. WaitersAreFlagged'
  BY <1>1, <1>2, Zenon DEF Inv, TypeOK, WaitersAreFlagged, Blocked
<1>8. TypeOK'
  BY <1>1, <1>2, Zenon DEF Inv, TypeOK, PC, EnterSleepBlocks
<1>9. LoadedWord' /\ KpriBalanced'
  BY <1>1, Zenon DEF Inv, TypeOK, LoadedWord, KpriBalanced, ReadHeld, EnterSleepBlocks
<1> QED BY <1>4, <1>5, <1>6, <1>7, <1>8, <1>9, Zenon DEF Inv

\* The slow path of rw_exit() hands the lock over: the releaser was the last
\* holder, so the new word counts exactly whom it wakes.
LEMMA ExitWakeupHandsOver_Step ==
  ASSUME Inv, NEW t \in Thread, ExitWakeupHandsOver(t)
  PROVE  Inv'
<1> DEFINE readers == Blocked("read_blocked")
           writers == Blocked("write_blocked")
<1>1. /\ pc[t] \in {"read_wakeup", "write_wakeup"}
      /\ ~Locked(Dropped(t)) /\ rw_wwwh.waiters
      /\ eax' = eax
      /\ kpri_req' = IF pc[t] = "read_wakeup" THEN [kpri_req EXCEPT ![t] = @ - 1]
                                              ELSE kpri_req
  BY Zenon DEF ExitWakeupHandsOver, WakeupKpri, KpriRelease
<1>2. \A u \in Thread \ {t} : pc[u] \notin ReadHeld \cup WriteHeld
  <2>1. CASE pc[t] = "read_wakeup"
    <3>1. rw_wwwh.owner = NoThread /\ rw_wwwh.readers = 1
      BY <1>1, <2>1, CountedIsPositive
         DEF Inv, TypeOK, Word, Locked, WriteLocked, Dropped, DropReader, ReadHeld
    <3>2. t \in Readers /\ Readers \subseteq Thread
      BY <2>1, Zenon DEF Readers, ReadHeld
    <3>3. Cardinality(Readers \ {t}) = Cardinality(Readers) - 1
      BY <3>2, CountRemove, Zenon
    <3>4. Cardinality(Readers) = 1
      BY <3>1, Zenon DEF Inv, HoldCountIsExact
    <3>5. Readers \ {t} = {}
      BY <3>2, <3>3, <3>4, Count
    <3> QED BY <3>1, <3>5, RwLockAssumption, Zenon DEF Inv, OwnerIsWriter, Readers
  <2>2. CASE pc[t] = "write_wakeup"
    <3>1. rw_wwwh.owner = t /\ rw_wwwh.readers = 0
      BY <2>2, RwLockAssumption, Zenon DEF Inv, OwnerIsWriter, WriteHeld
    <3>2. Readers = {}
      BY <3>1, Count, Zenon DEF Inv, HoldCountIsExact, Readers
    <3> QED BY <3>1, <3>2, Zenon DEF Inv, OwnerIsWriter, Readers
  <2> QED BY <1>1, <2>1, <2>2, Zenon
<1>3. readers \subseteq Thread /\ writers \subseteq Thread /\ t \notin readers \cup writers
  BY <1>1, Zenon DEF Blocked
<1>4. ASSUME readers # {},
             rw_wwwh' = Handoff(NoThread, Cardinality(readers), writers # {}, writers # {}),
             pc' = [u \in Thread |-> IF u \in readers THEN "reading"
                                      ELSE IF u = t THEN "out" ELSE pc[u]]
      PROVE  Inv'
  <2>1. Cardinality(readers) \in Nat /\ Cardinality(readers) # 0
    BY <1>3, <1>4, Count, Zenon
  <2>2. /\ rw_wwwh' \in Word /\ rw_wwwh'.owner = NoThread
        /\ rw_wwwh'.readers = Cardinality(readers)
        /\ rw_wwwh'.wanted = (writers # {}) /\ rw_wwwh'.waiters = (writers # {})
    BY <1>4, <2>1, Zenon DEF Handoff, Word
  <2>3. Readers' = readers
    BY <1>1, <1>2, <1>4, Zenon DEF Inv, TypeOK, Readers, ReadHeld, Blocked
  <2>4. readers' = {} /\ writers' = writers
    BY <1>1, <1>4, Zenon DEF Inv, TypeOK, Blocked
  <2>5. HoldCountIsExact'
    BY <2>2, <2>3, Zenon DEF HoldCountIsExact
  <2>6. OwnerIsWriter'
    BY <1>2, <1>4, <2>2, RwLockAssumption, Zenon DEF OwnerIsWriter, WriteHeld
  <2>7. WantedIsMeant' /\ WaitersAreFlagged'
    BY <2>2, <2>4, Zenon DEF WantedIsMeant, WaitersAreFlagged
  <2>8. TypeOK'
    BY <1>1, <1>4, <2>1, <2>2
       DEF Inv, TypeOK, PC, ReadHeld, Locked, KpriBalanced
  <2>9. LoadedWord' /\ KpriBalanced'
    BY <1>1, <1>4 DEF Inv, TypeOK, LoadedWord, KpriBalanced, ReadHeld, Blocked
  <2> QED BY <2>5, <2>6, <2>7, <2>8, <2>9, Zenon DEF Inv
<1>5. ASSUME NEW w \in writers,
             rw_wwwh' = Handoff(w, 0, writers # {w}, readers \cup writers # {w}),
             pc' = [pc EXCEPT ![w] = "writing", ![t] = "out"]
      PROVE  Inv'
  <2>1. /\ rw_wwwh' \in Word /\ rw_wwwh'.owner = w /\ rw_wwwh'.readers = 0
        /\ rw_wwwh'.wanted = (writers # {w})
        /\ rw_wwwh'.waiters = (readers \cup writers # {w})
    BY <1>3, <1>5, Zenon DEF Handoff, Word
  <2>2. w \in Thread /\ w # t /\ w \notin readers
    BY <1>3, <1>5, Zenon DEF Blocked
  <2>3. Readers' = {}
    BY <1>1, <1>2, <1>5, <2>2, Zenon DEF Inv, TypeOK, Readers, ReadHeld
  <2>4. readers' = readers /\ writers' = writers \ {w}
    BY <1>1, <1>5, <2>2, Zenon DEF Inv, TypeOK, Blocked
  <2>5. HoldCountIsExact'
    BY <2>1, <2>3, FS_EmptySet, Zenon DEF HoldCountIsExact
  <2>6. OwnerIsWriter'
    BY <1>2, <1>5, <2>1, <2>2, Zenon DEF Inv, TypeOK, OwnerIsWriter, WriteHeld
  <2>7. WantedIsMeant' /\ WaitersAreFlagged'
    BY <2>1, <2>2, <2>4, ZenonT(30) DEF WantedIsMeant, WaitersAreFlagged
  <2>8. TypeOK'
    BY <1>1, <1>5, <2>1, <2>2, RwLockAssumption
       DEF Inv, TypeOK, PC, ReadHeld, WriteHeld, Locked, WriteLocked, KpriBalanced
  <2>9. LoadedWord' /\ KpriBalanced'
    BY <1>1, <1>5, <2>2 DEF Inv, TypeOK, LoadedWord, KpriBalanced, ReadHeld, Blocked
  <2> QED BY <2>5, <2>6, <2>7, <2>8, <2>9, Zenon DEF Inv
<1> QED BY <1>4, <1>5, Zenon DEF ExitWakeupHandsOver

\* The invariant is inductive.
LEMMA NextPreserves == Inv /\ [Next]_vars => Inv'
<1> SUFFICES ASSUME Inv, [Next]_vars PROVE Inv'
  OBVIOUS
<1>1. CASE UNCHANGED vars
  BY <1>1, ZenonT(30)
     DEF vars, Inv, TypeOK, HoldCountIsExact, Readers, OwnerIsWriter, WantedIsMeant,
         LoadedWord, WaitersAreFlagged, KpriBalanced, Blocked
<1>2. ASSUME NEW t \in Thread, rw_enter_reader(t) \/ rw_enter_writer(t) \/ Step(t)
      PROVE  Inv'
  BY <1>2, rw_enter_reader_Step, rw_enter_writer_Step, rw_read_enter_Step, rw_exit_Step, Zenon,
     rw_read_exit_Step, rw_write_exit_Step, EnterSleepGets_Step, EnterSleepBlocks_Step,
     ExitWakeupDrops_Step, ExitWakeupHandsOver_Step
     DEF Step
<1> QED BY <1>1, <1>2, Zenon DEF Next

\* The invariant holds in every behaviour of the lock.
THEOREM InvHolds == Spec => []Inv
BY InitEstablishes, NextPreserves, PTL DEF Spec

\* The hold count of the lock word counts the readers exactly.
THEOREM CountIsExact == Spec => []HoldCountIsExact
<1>1. Inv => HoldCountIsExact
  BY Zenon DEF Inv
<1> QED BY <1>1, InvHolds, PTL

\* A writer excludes every reader and every other writer.
THEOREM WriterIsAlone == Spec => []WriterExcludes
<1>1. Inv => WriterExcludes
  <2> SUFFICES ASSUME Inv, NEW t \in Thread, pc[t] \in WriteHeld,
                      NEW u \in Thread \ {t}
               PROVE  pc[u] \notin ReadHeld \cup WriteHeld
    BY Zenon DEF WriterExcludes
  <2>1. rw_wwwh.owner = t /\ rw_wwwh.readers = 0
    BY RwLockAssumption, Zenon DEF Inv, OwnerIsWriter
  <2>2. pc[u] \notin WriteHeld
    BY <2>1, Zenon DEF Inv, OwnerIsWriter
  <2>3. pc[u] \notin ReadHeld
    BY <2>1, CountedIsPositive, Zenon
  <2> QED BY <2>2, <2>3, Zenon
<1> QED BY <1>1, InvHolds, PTL

\* Nobody sleeps unflagged, and the kernel priority requests balance.
THEOREM FlaggedAndBalanced == Spec => [](WaitersAreFlagged /\ KpriBalanced)
<1>1. Inv => WaitersAreFlagged /\ KpriBalanced
  BY Zenon DEF Inv
<1> QED BY <1>1, InvHolds, PTL

\* While readers hold a write-wanted lock, no step adds one.
LEMMA NobodyJoins ==
  ASSUME Inv, rw_wwwh.wanted, rw_wwwh.readers > 0, NEW t \in Thread,
         rw_enter_reader(t) \/ rw_enter_writer(t) \/ Step(t)
  PROVE  rw_wwwh'.readers <= rw_wwwh.readers
<1>1. rw_wwwh.readers \in Nat /\ rw_wwwh \in Word
  BY Zenon DEF Inv, TypeOK, Word
<1>2. CASE rw_wwwh' = rw_wwwh
  BY ONLY <1>1, <1>2
<1>3. CASE rw_read_enter(t)
  <2>1. rw_wwwh' = rw_wwwh
    BY <1>3, Zenon DEF Inv, LoadedWord, WriteClaimed, rw_read_enter, cmpxchg
  <2> QED BY <1>2, <2>1, Zenon
<1>4. CASE rw_enter_writer(t)
  BY <1>1, <1>4, WordFacts DEF rw_enter_writer, cmpxchg
<1>5. CASE rw_read_exit(t)
  BY <1>1, <1>5 DEF rw_read_exit, cmpxchg, DropReader, Word
<1>6. CASE rw_write_exit(t)
  BY <1>1, <1>6, WordFacts DEF rw_write_exit, cmpxchg
<1>7. CASE EnterSleepGets(t)
  BY <1>1, <1>7 DEF EnterSleepGets, WriteClaimed, Word
<1>8. CASE EnterSleepBlocks(t)
  BY <1>1, <1>8, BlocksWord
<1>9. CASE ExitWakeupDrops(t)
  BY <1>1, <1>9 DEF ExitWakeupDrops, Dropped, DropReader, Word
<1>10. CASE ExitWakeupHandsOver(t)
  <2>1. Blocked("write_blocked") # {} /\ pc[t] # "write_wakeup"
    <3>1. Blocked("write_blocked") # {}
      BY ZenonT(30) DEF Inv, WantedIsMeant
    <3> QED BY <1>1, <3>1, RwLockAssumption DEF Inv, OwnerIsWriter, WriteHeld
  <2>2. rw_wwwh'.readers = 0
    <3>1. \E w, writersLeft, anyLeft : rw_wwwh' = Handoff(w, 0, writersLeft, anyLeft)
      BY <1>10, <2>1, Zenon DEF ExitWakeupHandsOver
    <3> QED BY ONLY <3>1 DEF Handoff
  <2> QED BY <1>1, <2>2
<1> QED
  BY <1>2, <1>3, <1>4, <1>5, <1>6, <1>7, <1>8, <1>9, <1>10, Zenon
     DEF Step, rw_enter_reader, rw_exit

\* Readers do not overtake a writer that waits for them to leave.
THEOREM ReadersDoNotOvertake == Spec => NoOvertaking
<1>1. Inv /\ [Next]_vars
        => [rw_wwwh.wanted /\ rw_wwwh.readers > 0
              => rw_wwwh'.readers <= rw_wwwh.readers]_vars
  BY NobodyJoins, Zenon DEF Next
<1> QED BY <1>1, InvHolds, PTL DEF Spec, NoOvertaking
=============================================================================
