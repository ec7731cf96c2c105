---------------------------- MODULE ObjectProofs ----------------------------
(***************************************************************************)
(* Objects that outlive their users, for any number of threads: the        *)
(* reference counts of the header macros (RefCount), those of the entries  *)
(* of a hash bucket that others walk (IreRef), and the daemons that a      *)
(* checkpoint stops (Callb).                                               *)
(***************************************************************************)
EXTENDS RefCount, IreRef, Callb, TLAPS, FiniteSetTheorems

-----------------------------------------------------------------------------
(* RefCount: the references to one object.                                 *)

\* The references that threads have, each as a thread and a number.
RefsOf(f) == {r \in RefThread \X (1 .. MaxRefs) : r[2] <= f[r[1]]}

\* How many references each thread has.
RefNumbers == [RefThread -> 0 .. MaxRefs]

\* There are finitely many references, and none exactly when no thread has one.
LEMMA RefsFinite ==
  ASSUME NEW f \in RefNumbers
  PROVE  /\ IsFiniteSet(RefsOf(f)) /\ Cardinality(RefsOf(f)) \in Nat
         /\ Cardinality(RefsOf(f)) = 0 <=> \A t \in RefThread : f[t] = 0
<1>1. IsFiniteSet(RefThread \X (1 .. MaxRefs))
  <2>1. IsFiniteSet(1 .. MaxRefs)
    BY RefCountAssumption, FS_Interval
  <2> QED BY <2>1, RefCountAssumption, FS_Product, Zenon
<1>2. IsFiniteSet(RefsOf(f)) /\ Cardinality(RefsOf(f)) \in Nat
  BY <1>1, FS_Subset, FS_CardinalityType, Zenon DEF RefsOf
<1>3. Cardinality(RefsOf(f)) = 0 <=> RefsOf(f) = {}
  BY <1>2, FS_EmptySet, Zenon
<1>4. ASSUME RefsOf(f) = {}, NEW t \in RefThread
      PROVE  f[t] = 0
  <2>1. <<t, 1>> \in RefThread \X (1 .. MaxRefs) /\ f[t] \in 0 .. MaxRefs
    BY RefCountAssumption DEF RefNumbers
  <2>2. ~(1 <= f[t])
    BY <1>4, <2>1 DEF RefsOf
  <2> QED BY <2>1, <2>2
<1>5. ASSUME \A t \in RefThread : f[t] = 0
      PROVE  RefsOf(f) = {}
  BY <1>5, RefCountAssumption DEF RefsOf
<1> QED BY <1>2, <1>3, <1>4, <1>5, Zenon

\* A thread has one reference more.
LEMMA RefsGained ==
  ASSUME NEW f \in RefNumbers, NEW t \in RefThread, f[t] < MaxRefs
  PROVE  /\ [f EXCEPT ![t] = @ + 1] \in RefNumbers
         /\ Cardinality(RefsOf([f EXCEPT ![t] = @ + 1])) = Cardinality(RefsOf(f)) + 1
<1> DEFINE g == [f EXCEPT ![t] = @ + 1]
           r == <<t, f[t] + 1>>
<1>1. f[t] \in 0 .. MaxRefs /\ f[t] + 1 \in 1 .. MaxRefs /\ MaxRefs \in Nat
  BY RefCountAssumption DEF RefNumbers
<1>2. g \in RefNumbers /\ g[t] = f[t] + 1 /\ \A u \in RefThread \ {t} : g[u] = f[u]
  BY <1>1 DEF RefNumbers
<1>3. r \notin RefsOf(f)
  BY <1>1 DEF RefsOf
<1>4. RefsOf(g) = RefsOf(f) \cup {r}
  <2> HIDE DEF g
  <2> QED BY <1>1, <1>2 DEF RefsOf
<1> QED BY <1>2, <1>3, <1>4, RefsFinite, FS_AddElement, ZenonT(30)

\* A thread has one reference less.
LEMMA RefsDropped ==
  ASSUME NEW f \in RefNumbers, NEW t \in RefThread, f[t] > 0
  PROVE  /\ [f EXCEPT ![t] = @ - 1] \in RefNumbers
         /\ Cardinality(RefsOf([f EXCEPT ![t] = @ - 1])) = Cardinality(RefsOf(f)) - 1
<1> DEFINE g == [f EXCEPT ![t] = @ - 1]
           r == <<t, f[t]>>
<1>1. f[t] \in 1 .. MaxRefs /\ f[t] - 1 \in 0 .. MaxRefs /\ MaxRefs \in Nat
  BY RefCountAssumption DEF RefNumbers
<1>2. g \in RefNumbers /\ g[t] = f[t] - 1 /\ \A u \in RefThread \ {t} : g[u] = f[u]
  BY <1>1, Zenon DEF RefNumbers
<1>3. r \in RefsOf(f)
  BY <1>1 DEF RefsOf
<1>4. RefsOf(g) = RefsOf(f) \ {r}
  <2> HIDE DEF g
  <2> QED BY <1>1, <1>2 DEF RefsOf
<1> QED BY <1>2, <1>3, <1>4, RefsFinite, FS_RemoveElement, ZenonT(30)

\* The reference of the hash table.
TableRefs(present) == IF present THEN 1 ELSE 0

\* The types, and the one thread that removes the object from the table.
RefTypeOK ==
  /\ ref_kind \in {"conn", "nce", "ippol", "path"}
  /\ ref_table \in BOOLEAN /\ signalled \in BOOLEAN
  /\ refs \in RefNumbers /\ refcnt \in Nat /\ frees \in {0, 1}
  /\ ref_pc \in [RefThread -> {"out", "lookup", "hold", "rele", "dec", "exit", "drain", "wait", "destroy"}]
  /\ ref_lock = {} \/ \E t \in RefThread : ref_lock = {t}
  /\ remover = {} \/ \E t \in RefThread : remover = {t}
  /\ ref_table <=> remover = {}

\* The count is that of the references, the table's included.
CountIsExact == refcnt = Cardinality(RefsOf(refs)) + TableRefs(ref_table)

\* What holds where a thread is.
RefPlace(t) ==
  /\ ref_pc[t] = "lookup" => ref_table
  /\ ref_pc[t] \in {"lookup", "hold"} => refs[t] < MaxRefs
  /\ ref_pc[t] \in {"hold", "rele", "dec"} => refs[t] > 0
  /\ ref_pc[t] \in {"dec", "exit"} => ref_kind # "ippol" /\ ref_lock = {t}
  /\ ref_pc[t] \in {"drain", "wait"} => ref_kind = "path" /\ remover = {t}
  /\ ref_pc[t] = "wait" /\ refcnt = 0 => signalled
  /\ ref_pc[t] = "destroy" =>
       /\ refcnt = 0 /\ frees = 0 /\ (ref_lock = {} \/ ref_lock = {t})
       /\ ref_kind = "path" => remover = {t}
       /\ \A u \in RefThread \ {t} : ref_pc[u] = "out"
  /\ ref_lock = {t} => ref_pc[t] \in {"dec", "exit", "destroy"}
  /\ ref_kind = "path" /\ remover = {t} /\ frees = 0 =>
       ref_pc[t] \in {"rele", "dec", "exit", "drain", "wait", "destroy"}

\* The thread that drops the last reference frees the object, except for a path.
LastFrees ==
  ref_kind # "path" /\ refcnt = 0 /\ frees = 0 => \E t \in RefThread : ref_pc[t] = "destroy"

\* The inductive invariant: the count is exact, every thread has the references
\* that its place in the macros needs, and the thread that dropped the last one
\* is the only one that frees.
RefInv ==
  /\ RefTypeOK /\ CountIsExact /\ NotFreedInUse /\ LastFrees
  /\ \A t \in RefThread : RefPlace(t)

\* The table has the only reference.
LEMMA RefInitial == RefInit => RefInv
<1> SUFFICES ASSUME RefInit PROVE RefInv
  BY Zenon
<1>1. refs \in RefNumbers /\ \A t \in RefThread : refs[t] = 0
  BY RefCountAssumption DEF RefInit, RefNumbers
<1>2. CountIsExact
  BY <1>1, RefsFinite DEF RefInit, CountIsExact, TableRefs
<1>3. RefTypeOK
  BY <1>1, Zenon DEF RefInit, RefTypeOK
<1>4. \A t \in RefThread : RefPlace(t)
  BY Zenon DEF RefInit, RefPlace
<1> QED BY <1>2, <1>3, <1>4 DEF RefInit, RefInv, NotFreedInUse, LastFrees

\* Without references nobody has the object, nor can find it.
LEMMA NoReferences ==
  ASSUME NEW f \in RefNumbers, NEW n \in Nat, NEW present \in BOOLEAN,
         n = Cardinality(RefsOf(f)) + TableRefs(present)
  PROVE  n = 0 <=> ~present /\ \A t \in RefThread : f[t] = 0
BY RefsFinite DEF TableRefs

\* A reference more, or the table's becoming a thread's; and one less.
LEMMA RefGains ==
  ASSUME RefTypeOK, CountIsExact, NEW t \in RefThread, refs[t] < MaxRefs,
         refs' = [refs EXCEPT ![t] = @ + 1],
         \/ refcnt' = refcnt + 1 /\ ref_table' = ref_table
         \/ refcnt' = refcnt /\ ref_table /\ ref_table' = FALSE
  PROVE  /\ refs' \in RefNumbers /\ CountIsExact' /\ refcnt' \in Nat /\ refcnt' # 0
         /\ refs'[t] = refs[t] + 1 /\ \A u \in RefThread \ {t} : refs'[u] = refs[u]
<1>1. refs' \in RefNumbers /\ Cardinality(RefsOf(refs')) = Cardinality(RefsOf(refs)) + 1
  BY RefsGained, Zenon DEF RefTypeOK
<1>2. refs'[t] = refs[t] + 1 /\ \A u \in RefThread \ {t} : refs'[u] = refs[u]
  BY Zenon DEF RefTypeOK, RefNumbers
<1>3. Cardinality(RefsOf(refs)) \in Nat
  BY RefsFinite, Zenon DEF RefTypeOK
<1> QED BY <1>1, <1>2, <1>3 DEF RefTypeOK, CountIsExact, TableRefs

\* A release: the count reaches 0 with the last reference.
LEMMA RefDrops ==
  ASSUME RefTypeOK, CountIsExact, NEW t \in RefThread, refs[t] > 0,
         refs' = [refs EXCEPT ![t] = @ - 1], refcnt' = refcnt - 1, ref_table' = ref_table
  PROVE  /\ refs' \in RefNumbers /\ CountIsExact' /\ refcnt \in Nat \ {0}
         /\ refs'[t] = refs[t] - 1 /\ \A u \in RefThread \ {t} : refs'[u] = refs[u]
         /\ refcnt' = 0 => ~ref_table' /\ \A u \in RefThread : refs'[u] = 0
<1>1. refs' \in RefNumbers /\ Cardinality(RefsOf(refs')) = Cardinality(RefsOf(refs)) - 1
  BY RefsDropped, Zenon DEF RefTypeOK
<1>2. refs'[t] = refs[t] - 1 /\ \A u \in RefThread \ {t} : refs'[u] = refs[u]
  BY Zenon DEF RefTypeOK, RefNumbers
<1>3. Cardinality(RefsOf(refs)) \in Nat /\ Cardinality(RefsOf(refs')) \in Nat
  BY <1>1, RefsFinite, Zenon DEF RefTypeOK
<1>4. CountIsExact' /\ refcnt \in Nat \ {0} /\ refcnt' \in Nat
  BY <1>1, <1>3 DEF RefTypeOK, CountIsExact, TableRefs
<1>5. refcnt' = 0 => ~ref_table' /\ \A u \in RefThread : refs'[u] = 0
  BY <1>1, <1>4, NoReferences, Zenon DEF RefTypeOK, CountIsExact
<1> QED BY <1>1, <1>2, <1>4, <1>5, Zenon

\* Every step of the reference macros keeps the invariant.
LEMMA RefStep == RefInv /\ [RefNext]_refVars => RefInv'
<1> SUFFICES ASSUME RefInv, [RefNext]_refVars
             PROVE  RefInv'
  BY Zenon
<1> USE RefCountAssumption
<1>0. /\ RefTypeOK /\ CountIsExact /\ NotFreedInUse /\ LastFrees
      /\ \A t \in RefThread : RefPlace(t) /\ refs[t] \in 0 .. MaxRefs
      /\ refcnt = 0 <=> ~ref_table /\ \A t \in RefThread : refs[t] = 0
      /\ \/ frees = 0
         \/ frees = 1 /\ ~ref_table /\ \A t \in RefThread : refs[t] = 0 /\ ref_pc[t] = "out"
  BY NoReferences DEF RefInv, RefTypeOK, CountIsExact, RefNumbers, NotFreedInUse
<1>1. ASSUME NEW t \in RefThread, BeginLookup(t)
      PROVE  RefInv'
  <2>1. /\ ref_pc[t] = "out" /\ ref_pc'[t] = "lookup"
        /\ \A u \in RefThread \ {t} : ref_pc'[u] = ref_pc[u]
        /\ frees = 0
    BY <1>0, <1>1, Zenon DEF BeginLookup, RefGoto, RefTypeOK
  <2>2. RefTypeOK' /\ CountIsExact'
    BY <1>0, <1>1, Zenon DEF BeginLookup, RefGoto, RefTypeOK, CountIsExact
  <2>3. RefPlace(t)'
    BY <1>0, <1>1, <2>1, Zenon DEF BeginLookup, RefTypeOK, RefPlace
  <2>4. ASSUME NEW u \in RefThread \ {t}
        PROVE  RefPlace(u)'
    BY <1>0, <1>1, <2>1, Zenon DEF BeginLookup, RefTypeOK, RefPlace
  <2>5. LastFrees' /\ NotFreedInUse'
    BY <1>0, <1>1, <2>1, Zenon DEF BeginLookup, LastFrees, NotFreedInUse
  <2> QED BY <2>2, <2>3, <2>4, <2>5, Zenon DEF RefInv
<1>2. ASSUME NEW t \in RefThread, BeginHold(t)
      PROVE  RefInv'
  <2>1. /\ ref_pc[t] = "out" /\ ref_pc'[t] = "hold"
        /\ \A u \in RefThread \ {t} : ref_pc'[u] = ref_pc[u]
        /\ frees = 0
    BY <1>0, <1>2 DEF BeginHold, RefGoto, RefTypeOK
  <2>2. RefTypeOK' /\ CountIsExact'
    BY <1>0, <1>2, Zenon DEF BeginHold, RefGoto, RefTypeOK, CountIsExact
  <2>3. RefPlace(t)'
    BY <1>0, <1>2, <2>1 DEF BeginHold, RefTypeOK, RefPlace
  <2>4. ASSUME NEW u \in RefThread \ {t}
        PROVE  RefPlace(u)'
    BY <1>0, <1>2, <2>1 DEF BeginHold, RefTypeOK, RefPlace
  <2>5. LastFrees' /\ NotFreedInUse'
    BY <1>0, <1>2, <2>1 DEF BeginHold, LastFrees, NotFreedInUse
  <2> QED BY <2>2, <2>3, <2>4, <2>5, ZenonT(60) DEF RefInv
<1>3. ASSUME NEW t \in RefThread, BeginRele(t)
      PROVE  RefInv'
  <2>1. /\ ref_pc[t] = "out" /\ ref_pc'[t] = "rele"
        /\ \A u \in RefThread \ {t} : ref_pc'[u] = ref_pc[u]
        /\ frees = 0
    BY <1>0, <1>3 DEF BeginRele, RefGoto, RefTypeOK
  <2>2. RefTypeOK' /\ CountIsExact'
    BY <1>0, <1>3, Zenon DEF BeginRele, RefGoto, RefTypeOK, CountIsExact
  <2>3. RefPlace(t)'
    BY <1>0, <1>3, <2>1, Zenon DEF BeginRele, RefTypeOK, RefPlace
  <2>4. ASSUME NEW u \in RefThread \ {t}
        PROVE  RefPlace(u)'
    BY <1>0, <1>3, <2>1 DEF BeginRele, RefTypeOK, RefPlace
  <2>5. LastFrees' /\ NotFreedInUse'
    BY <1>0, <1>3, <2>1 DEF BeginRele, LastFrees, NotFreedInUse
  <2> QED BY <2>2, <2>3, <2>4, <2>5 DEF RefInv
<1>4. ASSUME NEW t \in RefThread, ReleEnter(t)
      PROVE  RefInv'
  <2>1. /\ ref_pc[t] = "rele" /\ ref_pc'[t] = "dec"
        /\ \A u \in RefThread \ {t} : ref_pc'[u] = ref_pc[u]
        /\ frees = 0
    BY <1>0, <1>4, Zenon DEF ReleEnter, RefGoto, RefTypeOK
  <2>2. RefTypeOK' /\ CountIsExact'
    BY <1>0, <1>4, Zenon DEF ReleEnter, RefGoto, RefTypeOK, CountIsExact
  <2>3. RefPlace(t)'
    BY <1>0, <1>4, <2>1, Zenon DEF ReleEnter, RefTypeOK, RefPlace
  <2>4. ASSUME NEW u \in RefThread \ {t}
        PROVE  RefPlace(u)'
    BY <1>0, <1>4, <2>1 DEF ReleEnter, RefTypeOK, RefPlace
  <2>5. LastFrees' /\ NotFreedInUse'
    BY <1>0, <1>4, <2>1, Zenon DEF ReleEnter, LastFrees, NotFreedInUse
  <2> QED BY <2>2, <2>3, <2>4, <2>5 DEF RefInv
<1>5. ASSUME NEW t \in RefThread, ReleExit(t)
      PROVE  RefInv'
  <2>1. /\ ref_pc[t] = "exit" /\ ref_pc'[t] = (IF ref_kind = "path" /\ t \in remover THEN "drain" ELSE "out")
        /\ \A u \in RefThread \ {t} : ref_pc'[u] = ref_pc[u]
        /\ frees = 0
    BY <1>0, <1>5, Zenon DEF ReleExit, RefGoto, RefTypeOK
  <2>2. RefTypeOK' /\ CountIsExact'
    BY <1>0, <1>5, Zenon DEF ReleExit, RefGoto, RefTypeOK, CountIsExact
  <2>3. RefPlace(t)'
    BY <1>0, <1>5, <2>1, Zenon DEF ReleExit, RefTypeOK, RefPlace
  <2>4. ASSUME NEW u \in RefThread \ {t}
        PROVE  RefPlace(u)'
    BY <1>0, <1>5, <2>1 DEF ReleExit, RefTypeOK, RefPlace
  <2>5. LastFrees' /\ NotFreedInUse'
    BY <1>0, <1>5, <2>1, Zenon DEF ReleExit, LastFrees, NotFreedInUse
  <2> QED BY <2>2, <2>3, <2>4, <2>5 DEF RefInv
<1>6. ASSUME NEW t \in RefThread, DrainCount(t)
      PROVE  RefInv'
  <2>1. /\ ref_pc[t] = "drain" /\ ref_pc'[t] = (IF refcnt = 0 THEN "destroy" ELSE "wait")
        /\ \A u \in RefThread \ {t} : ref_pc'[u] = ref_pc[u]
        /\ frees = 0
    BY <1>0, <1>6, Zenon DEF DrainCount, RefGoto, RefTypeOK
  <2>2. RefTypeOK' /\ CountIsExact'
    BY <1>0, <1>6, Zenon DEF DrainCount, RefGoto, RefTypeOK, CountIsExact
  <2>3. RefPlace(t)'
    BY <1>0, <1>6, <2>1 DEF DrainCount, RefTypeOK, RefPlace
  <2>4. ASSUME NEW u \in RefThread \ {t}
        PROVE  RefPlace(u)'
    BY <1>0, <1>6, <2>1, Zenon DEF DrainCount, RefTypeOK, RefPlace
  <2>5. LastFrees' /\ NotFreedInUse'
    BY <1>0, <1>6, <2>1, Zenon DEF DrainCount, LastFrees, NotFreedInUse
  <2> QED BY <2>2, <2>3, <2>4, <2>5 DEF RefInv
<1>7. ASSUME NEW t \in RefThread, DrainWakes(t)
      PROVE  RefInv'
  <2>1. /\ ref_pc[t] = "wait" /\ ref_pc'[t] = "drain"
        /\ \A u \in RefThread \ {t} : ref_pc'[u] = ref_pc[u]
        /\ frees = 0
    BY <1>0, <1>7, Zenon DEF DrainWakes, RefGoto, RefTypeOK
  <2>2. RefTypeOK' /\ CountIsExact'
    BY <1>0, <1>7, Zenon DEF DrainWakes, RefGoto, RefTypeOK, CountIsExact
  <2>3. RefPlace(t)'
    BY <1>0, <1>7, <2>1, Zenon DEF DrainWakes, RefTypeOK, RefPlace
  <2>4. ASSUME NEW u \in RefThread \ {t}
        PROVE  RefPlace(u)'
    BY <1>0, <1>7, <2>1, Zenon DEF DrainWakes, RefTypeOK, RefPlace
  <2>5. LastFrees' /\ NotFreedInUse'
    BY <1>0, <1>7, <2>1, Zenon DEF DrainWakes, LastFrees, NotFreedInUse
  <2> QED BY <2>2, <2>3, <2>4, <2>5 DEF RefInv
<1>8. ASSUME NEW t \in RefThread, CONN_INC_REF(t)
      PROVE  RefInv'
  <2>1. /\ ref_pc[t] \in {"lookup", "hold"} /\ ref_pc'[t] = "out"
        /\ \A u \in RefThread \ {t} : ref_pc'[u] = ref_pc[u]
        /\ frees = 0
    BY <1>0, <1>8, Zenon DEF CONN_INC_REF, RefGoto, RefTypeOK
  <2>2. refs[t] < MaxRefs /\ refcnt # 0
    BY <1>0, <2>1 DEF RefPlace
  <2>3. /\ refs' \in RefNumbers /\ CountIsExact' /\ refcnt' \in Nat /\ refcnt' # 0
        /\ refs'[t] = refs[t] + 1 /\ \A u \in RefThread \ {t} : refs'[u] = refs[u]
    BY <1>0, <1>8, <2>2, RefGains, Zenon DEF CONN_INC_REF
  <2>4. RefTypeOK'
    BY <1>0, <1>8, <2>3, Zenon DEF CONN_INC_REF, RefTypeOK
  <2>5. RefPlace(t)'
    BY <1>0, <1>8, <2>1, <2>3, Zenon DEF CONN_INC_REF, RefTypeOK, RefPlace
  <2>6. ASSUME NEW u \in RefThread \ {t}
        PROVE  RefPlace(u)'
    BY <1>0, <1>8, <2>1, <2>2, <2>3 DEF CONN_INC_REF, RefTypeOK, RefPlace
  <2>7. LastFrees' /\ NotFreedInUse'
    BY <1>0, <1>8, <2>1, <2>3, Zenon DEF CONN_INC_REF, LastFrees, NotFreedInUse
  <2> QED BY <2>3, <2>4, <2>5, <2>6, <2>7, Zenon DEF RefInv
<1>9. ASSUME NEW t \in RefThread, IPPOL_REFHOLD(t)
      PROVE  RefInv'
  <2>1. /\ ref_pc[t] \in {"lookup", "hold"} /\ ref_pc'[t] = "out"
        /\ \A u \in RefThread \ {t} : ref_pc'[u] = ref_pc[u]
        /\ frees = 0
    BY <1>0, <1>9, Zenon DEF IPPOL_REFHOLD, RefGoto, RefTypeOK
  <2>2. refs[t] < MaxRefs /\ refcnt # 0
    BY <1>0, <2>1 DEF RefPlace
  <2>3. /\ refs' \in RefNumbers /\ CountIsExact' /\ refcnt' \in Nat /\ refcnt' # 0
        /\ refs'[t] = refs[t] + 1 /\ \A u \in RefThread \ {t} : refs'[u] = refs[u]
    BY <1>0, <1>9, <2>2, RefGains, Zenon DEF IPPOL_REFHOLD
  <2>4. RefTypeOK'
    BY <1>0, <1>9, <2>3, Zenon DEF IPPOL_REFHOLD, RefTypeOK
  <2>5. RefPlace(t)'
    BY <1>0, <1>9, <2>1, <2>3, Zenon DEF IPPOL_REFHOLD, RefTypeOK, RefPlace
  <2>6. ASSUME NEW u \in RefThread \ {t}
        PROVE  RefPlace(u)'
    BY <1>0, <1>9, <2>1, <2>2, <2>3, Zenon DEF IPPOL_REFHOLD, RefTypeOK, RefPlace
  <2>7. LastFrees' /\ NotFreedInUse'
    BY <1>0, <1>9, <2>1, <2>3, Zenon DEF IPPOL_REFHOLD, LastFrees, NotFreedInUse
  <2> QED BY <2>3, <2>4, <2>5, <2>6, <2>7 DEF RefInv
<1>10. ASSUME NEW t \in RefThread, CONN_DEC_REF(t)
      PROVE  RefInv'
  <2>1. /\ ref_pc[t] = "dec" /\ ref_pc'[t] = (IF refcnt = 1 THEN "destroy" ELSE "exit")
        /\ \A u \in RefThread \ {t} : ref_pc'[u] = ref_pc[u]
        /\ frees = 0
    BY <1>0, <1>10, Zenon DEF CONN_DEC_REF, RefGoto, RefTypeOK
  <2>2. refs[t] > 0
    BY <1>0, <2>1, Zenon DEF RefPlace
  <2>3. /\ refs' \in RefNumbers /\ CountIsExact' /\ refcnt \in Nat \ {0} /\ refcnt' = refcnt - 1
        /\ refs'[t] = refs[t] - 1 /\ \A u \in RefThread \ {t} : refs'[u] = refs[u]
        /\ refcnt' = 0 => ~ref_table' /\ \A u \in RefThread : refs'[u] = 0
    BY <1>0, <1>10, <2>2, RefDrops, Zenon DEF CONN_DEC_REF, Decrement
  <2>4. RefTypeOK'
    BY <1>0, <1>10, <2>3 DEF CONN_DEC_REF, RefGoto, RefTypeOK
  <2>5. ASSUME refcnt' = 0, NEW u \in RefThread \ {t}
        PROVE  ref_pc[u] \in {"out", "drain", "wait"}
    <3>1. refs[u] = 0 /\ ~ref_table /\ refcnt # 0
      BY <1>10, <2>3, <2>5, Zenon DEF CONN_DEC_REF
    <3>2. RefPlace(t) /\ RefPlace(u) /\ t # u
      BY <1>0, Zenon
    <3>3. ref_kind = "conn" /\ ref_pc[u] \in {"out", "lookup", "hold", "rele", "dec", "exit", "drain", "wait", "destroy"}
      BY <1>0, <1>10, <2>5, Zenon DEF RefTypeOK, CONN_DEC_REF
    <3> QED BY ONLY <2>1, <3>1, <3>2, <3>3 DEF RefPlace
  <2>6. RefPlace(t)'
    BY <1>0, <1>10, <2>1, <2>2, <2>3, <2>5 DEF CONN_DEC_REF, RefTypeOK, RefPlace
  <2>7. ASSUME NEW u \in RefThread \ {t}
        PROVE  RefPlace(u)'
    BY <1>0, <1>10, <2>1, <2>3, <2>5, ZenonT(60) DEF CONN_DEC_REF, RefTypeOK, RefPlace
  <2>8. LastFrees' /\ NotFreedInUse'
    BY <1>0, <1>10, <2>1, <2>3 DEF CONN_DEC_REF, LastFrees, NotFreedInUse
  <2> QED BY <2>3, <2>4, <2>6, <2>7, <2>8, Zenon DEF RefInv
<1>11. ASSUME NEW t \in RefThread, NCE_REFRELE(t)
      PROVE  RefInv'
  <2>1. /\ ref_pc[t] = "dec" /\ ref_pc'[t] = (IF refcnt = 1 THEN "destroy" ELSE "exit")
        /\ \A u \in RefThread \ {t} : ref_pc'[u] = ref_pc[u]
        /\ frees = 0
    BY <1>0, <1>11, Zenon DEF NCE_REFRELE, RefGoto, RefTypeOK
  <2>2. refs[t] > 0
    BY <1>0, <2>1 DEF RefPlace
  <2>3. /\ refs' \in RefNumbers /\ CountIsExact' /\ refcnt \in Nat \ {0} /\ refcnt' = refcnt - 1
        /\ refs'[t] = refs[t] - 1 /\ \A u \in RefThread \ {t} : refs'[u] = refs[u]
        /\ refcnt' = 0 => ~ref_table' /\ \A u \in RefThread : refs'[u] = 0
    BY <1>0, <1>11, <2>2, RefDrops, Zenon DEF NCE_REFRELE, Decrement
  <2>4. RefTypeOK'
    BY <1>0, <1>11, <2>3 DEF NCE_REFRELE, RefGoto, RefTypeOK
  <2>5. ASSUME refcnt' = 0, NEW u \in RefThread \ {t}
        PROVE  ref_pc[u] \in {"out", "drain", "wait"}
    <3>1. refs[u] = 0 /\ ~ref_table /\ refcnt # 0
      BY <1>11, <2>3, <2>5, Zenon DEF NCE_REFRELE
    <3>2. RefPlace(t) /\ RefPlace(u) /\ t # u
      BY <1>0, ZenonT(60)
    <3>3. ref_kind = "nce" /\ ref_pc[u] \in {"out", "lookup", "hold", "rele", "dec", "exit", "drain", "wait", "destroy"}
      BY <1>0, <1>11, <2>5, Zenon DEF RefTypeOK, NCE_REFRELE
    <3> QED BY ONLY <2>1, <3>1, <3>2, <3>3 DEF RefPlace
  <2>6. RefPlace(t)'
    BY <1>0, <1>11, <2>1, <2>2, <2>3, <2>5 DEF NCE_REFRELE, RefTypeOK, RefPlace
  <2>7. ASSUME NEW u \in RefThread \ {t}
        PROVE  RefPlace(u)'
    BY <1>0, <1>11, <2>1, <2>3, <2>5, Zenon DEF NCE_REFRELE, RefTypeOK, RefPlace
  <2>8. LastFrees' /\ NotFreedInUse'
    BY <1>0, <1>11, <2>1, <2>3 DEF NCE_REFRELE, LastFrees, NotFreedInUse
  <2> QED BY <2>3, <2>4, <2>6, <2>7, <2>8, ZenonT(60) DEF RefInv
<1>12. ASSUME NEW t \in RefThread, IPPOL_REFRELE(t)
      PROVE  RefInv'
  <2>1. /\ ref_pc[t] = "rele" /\ ref_pc'[t] = (IF refcnt = 1 THEN "destroy" ELSE "out")
        /\ \A u \in RefThread \ {t} : ref_pc'[u] = ref_pc[u]
        /\ frees = 0
    BY <1>0, <1>12, Zenon DEF IPPOL_REFRELE, RefGoto, RefTypeOK
  <2>2. refs[t] > 0
    BY <1>0, <2>1, Zenon DEF RefPlace
  <2>3. /\ refs' \in RefNumbers /\ CountIsExact' /\ refcnt \in Nat \ {0} /\ refcnt' = refcnt - 1
        /\ refs'[t] = refs[t] - 1 /\ \A u \in RefThread \ {t} : refs'[u] = refs[u]
        /\ refcnt' = 0 => ~ref_table' /\ \A u \in RefThread : refs'[u] = 0
    BY <1>0, <1>12, <2>2, RefDrops, Zenon DEF IPPOL_REFRELE, Decrement
  <2>4. RefTypeOK'
    BY <1>0, <1>12, <2>3 DEF IPPOL_REFRELE, RefGoto, RefTypeOK
  <2>5. ASSUME refcnt' = 0, NEW u \in RefThread \ {t}
        PROVE  ref_pc[u] \in {"out", "drain", "wait"}
    <3>1. refs[u] = 0 /\ ~ref_table /\ refcnt # 0
      BY <1>12, <2>3, <2>5, ZenonT(30) DEF IPPOL_REFRELE
    <3>2. RefPlace(t) /\ RefPlace(u) /\ t # u
      BY <1>0
    <3>3. ref_kind = "ippol" /\ ref_pc[u] \in {"out", "lookup", "hold", "rele", "dec", "exit", "drain", "wait", "destroy"}
      BY <1>0, <1>12, <2>5, Zenon DEF RefTypeOK, IPPOL_REFRELE
    <3> QED BY ONLY <2>1, <3>1, <3>2, <3>3 DEF RefPlace
  <2>6. RefPlace(t)'
    BY <1>0, <1>12, <2>1, <2>2, <2>3, <2>5 DEF IPPOL_REFRELE, RefTypeOK, RefPlace
  <2>7. ASSUME NEW u \in RefThread \ {t}
        PROVE  RefPlace(u)'
    BY <1>0, <1>12, <2>1, <2>3, <2>5, Zenon DEF IPPOL_REFRELE, RefTypeOK, RefPlace
  <2>8. LastFrees' /\ NotFreedInUse'
    BY <1>0, <1>12, <2>1, <2>3 DEF IPPOL_REFRELE, LastFrees, NotFreedInUse
  <2> QED BY <2>3, <2>4, <2>6, <2>7, <2>8 DEF RefInv
<1>13. ASSUME NEW t \in RefThread, PATH_RELE(t)
      PROVE  RefInv'
  <2>1. /\ ref_pc[t] = "dec" /\ ref_pc'[t] = "exit"
        /\ \A u \in RefThread \ {t} : ref_pc'[u] = ref_pc[u]
        /\ frees = 0
    BY <1>0, <1>13, Zenon DEF PATH_RELE, RefGoto, RefTypeOK
  <2>2. refs[t] > 0
    BY <1>0, <2>1, Zenon DEF RefPlace
  <2>3. /\ refs' \in RefNumbers /\ CountIsExact' /\ refcnt \in Nat \ {0} /\ refcnt' = refcnt - 1
        /\ refs'[t] = refs[t] - 1 /\ \A u \in RefThread \ {t} : refs'[u] = refs[u]
        /\ refcnt' = 0 => ~ref_table' /\ \A u \in RefThread : refs'[u] = 0
    BY <1>0, <1>13, <2>2, RefDrops, Zenon DEF PATH_RELE, Decrement
  <2>4. RefTypeOK'
    BY <1>0, <1>13, <2>3 DEF PATH_RELE, RefGoto, RefTypeOK
  <2>5. ASSUME refcnt' = 0, NEW u \in RefThread \ {t}
        PROVE  ref_pc[u] \in {"out", "drain", "wait"}
    <3>1. refs[u] = 0 /\ ~ref_table /\ refcnt # 0
      BY <1>13, <2>3, <2>5, Zenon DEF PATH_RELE
    <3>2. RefPlace(t) /\ RefPlace(u) /\ t # u
      BY <1>0
    <3>3. ref_kind = "path" /\ ref_pc[u] \in {"out", "lookup", "hold", "rele", "dec", "exit", "drain", "wait", "destroy"}
      BY <1>0, <1>13, <2>5, Zenon DEF RefTypeOK, PATH_RELE
    <3> QED BY ONLY <2>1, <3>1, <3>2, <3>3 DEF RefPlace
  <2>6. RefPlace(t)'
    BY <1>0, <1>13, <2>1, <2>2, <2>3, <2>5, Zenon DEF PATH_RELE, RefTypeOK, RefPlace
  <2>7. ASSUME NEW u \in RefThread \ {t}
        PROVE  RefPlace(u)'
    <3>1. ASSUME ref_pc[u] = "wait", refcnt' = 0
          PROVE  signalled'
      <4>1. refcnt = 1 /\ Waiting
        BY <2>3, <3>1 DEF Waiting
      <4> QED BY <1>13, <4>1, Zenon DEF PATH_RELE
    <3> QED BY <1>0, <1>13, <3>1, <2>1, <2>3, <2>5, Zenon DEF PATH_RELE, RefTypeOK, RefPlace
  <2>8. LastFrees' /\ NotFreedInUse'
    BY <1>0, <1>13, <2>1, <2>3, Zenon DEF PATH_RELE, LastFrees, NotFreedInUse
  <2> QED BY <2>3, <2>4, <2>6, <2>7, <2>8 DEF RefInv
<1>14. ASSUME NEW t \in RefThread, RemoveFromTable(t)
      PROVE  RefInv'
  <2>1. /\ ref_pc[t] = "out" /\ ref_pc'[t] = "rele"
        /\ \A u \in RefThread \ {t} : ref_pc'[u] = ref_pc[u]
        /\ frees = 0
    BY <1>0, <1>14, Zenon DEF RemoveFromTable, RefGoto, RefTypeOK
  <2>2. refs[t] < MaxRefs /\ ref_table
    BY <1>0, <1>14 DEF RemoveFromTable
  <2>3. /\ refs' \in RefNumbers /\ CountIsExact' /\ refcnt' \in Nat /\ refcnt' # 0
        /\ refs'[t] = refs[t] + 1 /\ \A u \in RefThread \ {t} : refs'[u] = refs[u]
    BY <1>0, <1>14, <2>2, RefGains, Zenon DEF RemoveFromTable
  <2>4. RefTypeOK'
    BY <1>0, <1>14, <2>3, Zenon DEF RemoveFromTable, RefGoto, RefTypeOK
  <2>5. RefPlace(t)'
    BY <1>0, <1>14, <2>1, <2>3 DEF RemoveFromTable, RefTypeOK, RefPlace
  <2>6. ASSUME NEW u \in RefThread \ {t}
        PROVE  RefPlace(u)'
    BY <1>0, <1>14, <2>1, <2>3 DEF RemoveFromTable, RefTypeOK, RefPlace
  <2>7. LastFrees' /\ NotFreedInUse'
    BY <1>0, <1>14, <2>1, <2>3, Zenon DEF RemoveFromTable, LastFrees, NotFreedInUse
  <2> QED BY <2>3, <2>4, <2>5, <2>6, <2>7 DEF RefInv
<1>15. ASSUME NEW t \in RefThread, Destroy(t)
      PROVE  RefInv'
  <2>1. /\ frees = 0 /\ ~ref_table /\ refcnt = 0 /\ \A u \in RefThread : refs[u] = 0
        /\ \A u \in RefThread \ {t} : ref_pc[u] = "out"
        /\ ref_lock' = {}
    BY <1>0, <1>15, Zenon DEF Destroy, RefGoto, RefPlace
  <2>2. RefTypeOK' /\ CountIsExact' /\ \A u \in RefThread : ref_pc'[u] = "out"
    BY <1>0, <1>15, <2>1 DEF Destroy, RefGoto, RefTypeOK, CountIsExact
  <2>3. \A u \in RefThread : RefPlace(u)'
    BY <1>0, <1>15, <2>1, <2>2 DEF Destroy, RefPlace
  <2> QED BY <1>15, <2>1, <2>2, <2>3 DEF Destroy, RefInv, NotFreedInUse, LastFrees
<1>16. CASE UNCHANGED refVars
  <2>1. RefTypeOK' /\ CountIsExact' /\ NotFreedInUse' /\ LastFrees'
    BY <1>0, <1>16, ZenonT(30) DEF refVars, RefTypeOK, CountIsExact, NotFreedInUse, LastFrees
  <2>2. \A u \in RefThread : RefPlace(u)'
    BY <1>0, <1>16, ZenonT(30) DEF refVars, RefPlace
  <2> QED BY <2>1, <2>2, Zenon DEF RefInv
<1> QED
  BY <1>1, <1>2, <1>3, <1>4, <1>5, <1>6, <1>7, <1>8, <1>9, <1>10, <1>11, <1>12, <1>13, <1>14, <1>15, <1>16, ZenonT(30) DEF RefNext

\* FreedOnceUnused: under each of the four release macros, for any number of
\* threads with any number of references each, the object is freed by the
\* last of them, once, when no thread is in a macro with it any more.
THEOREM ReferencesCounted == RefSpec => []FreedOnceUnused
<1>1. RefInv => FreedOnceUnused
  <2> SUFFICES ASSUME RefInv PROVE CountCoversReleases /\ NothingLeaks
    BY Zenon DEF RefInv, FreedOnceUnused
  <2>0. CountCoversReleases
    <3> SUFFICES ASSUME NEW t \in RefThread, ref_pc[t] = "dec"
                 PROVE  refcnt > 0
      BY Zenon DEF CountCoversReleases
    <3>1. refs[t] \in 0 .. MaxRefs /\ refs[t] > 0 /\ MaxRefs \in Nat
      BY RefCountAssumption DEF RefInv, RefTypeOK, RefPlace, RefNumbers
    <3>2. refcnt \in Nat /\ refcnt # 0
      <4>1. refs[t] # 0
        BY <3>1
      <4> QED BY <4>1, NoReferences, Zenon DEF RefInv, RefTypeOK, CountIsExact
    <3> QED BY <3>2
  <2> SUFFICES ASSUME ~ref_table,
                      \A t \in RefThread :
                        refs[t] = 0 /\ (ref_pc[t] = "out" \/ (ref_pc[t] = "wait" /\ ~signalled)),
                      frees = 0
               PROVE  FALSE
    BY <2>0, Zenon DEF NothingLeaks, RefInv, RefTypeOK
  <2>1. refcnt = 0
    BY NoReferences, Zenon DEF RefInv, RefTypeOK, CountIsExact
  <2>2. PICK w \in RefThread : remover = {w}
    BY Zenon DEF RefInv, RefTypeOK
  <2> QED BY <2>1, <2>2, Zenon DEF RefInv, RefTypeOK, RefPlace, LastFrees
<1> QED BY <1>1, RefInitial, RefStep, PTL DEF RefSpec

-----------------------------------------------------------------------------
(* IreRef: the references to the entries of a bucket.                      *)

\* The threads that have a reference to e.
IreHolders(h, e) == {t \in IreThread : e \in h[t]}

\* The reference of the bucket, which goes with the entry when it is unlinked.
BucketRef(e) == IF e \in irb_ire \/ \E t \in IreThread : e \in ire_list[t] THEN 1 ELSE 0

\* The types of the bucket, its entries and the threads that walk it.
IreTypeOK ==
  /\ irb_ire \subseteq Ire /\ walking \subseteq IreThread
  /\ irb_marks \in BOOLEAN /\ irb_refcnt \in Nat
  /\ ire_refcnt \in [Ire -> Nat] /\ ire_marks \in [Ire -> BOOLEAN]
  /\ ire_freed \subseteq Ire
  /\ held \in [IreThread -> SUBSET Ire] /\ at \in [IreThread -> SUBSET Ire]
  /\ ire_list \in [IreThread -> SUBSET Ire] /\ inactive \in [IreThread -> SUBSET Ire]

\* The counts are those of the references and of the walkers.
IreCountsExact ==
  /\ irb_refcnt = Cardinality(walking)
  /\ \A e \in Ire : ire_refcnt[e] = Cardinality(IreHolders(held, e)) + BucketRef(e)

\* Where an entry can be: a walker keeps what it looks at linked or condemned,
\* and what is freed is in nobody's hands.
IrePlaces ==
  /\ \A t \in IreThread : /\ at[t] \subseteq irb_ire
                          /\ at[t] # {} => t \in walking
                          /\ ire_list[t] \intersect irb_ire = {}
  /\ \A t, u \in IreThread : t # u => /\ ire_list[t] \intersect ire_list[u] = {}
                                      /\ inactive[t] \intersect inactive[u] = {}
  /\ \A e \in Ire : ~ire_marks[e] => e \in irb_ire
  /\ \A e \in ire_freed : ire_refcnt[e] = 0
  /\ \A t \in IreThread : \A e \in inactive[t] : ire_refcnt[e] = 0 /\ e \notin ire_freed

\* The inductive invariant of the bucket.
IreInv == IreTypeOK /\ IreCountsExact /\ IrePlaces /\ CondemnedAreUnlinked

\* Counting the threads with a reference to an entry.
LEMMA IreHoldersFinite ==
  ASSUME NEW h, NEW e
  PROVE  /\ IsFiniteSet(IreHolders(h, e)) /\ Cardinality(IreHolders(h, e)) \in Nat
         /\ Cardinality(IreHolders(h, e)) = 0 <=> \A t \in IreThread : e \notin h[t]
<1>1. IsFiniteSet(IreHolders(h, e)) /\ Cardinality(IreHolders(h, e)) \in Nat
  BY IreRefAssumption, FS_Subset, FS_CardinalityType, Zenon DEF IreHolders
<1>2. Cardinality(IreHolders(h, e)) = 0 <=> IreHolders(h, e) = {}
  BY <1>1, FS_EmptySet, Zenon
<1> QED BY <1>1, <1>2, Zenon DEF IreHolders

\* Counting the threads that walk the bucket.
LEMMA WalkersFinite ==
  ASSUME NEW W \in SUBSET IreThread
  PROVE  /\ IsFiniteSet(W) /\ Cardinality(W) \in Nat /\ (Cardinality(W) = 0 <=> W = {})
         /\ \A t \in W : Cardinality(W \ {t}) = Cardinality(W) - 1
         /\ \A t \in IreThread \ W : Cardinality(W \union {t}) = Cardinality(W) + 1
<1>1. IsFiniteSet(W) /\ Cardinality(W) \in Nat
  BY IreRefAssumption, FS_Subset, FS_CardinalityType, Zenon
<1>2. Cardinality(W) = 0 <=> W = {}
  BY <1>1, FS_EmptySet, Zenon
<1>3. \A t \in W : Cardinality(W \ {t}) = Cardinality(W) - 1
  BY <1>1, FS_RemoveElement, Zenon
<1>4. \A t \in IreThread \ W : Cardinality(W \union {t}) = Cardinality(W) + 1
  BY <1>1, FS_AddElement, Zenon
<1> QED BY <1>1, <1>2, <1>3, <1>4, Zenon

\* An entry with a count of 0 is nowhere to be found.
LEMMA UncountedIsGone ==
  ASSUME IreTypeOK, IreCountsExact, NEW e \in Ire
  PROVE  ire_refcnt[e] = 0 <=> /\ e \notin irb_ire
                               /\ \A t \in IreThread : e \notin held[t] /\ e \notin ire_list[t]
<1>1. Cardinality(IreHolders(held, e)) \in Nat
      /\ (Cardinality(IreHolders(held, e)) = 0 <=> \A t \in IreThread : e \notin held[t])
  BY IreHoldersFinite, Zenon
<1>2. ire_refcnt[e] = Cardinality(IreHolders(held, e)) + BucketRef(e)
  BY Zenon DEF IreCountsExact
<1>3. BucketRef(e) \in {0, 1} /\ (BucketRef(e) = 0 <=> /\ e \notin irb_ire
                                                     /\ \A t \in IreThread : e \notin ire_list[t])
  BY DEF BucketRef
<1> QED BY <1>1, <1>2, <1>3

\* The bucket has the only reference to each of its entries.
LEMMA IreInitial == IreInit => IreInv
<1> SUFFICES ASSUME IreInit PROVE IreInv
  OBVIOUS
<1>1. IreTypeOK
  BY Zenon DEF IreInit, IreTypeOK
<1>2. \A e \in Ire : Cardinality(IreHolders(held, e)) = 0 /\ BucketRef(e) = 1
  BY IreHoldersFinite, Zenon DEF IreInit, BucketRef
<1>3. IreCountsExact
  <2>1. \A e \in Ire : ire_refcnt[e] = 1
    BY Zenon DEF IreInit
  <2>2. \A e \in Ire : ire_refcnt[e] = Cardinality(IreHolders(held, e)) + BucketRef(e)
    BY <1>2, <2>1
  <2>3. irb_refcnt = Cardinality(walking)
    BY FS_EmptySet, Zenon DEF IreInit
  <2> QED BY <2>2, <2>3, Zenon DEF IreCountsExact
<1>4. IrePlaces
  BY Zenon DEF IreInit, IrePlaces
<1> QED BY <1>1, <1>3, <1>4, Zenon DEF IreInit, IreInv, CondemnedAreUnlinked

\* A reference to an entry that is in the bucket is taken.
LEMMA IreHoldStep ==
  ASSUME IreInv, NEW t \in IreThread, NEW e \in Ire, e \in irb_ire, e \notin held[t],
         IRE_REFHOLD(e), held' = [held EXCEPT ![t] = @ \union {e}],
         UNCHANGED <<irb_ire, irb_refcnt, irb_marks, ire_marks, ire_freed, at, walking, ire_list, inactive>>
  PROVE  IreInv'
<1>0. IreTypeOK /\ IreCountsExact /\ IrePlaces /\ CondemnedAreUnlinked
  BY Zenon DEF IreInv
<1>1. /\ held' \in [IreThread -> SUBSET Ire]
      /\ Cardinality(IreHolders(held', e)) = Cardinality(IreHolders(held, e)) + 1
      /\ \A f \in Ire \ {e} : IreHolders(held', f) = IreHolders(held, f)
  <2>1. /\ held' \in [IreThread -> SUBSET Ire] /\ held \in [IreThread -> SUBSET Ire]
        /\ held'[t] = held[t] \union {e}
        /\ \A u \in IreThread \ {t} : held'[u] = held[u]
    BY <1>0, Zenon DEF IreTypeOK
  <2>2. IreHolders(held', e) = IreHolders(held, e) \union {t} /\ t \notin IreHolders(held, e)
    BY <2>1, Zenon DEF IreHolders
  <2>3. \A f \in Ire \ {e} : IreHolders(held', f) = IreHolders(held, f)
    BY <2>1, Zenon DEF IreHolders
  <2>4. IsFiniteSet(IreHolders(held, e))
    BY IreHoldersFinite, Zenon
  <2> QED BY <2>1, <2>2, <2>3, <2>4, FS_AddElement, Zenon
<1>2. /\ ire_refcnt' \in [Ire -> Nat] /\ ire_refcnt'[e] = ire_refcnt[e] + 1
      /\ \A f \in Ire \ {e} : ire_refcnt'[f] = ire_refcnt[f]
  BY <1>0 DEF IRE_REFHOLD, IreTypeOK
<1>3. IreTypeOK'
  BY <1>0, <1>1, <1>2, Zenon DEF IreTypeOK
<1>4. \A f \in Ire : BucketRef(f)' = BucketRef(f) /\ BucketRef(f) \in {0, 1}
  BY Zenon DEF BucketRef
<1>5. IreCountsExact'
  <2>1. ASSUME NEW f \in Ire
        PROVE  ire_refcnt'[f] = Cardinality(IreHolders(held', f)) + BucketRef(f)'
    <3>1. /\ ire_refcnt[f] = Cardinality(IreHolders(held, f)) + BucketRef(f)
          /\ Cardinality(IreHolders(held, f)) \in Nat
      BY <1>0, IreHoldersFinite, Zenon DEF IreCountsExact
    <3>2. CASE f = e
      BY <1>1, <1>2, <1>4, <3>1, <3>2
    <3>3. CASE f # e
      BY <1>1, <1>2, <1>4, <3>1, <3>3, Zenon
    <3> QED BY <3>2, <3>3, Zenon
  <2> QED BY <1>0, <2>1, Zenon DEF IreCountsExact
<1>6. ire_refcnt[e] # 0
  BY <1>0, UncountedIsGone, Zenon
<1>7. IrePlaces'
  BY <1>0, <1>2, <1>6 DEF IrePlaces, IreTypeOK
<1> QED BY <1>0, <1>3, <1>5, <1>7, Zenon DEF IreInv, CondemnedAreUnlinked

\* IRE_REFRELE: the thread that drops the last reference will free the entry.
LEMMA IreReleStep ==
  ASSUME IreTypeOK, IrePlaces, NEW t \in IreThread, NEW e \in Ire, ire_refcnt[e] # 0,
         IRE_REFRELE(t, e), ire_freed' = ire_freed
  PROVE  /\ ire_refcnt' \in [Ire -> Nat] /\ ire_refcnt'[e] = ire_refcnt[e] - 1
         /\ \A f \in Ire \ {e} : ire_refcnt'[f] = ire_refcnt[f]
         /\ inactive' \in [IreThread -> SUBSET Ire]
         /\ \A u, v \in IreThread : u # v => inactive'[u] \intersect inactive'[v] = {}
         /\ \A f \in ire_freed' : ire_refcnt'[f] = 0
         /\ \A u \in IreThread : \A f \in inactive'[u] : ire_refcnt'[f] = 0 /\ f \notin ire_freed'
<1>1. /\ ire_refcnt' \in [Ire -> Nat] /\ ire_refcnt'[e] = ire_refcnt[e] - 1
      /\ \A f \in Ire \ {e} : ire_refcnt'[f] = ire_refcnt[f]
  BY DEF IRE_REFRELE, IreTypeOK
<1>2. /\ inactive' \in [IreThread -> SUBSET Ire]
      /\ inactive'[t] \subseteq inactive[t] \union {e}
      /\ e \in inactive'[t] => ire_refcnt'[e] = 0
      /\ \A u \in IreThread \ {t} : inactive'[u] = inactive[u]
  BY <1>1 DEF IRE_REFRELE, IreTypeOK, IrePlaces
<1>3. e \notin ire_freed /\ \A u \in IreThread : e \notin inactive[u]
  BY ZenonT(30) DEF IrePlaces
<1>4. \A u, v \in IreThread : u # v => inactive'[u] \intersect inactive'[v] = {}
  BY <1>2, <1>3 DEF IrePlaces
<1>5. \A f \in ire_freed' : ire_refcnt'[f] = 0
  BY <1>1, <1>3, Zenon DEF IrePlaces, IreTypeOK
<1>6. ASSUME NEW u \in IreThread, NEW f \in inactive'[u]
      PROVE  ire_refcnt'[f] = 0 /\ f \notin ire_freed'
  BY <1>1, <1>2, <1>3 DEF IrePlaces, IreTypeOK
<1> QED BY <1>1, <1>2, <1>4, <1>5, <1>6, Zenon

\* Every step of the threads that use the bucket keeps the invariant.
LEMMA IreStep == IreInv /\ [IreNext]_ireVars => IreInv'
<1> SUFFICES ASSUME IreInv, [IreNext]_ireVars
             PROVE  IreInv'
  OBVIOUS
<1>0. IreTypeOK /\ IreCountsExact /\ IrePlaces /\ CondemnedAreUnlinked
  BY Zenon DEF IreInv
<1>a. UNCHANGED <<irb_ire, ire_list, held, ire_refcnt>> =>
        \A e \in Ire : ire_refcnt'[e] = Cardinality(IreHolders(held', e)) + BucketRef(e)'
  BY <1>0, Zenon DEF IreCountsExact, BucketRef
<1>1. ASSUME NEW t \in IreThread, IRB_REFHOLD(t)
      PROVE  IreInv'
  <2>1. IreTypeOK' /\ IrePlaces'
    BY <1>0, <1>1 DEF IRB_REFHOLD, IreTypeOK, IrePlaces
  <2>2. irb_refcnt' = Cardinality(walking') /\ irb_refcnt' # 0
    BY <1>0, <1>1, WalkersFinite DEF IRB_REFHOLD, IreTypeOK, IreCountsExact
  <2> QED BY <1>0, <1>1, <1>a, <2>1, <2>2, ZenonT(30) DEF IRB_REFHOLD, IreInv, IreCountsExact, CondemnedAreUnlinked
<1>2. ASSUME NEW t \in IreThread, IRB_REFRELE(t)
      PROVE  IreInv'
  <2>1. /\ irb_refcnt' = Cardinality(walking') /\ irb_refcnt \in Nat \ {0} /\ irb_refcnt' \in Nat
        /\ irb_refcnt' = irb_refcnt - 1 /\ walking' = walking \ {t} /\ at[t] = {}
        /\ UNCHANGED <<ire_refcnt, ire_marks, ire_freed, held, at, inactive>>
    <3>1. /\ t \in walking /\ walking \in SUBSET IreThread /\ irb_refcnt = Cardinality(walking)
          /\ irb_refcnt' = irb_refcnt - 1 /\ walking' = walking \ {t} /\ at[t] = {}
          /\ UNCHANGED <<ire_refcnt, ire_marks, ire_freed, held, at, inactive>>
      BY <1>0, <1>2, Zenon DEF IRB_REFRELE, IreTypeOK, IreCountsExact
    <3>2. Cardinality(walking) \in Nat \ {0} /\ Cardinality(walking') = Cardinality(walking) - 1
      BY <3>1, WalkersFinite, Zenon
    <3> QED BY <3>1, <3>2
  <2>2. CASE ~(irb_refcnt = 1 /\ irb_marks)
    <3>1. UNCHANGED <<irb_ire, irb_marks, ire_list>>
      BY <1>2, <2>2, Zenon DEF IRB_REFRELE
    <3>2. IreTypeOK' /\ IrePlaces'
      BY <1>0, <2>1, <3>1, Zenon DEF IreTypeOK, IrePlaces
    <3> QED BY <1>0, <1>a, <2>1, <2>2, <3>1, <3>2 DEF IreInv, IreCountsExact, CondemnedAreUnlinked
  <2>3. CASE irb_refcnt = 1 /\ irb_marks
    <3>1. ire_unlink(t)
      BY <1>2, <2>3, Zenon DEF IRB_REFRELE
    <3>2. walking' = {} /\ \A u \in IreThread : at[u] = {}
      <4>1. walking' \subseteq IreThread /\ Cardinality(walking') = 0
        BY <1>0, <2>1, <2>3 DEF IreTypeOK
      <4>2. walking' = {}
        BY <4>1, WalkersFinite, Zenon
      <4> QED BY <1>0, <2>1, <4>2, Zenon DEF IrePlaces
    <3>3. /\ irb_ire' = {e \in irb_ire : ~ire_marks[e]} /\ irb_marks' = FALSE
          /\ ire_list' \in [IreThread -> SUBSET Ire]
          /\ ire_list'[t] = ire_list[t] \union {e \in irb_ire : ire_marks[e]}
          /\ \A u \in IreThread \ {t} : ire_list'[u] = ire_list[u]
      BY <1>0, <3>1, Zenon DEF ire_unlink, IreTypeOK
    <3>4. \A e \in Ire : BucketRef(e)' = BucketRef(e)
      BY <1>0, <3>3, Zenon DEF BucketRef, IreTypeOK
    <3>5. IreCountsExact'
      BY <1>0, <2>1, <3>4, Zenon DEF IreCountsExact
    <3>6. IreTypeOK'
      BY <1>0, <2>1, <3>3, ZenonT(30) DEF IreTypeOK
    <3>7. IrePlaces'
      BY <1>0, <2>1, <3>2, <3>3 DEF IrePlaces, IreTypeOK
    <3> QED BY <2>1, <3>3, <3>5, <3>6, <3>7, Zenon DEF IreInv, CondemnedAreUnlinked
  <2> QED BY <2>2, <2>3, Zenon
<1>3. ASSUME NEW t \in IreThread, WalkFrom(t)
      PROVE  IreInv'
  <2>1. IreTypeOK' /\ IrePlaces'
    BY <1>0, <1>3 DEF WalkFrom, IreTypeOK, IrePlaces
  <2> QED BY <1>0, <1>3, <1>a, <2>1, ZenonT(30) DEF WalkFrom, IreInv, IreCountsExact, CondemnedAreUnlinked
<1>4. ASSUME NEW t \in IreThread, NEW e \in Ire, WalkOn(t, e)
      PROVE  IreInv'
  <2>1. IreTypeOK' /\ IrePlaces'
    BY <1>0, <1>4 DEF WalkOn, IreTypeOK, IrePlaces
  <2> QED BY <1>0, <1>4, <1>a, <2>1, ZenonT(30) DEF WalkOn, IreInv, IreCountsExact, CondemnedAreUnlinked
<1>5. ASSUME NEW t \in IreThread, NEW e \in Ire, HoldCurrent(t, e)
      PROVE  IreInv'
  BY <1>0, <1>5, IreHoldStep, Zenon DEF HoldCurrent, IrePlaces
<1>6. ASSUME NEW t \in IreThread, NEW e \in Ire, Lookup(t, e)
      PROVE  IreInv'
  BY <1>0, <1>6, IreHoldStep, Zenon DEF Lookup
<1>7. ASSUME NEW t \in IreThread, NEW e \in Ire, Release(t, e)
      PROVE  IreInv'
  <2>1. /\ e \in held[t] /\ held' = [held EXCEPT ![t] = @ \ {e}] /\ IRE_REFRELE(t, e)
        /\ UNCHANGED <<irb_ire, irb_refcnt, irb_marks, ire_marks, ire_freed, at, walking, ire_list>>
    BY <1>7, Zenon DEF Release
  <2>2. /\ held' \in [IreThread -> SUBSET Ire]
        /\ Cardinality(IreHolders(held', e)) = Cardinality(IreHolders(held, e)) - 1
        /\ \A f \in Ire \ {e} : IreHolders(held', f) = IreHolders(held, f)
    <3>1. /\ held' \in [IreThread -> SUBSET Ire] /\ held \in [IreThread -> SUBSET Ire]
          /\ held'[t] = held[t] \ {e}
          /\ \A u \in IreThread \ {t} : held'[u] = held[u]
      BY <1>0, <2>1, Zenon DEF IreTypeOK
    <3>2. IreHolders(held', e) = IreHolders(held, e) \ {t} /\ t \in IreHolders(held, e)
      BY <2>1, <3>1, Zenon DEF IreHolders
    <3>3. \A f \in Ire \ {e} : IreHolders(held', f) = IreHolders(held, f)
      BY <3>1, Zenon DEF IreHolders
    <3>4. IsFiniteSet(IreHolders(held, e))
      BY IreHoldersFinite, Zenon
    <3> QED BY <3>1, <3>2, <3>3, <3>4, FS_RemoveElement, Zenon
  <2>3. ire_refcnt[e] # 0
    BY <1>0, <2>1, UncountedIsGone, Zenon
  <2>4. /\ ire_refcnt' \in [Ire -> Nat] /\ ire_refcnt'[e] = ire_refcnt[e] - 1
        /\ \A f \in Ire \ {e} : ire_refcnt'[f] = ire_refcnt[f]
        /\ inactive' \in [IreThread -> SUBSET Ire]
        /\ \A u, v \in IreThread : u # v => inactive'[u] \intersect inactive'[v] = {}
        /\ \A f \in ire_freed' : ire_refcnt'[f] = 0
        /\ \A u \in IreThread : \A f \in inactive'[u] : ire_refcnt'[f] = 0 /\ f \notin ire_freed'
    BY <1>0, <2>1, <2>3, IreReleStep, Zenon
  <2>5. \A f \in Ire : BucketRef(f)' = BucketRef(f) /\ BucketRef(f) \in {0, 1}
    BY <2>1, Zenon DEF BucketRef
  <2>6. IreCountsExact'
    <3>1. ASSUME NEW f \in Ire
          PROVE  ire_refcnt'[f] = Cardinality(IreHolders(held', f)) + BucketRef(f)'
      <4>1. /\ ire_refcnt[f] = Cardinality(IreHolders(held, f)) + BucketRef(f)
            /\ Cardinality(IreHolders(held, f)) \in Nat
        BY <1>0, IreHoldersFinite, Zenon DEF IreCountsExact
      <4>2. CASE f = e
        BY <2>2, <2>4, <2>5, <4>1, <4>2
      <4>3. CASE f # e
        BY <2>2, <2>4, <2>5, <4>1, <4>3, ZenonT(30)
      <4> QED BY <4>2, <4>3, ZenonT(30)
    <3> QED BY <1>0, <2>1, <3>1, Zenon DEF IreCountsExact
  <2>7. IreTypeOK' /\ IrePlaces'
    BY <1>0, <2>1, <2>2, <2>4 DEF IreTypeOK, IrePlaces
  <2> QED BY <1>0, <2>1, <2>6, <2>7, Zenon DEF IreInv, CondemnedAreUnlinked
<1>8. ASSUME NEW t \in IreThread, NEW e \in Ire, ire_delete(t, e)
      PROVE  IreInv'
  <2>1. /\ ~ire_marks[e] /\ e \in irb_ire /\ ire_marks' \in [Ire -> BOOLEAN] /\ ire_marks'[e]
        /\ \A f \in Ire \ {e} : ire_marks'[f] = ire_marks[f]
        /\ UNCHANGED <<irb_refcnt, ire_refcnt, ire_freed, held, at, walking, inactive>>
    BY <1>0, <1>8 DEF ire_delete, IreTypeOK, IrePlaces
  <2>2. CASE irb_refcnt # 0
    <3>1. irb_marks' = TRUE /\ UNCHANGED <<irb_ire, ire_list>>
      BY <1>8, <2>2, Zenon DEF ire_delete
    <3>2. IreTypeOK' /\ IrePlaces'
      BY <1>0, <2>1, <3>1, ZenonT(30) DEF IreTypeOK, IrePlaces
    <3> QED BY <1>0, <1>a, <2>1, <2>2, <3>1, <3>2, Zenon DEF IreInv, IreCountsExact, CondemnedAreUnlinked
  <2>3. CASE irb_refcnt = 0
    <3>1. irb_ire' = irb_ire \ {e} /\ ire_list' = [ire_list EXCEPT ![t] = @ \union {e}] /\ irb_marks' = irb_marks
      BY <1>8, <2>3, Zenon DEF ire_delete
    <3>2. /\ ire_list' \in [IreThread -> SUBSET Ire] /\ ire_list'[t] = ire_list[t] \union {e}
          /\ \A u \in IreThread \ {t} : ire_list'[u] = ire_list[u]
      BY <1>0, <3>1, Zenon DEF IreTypeOK
    <3>3. \A f \in Ire : BucketRef(f)' = BucketRef(f)
      BY <1>0, <2>1, <3>1, <3>2, Zenon DEF BucketRef
    <3>4. walking = {}
      BY <1>0, <2>3, WalkersFinite, Zenon DEF IreTypeOK, IreCountsExact
    <3>5. IreTypeOK' /\ IreCountsExact'
      BY <1>0, <2>1, <3>1, <3>2, <3>3, ZenonT(60) DEF IreTypeOK, IreCountsExact
    <3>6. IrePlaces'
      BY <1>0, <2>1, <3>1, <3>2, <3>4 DEF IrePlaces, IreTypeOK
    <3> QED BY <1>0, <2>1, <2>3, <3>1, <3>5, <3>6, Zenon DEF IreInv, CondemnedAreUnlinked, IreTypeOK
  <2> QED BY <1>0, <2>2, <2>3, Zenon
<1>9. ASSUME NEW t \in IreThread, NEW e \in Ire, ire_cleanup(t, e)
      PROVE  IreInv'
  <2>1. /\ e \in ire_list[t] /\ ire_list' = [ire_list EXCEPT ![t] = @ \ {e}] /\ IRE_REFRELE(t, e)
        /\ UNCHANGED <<irb_ire, irb_refcnt, irb_marks, ire_marks, ire_freed, held, at, walking>>
    BY <1>9 DEF ire_cleanup
  <2>2. /\ ire_list' \in [IreThread -> SUBSET Ire] /\ ire_list'[t] = ire_list[t] \ {e}
        /\ \A u \in IreThread \ {t} : ire_list'[u] = ire_list[u]
    BY <1>0, <2>1, Zenon DEF IreTypeOK
  <2>3. ire_refcnt[e] # 0
    BY <1>0, <2>1, UncountedIsGone, Zenon
  <2>4. /\ ire_refcnt' \in [Ire -> Nat] /\ ire_refcnt'[e] = ire_refcnt[e] - 1
        /\ \A f \in Ire \ {e} : ire_refcnt'[f] = ire_refcnt[f]
        /\ inactive' \in [IreThread -> SUBSET Ire]
        /\ \A u, v \in IreThread : u # v => inactive'[u] \intersect inactive'[v] = {}
        /\ \A f \in ire_freed' : ire_refcnt'[f] = 0
        /\ \A u \in IreThread : \A f \in inactive'[u] : ire_refcnt'[f] = 0 /\ f \notin ire_freed'
    BY <1>0, <2>1, <2>3, IreReleStep
  <2>5. /\ BucketRef(e) = 1 /\ BucketRef(e)' = 0
        /\ \A f \in Ire \ {e} : BucketRef(f)' = BucketRef(f)
    BY <1>0, <2>1, <2>2, ZenonT(30) DEF BucketRef, IrePlaces
  <2>6. IreCountsExact'
    BY <1>0, <2>1, <2>4, <2>5, IreHoldersFinite DEF IreCountsExact
  <2>7. IreTypeOK'
    BY <1>0, <2>1, <2>2, <2>4, ZenonT(30) DEF IreTypeOK
  <2>8. IrePlaces'
    <3>1. \A u \in IreThread : ire_list'[u] \subseteq ire_list[u]
      BY <2>2, Zenon
    <3> QED BY <1>0, <2>1, <2>4, <3>1, ZenonT(60) DEF IrePlaces
  <2> QED BY <1>0, <2>1, <2>6, <2>7, <2>8, ZenonT(60) DEF IreInv, CondemnedAreUnlinked
<1>10. ASSUME NEW t \in IreThread, NEW e \in Ire, ire_inactive(t, e)
      PROVE  IreInv'
  <2>1. IreTypeOK' /\ IrePlaces'
    BY <1>0, <1>10 DEF ire_inactive, IreTypeOK, IrePlaces
  <2> QED BY <1>0, <1>10, <1>a, <2>1, ZenonT(30) DEF ire_inactive, IreInv, IreCountsExact, CondemnedAreUnlinked
<1>11. CASE UNCHANGED ireVars
  <2>1. IreTypeOK' /\ IrePlaces'
    BY <1>0, <1>11, Zenon DEF ireVars, IreTypeOK, IrePlaces
  <2> QED BY <1>0, <1>11, <1>a, <2>1, Zenon DEF ireVars, IreInv, IreCountsExact, CondemnedAreUnlinked
<1> QED
  BY <1>1, <1>2, <1>3, <1>4, <1>5, <1>6, <1>7, <1>8, <1>9, <1>10, <1>11, ZenonT(30) DEF IreNext

\* BucketIsSound: however many threads walk, look up, delete and release, no
\* entry that one of them can reach is freed, and the last IRB_REFRELE finds
\* every condemned entry.
THEOREM IreBucketIsSound == IreSpec => []BucketIsSound
<1>1. IreInv => BucketIsSound
  <2> SUFFICES ASSUME IreInv PROVE NoFreedIre
    BY Zenon DEF IreInv, BucketIsSound
  <2>1. IreTypeOK /\ IreCountsExact /\ IrePlaces
    BY Zenon DEF IreInv
  <2>2. \A e \in ire_freed : /\ e \notin irb_ire
                             /\ \A t \in IreThread : e \notin held[t] /\ e \notin ire_list[t]
    BY <2>1, UncountedIsGone, Zenon DEF IrePlaces, IreTypeOK
  <2> QED BY <2>1, <2>2, Zenon DEF NoFreedIre, IrePlaces
<1> QED BY <1>1, IreInitial, IreStep, PTL DEF IreSpec

-----------------------------------------------------------------------------
(* Callb: checkpoint callbacks.                                            *)

\* What the checkpoint knows: a daemon outside its safe region is not marked
\* safe, one that is being asked or was asked has its start flag, and one that
\* has answered is also marked safe, until the resume.
CallbInv ==
  /\ cc_events \in [Daemon -> SUBSET {"start", "safe"}]
  /\ daemon_pc \in [Daemon -> {"new", "work", "safe", "stop", "delete", "gone"}]
  /\ callb_table \subseteq Daemon /\ cpr_cur \subseteq Daemon
  /\ \A d \in Daemon :
       /\ d \in callb_table => daemon_pc[d] \notin {"new", "gone"}
       /\ daemon_pc[d] = "work" => "safe" \notin cc_events[d]
       /\ d \in cpr_cur => cpr_pc = "chkpt" /\ "start" \in cc_events[d]
       /\ cpr_pc \in {"chkpt", "suspended"} /\ d \in callb_table \ cpr_left
          => {"start", "safe"} \subseteq cc_events[d]
  /\ cpr_pc = "suspended" => callb_table \intersect cpr_left = {}

\* No daemon has registered with the checkpoint facility yet.
LEMMA CallbInitial == CallbInit => CallbInv
BY ZenonT(30) DEF CallbInit, CallbInv

\* Every step of a daemon and of the suspend operation keeps it.
LEMMA CallbStep == CallbInv /\ [CallbNext]_callbVars => CallbInv'
<1> SUFFICES ASSUME CallbInv, [CallbNext]_callbVars PROVE CallbInv'
  OBVIOUS
<1> USE DEF CallbInv
<1>1. CASE StartSuspend
  BY <1>1, Zenon DEF StartSuspend, daemonVars
<1>2. CASE Suspended
  BY <1>2, Zenon DEF Suspended, daemonVars
<1>3. CASE StartResume
  BY <1>3, Zenon DEF StartResume, daemonVars
<1>4. CASE EndResume
  BY <1>4, Zenon DEF EndResume, daemonVars
<1>5. ASSUME NEW d \in Daemon, CallbChkpt(d) PROVE CallbInv'
  BY <1>5, Zenon DEF CallbChkpt, daemonVars
<1>6. ASSUME NEW d \in Daemon, ChkptReturns(d) PROVE CallbInv'
  BY <1>6, Zenon DEF ChkptReturns, daemonVars
<1>7. ASSUME NEW d \in Daemon, ChkptTimesOut(d) PROVE CallbInv'
  BY <1>7, Zenon DEF ChkptTimesOut, daemonVars
<1>8. ASSUME NEW d \in Daemon, CallbResume(d) PROVE CallbInv'
  BY <1>8, Zenon DEF CallbResume, daemonVars
<1>9. ASSUME NEW d \in Daemon, CALLB_CPR_INIT(d) PROVE CallbInv'
  BY <1>9, Zenon DEF CALLB_CPR_INIT, DaemonGoto, cprVars
<1>10. ASSUME NEW d \in Daemon, CALLB_CPR_SAFE_BEGIN(d) PROVE CallbInv'
  BY <1>10, Zenon DEF CALLB_CPR_SAFE_BEGIN, BecomeSafe, DaemonGoto, cprVars
<1>11. ASSUME NEW d \in Daemon, CALLB_CPR_SAFE_END(d) PROVE CallbInv'
  BY <1>11 DEF CALLB_CPR_SAFE_END, cprVars
<1>12. ASSUME NEW d \in Daemon, CALLB_CPR_EXIT(d) PROVE CallbInv'
  BY <1>12, Zenon DEF CALLB_CPR_EXIT, BecomeSafe, DaemonGoto, cprVars
<1>13. ASSUME NEW d \in Daemon, callb_delete(d) PROVE CallbInv'
  BY <1>13, Zenon DEF callb_delete, DaemonGoto, cprVars
<1>14. CASE UNCHANGED callbVars
  BY <1>14, Zenon DEF callbVars, daemonVars, cprVars
<1> QED
  BY <1>1, <1>2, <1>3, <1>4, <1>5, <1>6, <1>7, <1>8, <1>9, <1>10, <1>11, <1>12, <1>13, <1>14, ZenonT(30)
  DEF CallbNext, CprStep

\* While the system is suspended, no registered daemon is outside its safe
\* region, whatever timed out before (CALLB_CPR_SAFE_END waits while it is
\* asked to).
THEOREM DaemonsStopped == CallbSpec => []StoppedWhileSuspended
<1>1. CallbInv => StoppedWhileSuspended
  BY Zenon DEF CallbInv, StoppedWhileSuspended
<1> QED BY <1>1, CallbInitial, CallbStep, PTL DEF CallbSpec
=============================================================================
