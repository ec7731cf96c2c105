----------------------------- MODULE LockProofs -----------------------------
(***************************************************************************)
(* The locks of lock_prim.s, for any number of processors and threads: the *)
(* adaptive mutex (Mutex), the spin locks with a priority level (LockSpl)  *)
(* and the lockstat probes behind the patch points (Lockstat).             *)
(***************************************************************************)
EXTENDS Mutex, LockSpl, Lockstat, TLAPS, SequenceTheorems

-----------------------------------------------------------------------------
(* LockSpl: the spin locks.                                                *)

\* Where a frame is in the lock routines, and what it has on its stack.
FramePC == {"out", "try", "miss", "spin", "held", "cleared", "set", "set_spin"}
FrameType == [pc : FramePC, ret : 0 .. 15, entry : 0 .. 15, old_pil : 0 .. 15]

\* The level a frame runs at, or was interrupted at.
Level(c, i) == IF i = Depth(c) THEN ipl[c] ELSE stack[c][i + 1].ret

\* What level a frame at depth i has at each point of the routines, and that
\* a handler stays above what it interrupted.
FrameOK(f, level, i) ==
  /\ f.pc \in {"try", "miss", "held", "cleared", "set", "set_spin"} => level >= new_pil
  /\ f.pc \in {"try", "miss", "held", "cleared"} => level >= f.entry
  /\ f.pc \in {"try", "miss", "spin", "held", "cleared"} => f.old_pil = f.entry
  /\ f.pc = "spin" => level = f.entry
  /\ i > 1 => /\ f.ret < level /\ f.ret < new_pil /\ f.ret >= i - 2
              /\ f.pc \in {"try", "miss", "spin", "held", "cleared"} => f.ret < f.entry

\* A frame that was interrupted was below new_pil.
CpuOK(c) ==
  /\ ipl[c] \in 0 .. 15 /\ stack[c] \in Seq(FrameType) /\ Depth(c) >= 1
  /\ \A i \in 1 .. Depth(c) :
       /\ FrameOK(stack[c][i], Level(c, i), i)
       /\ i < Depth(c) => Level(c, i) < new_pil

\* The running frame of processor c has the lock.
Holder(c) == Top(c).pc \in {"held", "set"}

\* The inductive invariant.  Only a running frame can have the lock.
SplInv ==
  /\ lock \in {0, -1} /\ ipl \in [CPU -> 0 .. 15] /\ stack \in [CPU -> Seq(FrameType)]
  /\ \A c \in CPU : CpuOK(c)
  /\ \A c \in CPU : Holder(c) => lock = -1 /\ \A d \in CPU : Holder(d) => c = d

-----------------------------------------------------------------------------
\* Frames are records of levels.
LEMMA FrameFacts ==
  ASSUME SplInv, NEW c \in CPU, NEW i \in 1 .. Depth(c)
  PROVE  /\ stack[c][i] \in FrameType /\ stack[c][i].ret \in 0 .. 15
         /\ stack[c][i].entry \in 0 .. 15 /\ stack[c][i].old_pil \in 0 .. 15
         /\ Level(c, i) \in 0 .. 15 /\ new_pil \in 1 .. 15
         /\ Depth(c) \in Nat /\ Depth(c) = Len(stack[c]) /\ Depth(c) >= 1
<1>1. stack[c] \in Seq(FrameType) /\ ipl[c] \in 0 .. 15 /\ Depth(c) >= 1
  BY Zenon DEF SplInv, CpuOK
<1>2. Depth(c) \in Nat /\ Depth(c) = Len(stack[c])
  BY <1>1 DEF Depth
<1>3. \A j \in 1 .. Depth(c) : stack[c][j] \in FrameType
  BY <1>1, <1>2
<1>4. \A j \in 1 .. Depth(c) : /\ stack[c][j].ret \in 0 .. 15
                                /\ stack[c][j].entry \in 0 .. 15 /\ stack[c][j].old_pil \in 0 .. 15
  BY <1>3, Zenon DEF FrameType
<1>5. Level(c, i) \in 0 .. 15
  <2>1. CASE i = Depth(c)
    BY <1>1, <2>1, Zenon DEF Level
  <2>2. CASE i # Depth(c)
    <3>1. i + 1 \in 1 .. Depth(c)
      BY <1>2, <2>2
    <3> QED BY <1>4, <2>2, <3>1, Zenon DEF Level
  <2> QED BY <2>1, <2>2, Zenon
<1> QED BY <1>1, <1>2, <1>3, <1>4, <1>5, LockSplAssumption, Zenon

\* The running frame goes on to another point of its routine at the same level.
LEMMA GotoKeeps ==
  ASSUME SplInv, NEW c \in CPU, NEW f \in FrameType, SetTop(c, f), f.ret = Top(c).ret,
         ipl' \in [CPU -> 0 .. 15], \A d \in CPU : d # c => ipl'[d] = ipl[d],
         FrameOK(f, ipl'[c], Depth(c))
  PROVE  /\ stack' \in [CPU -> Seq(FrameType)] /\ Top(c)' = f
         /\ \A d \in CPU : CpuOK(d)'
         /\ \A d \in CPU : d # c => Top(d)' = Top(d)
<1> DEFINE n == Depth(c)
<1>1. /\ stack[c] \in Seq(FrameType) /\ n \in Nat /\ n >= 1 /\ n = Len(stack[c])
      /\ stack \in [CPU -> Seq(FrameType)] /\ CpuOK(c)
  BY DEF SplInv, CpuOK, Depth
<1>2. stack'[c] = [stack[c] EXCEPT ![n] = f] /\ \A d \in CPU : d # c => stack'[d] = stack[d]
  BY <1>1, Zenon DEF SetTop
<1>3. /\ stack'[c] \in Seq(FrameType) /\ Len(stack'[c]) = n /\ stack'[c][n] = f
      /\ \A i \in 1 .. n : i # n => stack'[c][i] = stack[c][i]
  <2>1. n \in 1 .. Len(stack[c])
    BY <1>1
  <2>2. /\ [stack[c] EXCEPT ![n] = f] \in Seq(FrameType)
        /\ Len([stack[c] EXCEPT ![n] = f]) = Len(stack[c])
        /\ \A j \in 1 .. Len(stack[c]) : [stack[c] EXCEPT ![n] = f][j] = IF j = n THEN f ELSE stack[c][j]
    <3> HIDE DEF n
    <3> QED BY <1>1, <2>1, ExceptSeq
  <2> QED BY <1>1, <1>2, <2>1, <2>2, Zenon
<1>4. stack' \in [CPU -> Seq(FrameType)]
  <2>1. \A d \in CPU : stack'[d] \in Seq(FrameType)
    BY <1>1, <1>2, <1>3, Zenon
  <2> QED BY <1>1, <2>1, Zenon DEF SetTop
<1>5. Depth(c)' = n /\ Top(c)' = f
  BY <1>3, Zenon DEF Depth, Top
<1>6. CpuOK(c)'
  <2>1. \A i \in 1 .. n : i # n => Level(c, i)' = Level(c, i)
    <3> SUFFICES ASSUME NEW i \in 1 .. n, i # n
                 PROVE  stack'[c][i + 1].ret = stack[c][i + 1].ret
      BY <1>1, <1>5, Zenon DEF Level
    <3>1. CASE i + 1 = n
      BY <1>1, <1>3, <3>1, Zenon DEF Top
    <3>2. CASE i + 1 # n
      BY <1>1, <1>3, <3>2
    <3> QED BY <3>1, <3>2, Zenon
  <2>2. \A i \in 1 .. n : /\ FrameOK(stack'[c][i], Level(c, i)', i)
                          /\ i < n => Level(c, i)' < new_pil
    <3> SUFFICES ASSUME NEW i \in 1 .. n
                 PROVE  /\ FrameOK(stack'[c][i], Level(c, i)', i)
                        /\ i < n => Level(c, i)' < new_pil
      BY Zenon
    <3>1. CASE i = n
      <4>1. stack'[c][i] = f /\ Level(c, i)' = ipl'[c] /\ i = Depth(c) /\ ~(i < n)
        BY <1>1, <1>3, <1>5, <3>1 DEF Level
      <4> QED BY <4>1, Zenon
    <3>2. CASE i # n
      <4>1. /\ stack'[c][i] = stack[c][i] /\ Level(c, i)' = Level(c, i)
            /\ FrameOK(stack[c][i], Level(c, i), i) /\ i < n /\ Level(c, i) < new_pil
        BY <1>1, <1>3, <2>1, <3>2 DEF CpuOK
      <4> QED BY <4>1, Zenon
    <3> QED BY <3>1, <3>2, Zenon
  <2> QED BY <1>1, <1>3, <1>5, <2>2, Zenon DEF CpuOK, FrameOK
<1>7. \A d \in CPU : d # c => CpuOK(d)' /\ Top(d)' = Top(d)
  <2> SUFFICES ASSUME NEW d \in CPU, d # c
               PROVE  CpuOK(d)' /\ Top(d)' = Top(d)
    BY Zenon
  <2>1. stack'[d] = stack[d] /\ ipl'[d] = ipl[d] /\ CpuOK(d)
    BY <1>2, Zenon DEF SplInv
  <2>2. Depth(d)' = Depth(d) /\ \A i : Level(d, i)' = Level(d, i)
    BY <2>1, Zenon DEF Depth, Level
  <2> QED BY <2>1, <2>2 DEF CpuOK, Top, FrameOK
<1> QED BY <1>4, <1>5, <1>6, <1>7, Zenon

\* An interrupt: the frame that was running is below new_pil.
LEMMA InterruptKeeps ==
  ASSUME SplInv, NEW c \in CPU, Interrupt(c)
  PROVE  /\ ipl' \in [CPU -> 0 .. 15] /\ stack' \in [CPU -> Seq(FrameType)]
         /\ Top(c)'.pc = "out"
         /\ \A d \in CPU : CpuOK(d)'
         /\ \A d \in CPU : d # c => Top(d)' = Top(d)
<1> DEFINE n == Depth(c)
           f == Frame(ipl[c])
<1>1. /\ stack[c] \in Seq(FrameType) /\ n \in Nat /\ n >= 1 /\ n = Len(stack[c])
      /\ stack \in [CPU -> Seq(FrameType)] /\ CpuOK(c) /\ ipl \in [CPU -> 0 .. 15] /\ ipl[c] \in 0 .. 15
  BY DEF SplInv, CpuOK, Depth
<1>2. PICK l \in IntrLevels : /\ l > ipl[c] /\ ipl' = [ipl EXCEPT ![c] = l]
                              /\ stack' = [stack EXCEPT ![c] = Append(@, Frame(ipl[c]))]
  BY Zenon DEF Interrupt
<1>3. l \in 1 .. 15 /\ l <= new_pil /\ new_pil \in 1 .. 15 /\ ipl'[c] = l /\ ipl' \in [CPU -> 0 .. 15]
  BY <1>1, <1>2, LockSplAssumption
<1>4. f \in FrameType /\ f.pc = "out" /\ f.ret = ipl[c]
  BY <1>1, Zenon DEF Frame, FrameType, FramePC
<1>a. ipl[c] < new_pil
  <2>1. ipl[c] \in 0 .. 15 /\ l \in 1 .. 15 /\ new_pil \in 1 .. 15
    BY <1>1, <1>3, Zenon
  <2>2. l > ipl[c]
    BY <1>2, Zenon
  <2>3. l <= new_pil
    BY <1>3, Zenon
  <2> QED BY ONLY <2>1, <2>2, <2>3
<1>5. /\ stack'[c] = Append(stack[c], f) /\ \A d \in CPU : d # c => stack'[d] = stack[d] /\ ipl'[d] = ipl[d]
  BY <1>1, <1>2, Zenon
<1>6. /\ stack'[c] \in Seq(FrameType) /\ Len(stack'[c]) = n + 1 /\ stack'[c][n + 1] = f
      /\ \A i \in 1 .. n : stack'[c][i] = stack[c][i]
  <2> HIDE DEF f
  <2> QED BY <1>1, <1>4, <1>5
<1>7. stack' \in [CPU -> Seq(FrameType)]
  <2>1. \A d \in CPU : stack'[d] \in Seq(FrameType)
    BY <1>1, <1>5, <1>6, Zenon
  <2> QED BY <1>1, <1>2, <2>1, Zenon
<1>8. Depth(c)' = n + 1 /\ Top(c)' = f
  BY <1>6, Zenon DEF Depth, Top
<1>9. CpuOK(c)'
  <2> SUFFICES ASSUME NEW i \in 1 .. n + 1
               PROVE  FrameOK(stack'[c][i], Level(c, i)', i) /\ (i < n + 1 => Level(c, i)' < new_pil)
    <3>1. ipl'[c] \in 0 .. 15 /\ Depth(c)' >= 1 /\ Depth(c)' = n + 1
      BY <1>1, <1>3, <1>8
    <3> QED BY <1>6, <3>1, Zenon DEF CpuOK, FrameOK
  <2>1. CASE i = n + 1
    <3>1. stack'[c][i] = f /\ Level(c, i)' = l /\ ~(i < n + 1)
      BY <1>1, <1>3, <1>6, <1>8, <2>1 DEF Level
    <3>2. n > 1 => stack[c][n].ret < ipl[c] /\ stack[c][n].ret >= n - 2 /\ stack[c][n].ret \in 0 .. 15
      <4>1. n \in 1 .. Depth(c) /\ Level(c, n) = ipl[c]
        BY <1>1 DEF Level
      <4>2. FrameOK(stack[c][n], ipl[c], n)
        BY <1>1, <4>1, Zenon DEF CpuOK
      <4> QED BY <4>1, <4>2, FrameFacts, Zenon DEF FrameOK
    <3>3. ipl[c] >= i - 2
      <4>1. ipl[c] \in Nat /\ n \in Nat /\ n >= 1 /\ i = n + 1
        BY <1>1, <2>1
      <4>2. CASE n > 1
        <5>1. stack[c][n].ret < ipl[c] /\ stack[c][n].ret >= n - 2 /\ stack[c][n].ret \in 0 .. 15
          BY <3>2, <4>2, Zenon
        <5> QED BY ONLY <5>1, <4>1
      <4>3. CASE n = 1
        BY <4>1, <4>3
      <4> QED BY <4>1, <4>2, <4>3
    <3>4. FrameOK(f, l, i)
      <4>1. ipl[c] \in 0 .. 15 /\ ipl[c] < l
        BY <1>1, <1>2, Zenon
      <4> HIDE DEF f
      <4> QED BY <1>4, <1>a, <3>3, <4>1, Zenon DEF FrameOK
    <3> QED BY <3>1, <3>4, Zenon
  <2>2. CASE i = n
    <3>1. stack'[c][i] = stack[c][i] /\ Level(c, i)' = ipl[c] /\ Level(c, i) = ipl[c]
      BY <1>1, <1>4, <1>6, <1>8, <2>2 DEF Level
    <3>2. FrameOK(stack[c][i], ipl[c], i)
      BY <1>1, <2>2, <3>1 DEF CpuOK
    <3> QED BY <1>a, <3>1, <3>2, Zenon
  <2>3. CASE i < n
    <3>1. stack'[c][i] = stack[c][i] /\ Level(c, i)' = Level(c, i)
      BY <1>1, <1>6, <1>8, <2>3 DEF Level
    <3>2. FrameOK(stack[c][i], Level(c, i), i) /\ Level(c, i) < new_pil
      BY <1>1, <2>3 DEF CpuOK
    <3> QED BY <3>1, <3>2, Zenon
  <2> QED BY <1>1, <2>1, <2>2, <2>3
<1>10. \A d \in CPU : d # c => CpuOK(d)' /\ Top(d)' = Top(d)
  <2> SUFFICES ASSUME NEW d \in CPU, d # c
               PROVE  CpuOK(d)' /\ Top(d)' = Top(d)
    BY Zenon
  <2>1. stack'[d] = stack[d] /\ ipl'[d] = ipl[d] /\ CpuOK(d)
    BY <1>5, Zenon DEF SplInv
  <2>2. Depth(d)' = Depth(d) /\ \A i : Level(d, i)' = Level(d, i)
    BY <2>1, Zenon DEF Depth, Level
  <2> QED BY <2>1, <2>2, Zenon DEF CpuOK, Top, FrameOK
<1> QED BY <1>3, <1>4, <1>7, <1>8, <1>9, <1>10, Zenon

\* The return of a handler: the frame below is neither holding the lock nor
\* about to, and is back at its level.
LEMMA InterruptReturnKeeps ==
  ASSUME SplInv, NEW c \in CPU, InterruptReturn(c)
  PROVE  /\ ipl' \in [CPU -> 0 .. 15] /\ stack' \in [CPU -> Seq(FrameType)]
         /\ Top(c)'.pc \notin {"held", "set"}
         /\ \A d \in CPU : CpuOK(d)'
         /\ \A d \in CPU : d # c => Top(d)' = Top(d)
<1> DEFINE n == Depth(c)
           m == n - 1
<1>1. /\ stack[c] \in Seq(FrameType) /\ n \in Nat /\ n > 1 /\ n = Len(stack[c])
      /\ stack \in [CPU -> Seq(FrameType)] /\ CpuOK(c) /\ ipl \in [CPU -> 0 .. 15]
  BY DEF SplInv, CpuOK, Depth, InterruptReturn
<1>2. Top(c) = stack[c][n] /\ Top(c).ret \in 0 .. 15
  <2>1. n \in 1 .. Depth(c)
    BY <1>1
  <2>2. Top(c) = stack[c][n]
    BY Zenon DEF Top
  <2> QED BY <2>1, <2>2, FrameFacts, Zenon
<1>3. /\ ipl' = [ipl EXCEPT ![c] = Top(c).ret] /\ stack' = [stack EXCEPT ![c] = SubSeq(@, 1, m)]
  BY Zenon DEF InterruptReturn, splx
<1>4. /\ ipl'[c] = stack[c][n].ret /\ ipl'[c] \in 0 .. 15 /\ ipl' \in [CPU -> 0 .. 15]
      /\ stack'[c] = SubSeq(stack[c], 1, m)
      /\ \A d \in CPU : d # c => stack'[d] = stack[d] /\ ipl'[d] = ipl[d]
  BY <1>1, <1>2, <1>3, Zenon
<1>5. /\ stack'[c] \in Seq(FrameType) /\ Len(stack'[c]) = m
      /\ \A i \in 1 .. m : stack'[c][i] = stack[c][i]
  <2>1. m \in Int /\ m >= 1 /\ \A i \in 1 .. m : stack[c][i] \in FrameType
    BY <1>1
  <2> HIDE DEF m
  <2>2. /\ SubSeq(stack[c], 1, m) \in Seq(FrameType)
        /\ Len(SubSeq(stack[c], 1, m)) = IF 1 <= m THEN m - 1 + 1 ELSE 0
        /\ \A i \in 1 .. m - 1 + 1 : SubSeq(stack[c], 1, m)[i] = stack[c][1 + i - 1]
    BY <2>1, SubSeqProperties
  <2> QED BY <1>4, <2>1, <2>2
<1>6. stack' \in [CPU -> Seq(FrameType)]
  <2>1. \A d \in CPU : stack'[d] \in Seq(FrameType)
    BY <1>1, <1>4, <1>5, Zenon
  <2> QED BY <1>1, <1>3, <2>1, Zenon
<1>7. Depth(c)' = m /\ m \in Nat /\ m >= 1 /\ Top(c)' = stack[c][m]
  <2>1. Depth(c)' = m /\ m \in Nat /\ m >= 1
    BY <1>1, <1>5 DEF Depth
  <2>2. m \in 1 .. m
    BY <2>1
  <2>3. Top(c)' = stack'[c][m]
    BY <2>1, Zenon DEF Top
  <2> QED BY <1>5, <2>1, <2>2, <2>3, Zenon
<1>8. CpuOK(c)'
  <2> SUFFICES ASSUME NEW i \in 1 .. m
               PROVE  FrameOK(stack'[c][i], Level(c, i)', i) /\ (i < m => Level(c, i)' < new_pil)
    BY <1>4, <1>5, <1>7, Zenon DEF CpuOK, FrameOK
  <2>1. stack'[c][i] = stack[c][i] /\ i \in 1 .. n /\ i < n
    BY <1>1, <1>5
  <2>2. Level(c, i)' = Level(c, i)
    <3>1. CASE i = m
      BY <1>1, <1>4, <1>7, <2>1, <3>1 DEF Level
    <3>2. CASE i # m
      <4>1. i + 1 \in 1 .. m /\ i # n
        BY <1>1, <3>2
      <4>2. stack'[c][i + 1] = stack[c][i + 1]
        BY <1>5, <4>1, Zenon
      <4>3. Level(c, i) = stack[c][i + 1].ret
        BY <4>1, Zenon DEF Level
      <4>4. Level(c, i)' = stack'[c][i + 1].ret
        BY <1>7, <3>2, Zenon DEF Level
      <4> QED BY <4>2, <4>3, <4>4, Zenon
    <3> QED BY <3>1, <3>2, Zenon
  <2>3. FrameOK(stack[c][i], Level(c, i), i) /\ Level(c, i) < new_pil
    BY <1>1, <2>1, Zenon DEF CpuOK
  <2> QED BY <2>1, <2>2, <2>3, Zenon
<1>9. Top(c)'.pc \notin {"held", "set"}
  <2>1. m \in 1 .. n /\ m < n
    BY <1>1
  <2>2. FrameOK(stack[c][m], Level(c, m), m) /\ Level(c, m) < new_pil
    BY <1>1, <2>1, Zenon DEF CpuOK
  <2>3. Level(c, m) \in Int /\ new_pil \in Int
    <3>1. Level(c, m) \in 0 .. 15 /\ new_pil \in 1 .. 15
      <4> HIDE DEF m
      <4> QED BY <2>1, FrameFacts, Zenon
    <3> QED BY <3>1
  <2> QED BY <1>7, <2>2, <2>3 DEF FrameOK
<1>10. \A d \in CPU : d # c => CpuOK(d)' /\ Top(d)' = Top(d)
  <2> SUFFICES ASSUME NEW d \in CPU, d # c
               PROVE  CpuOK(d)' /\ Top(d)' = Top(d)
    BY Zenon
  <2>1. stack'[d] = stack[d] /\ ipl'[d] = ipl[d] /\ CpuOK(d)
    BY <1>4, Zenon DEF SplInv
  <2>2. Depth(d)' = Depth(d) /\ \A i : Level(d, i)' = Level(d, i)
    BY <2>1, Zenon DEF Depth, Level
  <2> QED BY <2>1, <2>2, Zenon DEF CpuOK, Top, FrameOK
<1> QED BY <1>4, <1>6, <1>8, <1>9, <1>10, Zenon

-----------------------------------------------------------------------------
\* A step of c that leaves the other processors' frames alone keeps the lock
\* exclusive, if c is a holder afterwards only by having found it free or by
\* having had it before.
LEMMA HolderKeeps ==
  ASSUME SplInv, NEW c \in CPU, lock' \in {0, -1},
         ipl' \in [CPU -> 0 .. 15], stack' \in [CPU -> Seq(FrameType)],
         \A d \in CPU : CpuOK(d)',
         \A d \in CPU : d # c => Top(d)' = Top(d),
         \/ Holder(c)' /\ lock = 0 /\ lock' = -1
         \/ ~Holder(c)' /\ (lock' = 0 => Holder(c) \/ lock = 0)
         \/ Holder(c)' /\ Holder(c) /\ lock' = lock
  PROVE  SplInv'
<1>1. \A d \in CPU : d # c => Holder(d)' = Holder(d)
  BY Zenon DEF Holder
<1>2. \A d, e \in CPU : Holder(d) => lock = -1 /\ (Holder(e) => d = e)
  BY Zenon DEF SplInv
<1>3. \A d \in CPU : Holder(d)' => lock' = -1 /\ \A e \in CPU : Holder(e)' => d = e
  BY <1>1, <1>2
<1> QED BY <1>3, Zenon DEF SplInv

\* A step of the running frame of c, with its new frame f and its new level.
LEMMA FrameStep ==
  ASSUME SplInv, NEW c \in CPU, NEW f \in FrameType, SetTop(c, f), f.ret = Top(c).ret,
         NEW level \in 0 .. 15, ipl' = [ipl EXCEPT ![c] = level], lock' \in {0, -1},
         FrameOK(f, level, Depth(c)),
         \/ f.pc \in {"held", "set"} /\ lock = 0 /\ lock' = -1
         \/ /\ f.pc \notin {"held", "set"}
            /\ lock' = 0 => Top(c).pc \in {"held", "set"} \/ lock = 0
  PROVE  SplInv'
<1>1. ipl' \in [CPU -> 0 .. 15] /\ ipl'[c] = level /\ \A d \in CPU : d # c => ipl'[d] = ipl[d]
  BY Zenon DEF SplInv
<1>2. /\ stack' \in [CPU -> Seq(FrameType)] /\ Top(c)' = f
      /\ \A d \in CPU : CpuOK(d)'
      /\ \A d \in CPU : d # c => Top(d)' = Top(d)
  BY <1>1, GotoKeeps, Zenon
<1>3. Holder(c)' <=> f.pc \in {"held", "set"}
  BY <1>2, Zenon DEF Holder
<1>4. Holder(c) <=> Top(c).pc \in {"held", "set"}
  BY Zenon DEF Holder
<1> QED BY <1>1, <1>2, <1>3, <1>4, HolderKeeps, Zenon

\* What is known of the running frame.
LEMMA TopFacts ==
  ASSUME SplInv, NEW c \in CPU
  PROVE  /\ Top(c) \in FrameType /\ ipl[c] \in 0 .. 15 /\ Depth(c) \in Nat /\ new_pil \in 1 .. 15
         /\ FrameOK(Top(c), ipl[c], Depth(c))
<1>1. CpuOK(c)
  BY Zenon DEF SplInv
<1>2. Depth(c) \in Nat /\ Depth(c) >= 1
  BY <1>1 DEF CpuOK, Depth
<1>3. Depth(c) \in 1 .. Depth(c)
  BY <1>2
<1>4. Level(c, Depth(c)) = ipl[c]
  BY Zenon DEF Level
<1>5. FrameOK(stack[c][Depth(c)], ipl[c], Depth(c))
  BY <1>1, <1>3, <1>4, Zenon DEF CpuOK
<1>6. Top(c) = stack[c][Depth(c)]
  BY Zenon DEF Top
<1>7. Top(c) \in FrameType
  BY <1>3, <1>6, FrameFacts, Zenon
<1> QED BY <1>1, <1>2, <1>5, <1>6, <1>7, LockSplAssumption, Zenon DEF CpuOK

\* A frame that only moves on in the code.
LEMMA PcStep ==
  ASSUME SplInv, NEW c \in CPU, NEW p \in FramePC
  PROVE  LET f == [Top(c) EXCEPT !.pc = p] IN
         /\ f \in FrameType /\ f.pc = p /\ f.ret = Top(c).ret
         /\ f.entry = Top(c).entry /\ f.old_pil = Top(c).old_pil
BY TopFacts, Zenon DEF FrameType

\* SplInv is an invariant of the spin locks.
LEMMA SplInvariant == LockSplSpec => []SplInv
<1>1. LockSplInit => SplInv
  <2> SUFFICES ASSUME LockSplInit PROVE SplInv
    BY Zenon
  <2>1. Frame(0) \in FrameType /\ Frame(0).pc = "out"
    BY DEF Frame, FrameType, FramePC
  <2>2. \A c \in CPU : /\ stack[c] = <<Frame(0)>> /\ ipl[c] = 0 /\ stack[c] \in Seq(FrameType)
                       /\ Depth(c) = 1 /\ stack[c][1] = Frame(0) /\ Top(c) = Frame(0)
    <3>1. \A g \in FrameType : <<g>> \in Seq(FrameType) /\ Len(<<g>>) = 1 /\ <<g>>[1] = g
      OBVIOUS
    <3> QED BY <2>1, <3>1, Zenon DEF LockSplInit, Depth, Top
  <2>3. ASSUME NEW c \in CPU
        PROVE  CpuOK(c)
    <3>1. FrameOK(Frame(0), 0, 1)
      BY <2>1 DEF FrameOK
    <3>2. Level(c, 1) = 0
      BY <2>2, Zenon DEF Level
    <3>3. \A i \in 1 .. Depth(c) : i = 1 /\ ~(i < Depth(c))
      BY <2>2
    <3> QED BY <2>2, <3>1, <3>2, <3>3 DEF CpuOK
  <2>4. \A c \in CPU : ~Holder(c)
    BY <2>1, <2>2, Zenon DEF Holder
  <2>5. lock \in {0, -1} /\ ipl \in [CPU -> 0 .. 15] /\ stack \in [CPU -> Seq(FrameType)]
    BY <2>1 DEF LockSplInit
  <2> QED BY <2>3, <2>4, <2>5, Zenon DEF SplInv
<1>2. SplInv /\ [LockSplNext]_lockSplVars => SplInv'
  <2> SUFFICES ASSUME SplInv, [LockSplNext]_lockSplVars
               PROVE  SplInv'
    BY ZenonT(30)
  <2>1. CASE UNCHANGED lockSplVars
    BY <2>1 DEF lockSplVars, SplInv, CpuOK, Depth, Level, FrameOK, Holder, Top
  <2>2. ASSUME NEW c \in CPU, lock_set_spl(c)
        PROVE  SplInv'
    <3> DEFINE f == [Top(c) EXCEPT !.pc = "try", !.entry = ipl[c], !.old_pil = ipl[c]]
               level == IF new_pil > ipl[c] THEN new_pil ELSE ipl[c]
    <3>1. /\ Top(c).pc = "out" /\ SetTop(c, f) /\ ipl' = [ipl EXCEPT ![c] = level] /\ lock' = lock
      BY <2>2, Zenon DEF lock_set_spl, FrameAt, splr
    <3>2. f \in FrameType /\ f.pc = "try" /\ f.ret = Top(c).ret /\ f.entry = ipl[c] /\ f.old_pil = ipl[c]
      BY TopFacts, Zenon DEF FrameType, FramePC
    <3>3. level \in 0 .. 15 /\ FrameOK(f, level, Depth(c))
      <4> HIDE DEF f
      <4> QED BY TopFacts, <3>1, <3>2 DEF FrameOK, FrameType
    <3>4. lock' \in {0, -1}
      BY <3>1, Zenon DEF SplInv
    <3> HIDE DEF f, level
    <3> QED BY <3>1, <3>2, <3>3, <3>4, FrameStep, Zenon
  <2>3. ASSUME NEW c \in CPU, lss_try(c)
        PROVE  SplInv'
    <3>1. PICK got \in BOOLEAN : /\ xchg(got) /\ SetTop(c, [Top(c) EXCEPT !.pc = IF got THEN "held" ELSE "miss"])
                                 /\ Top(c).pc = "try" /\ ipl' = ipl
                                 /\ Top(c).pc = "out" => ipl[c] >= new_pil
      BY <2>3, Zenon DEF lss_try, FrameAt
    <3> DEFINE p == IF got THEN "held" ELSE "miss"
               f == [Top(c) EXCEPT !.pc = p]
    <3>2. /\ f \in FrameType /\ f.pc = p /\ f.ret = Top(c).ret
          /\ f.entry = Top(c).entry /\ f.old_pil = Top(c).old_pil
      <4>1. p \in FramePC
        BY Zenon DEF FramePC
      <4> HIDE DEF p
      <4> QED BY <4>1, PcStep, Zenon
    <3>3. ipl[c] \in 0 .. 15 /\ FrameOK(f, ipl[c], Depth(c))
      <4> HIDE DEF f
      <4> QED BY TopFacts, <3>1, <3>2, Zenon DEF FrameOK, FrameType
    <3>4. ipl' = [ipl EXCEPT ![c] = ipl[c]] /\ lock' = -1 /\ lock \in {0, -1}
      BY <3>1, Zenon DEF SplInv, xchg
    <3>5. \/ f.pc \in {"held", "set"} /\ lock = 0
          \/ f.pc \notin {"held", "set"}
      <4>1. got => lock = 0
        BY <3>1, Zenon DEF xchg
      <4> HIDE DEF f
      <4> QED BY <3>2, <4>1, Zenon
    <3>6. SetTop(c, f)
      BY <3>1, Zenon
    <3> HIDE DEF f
    <3> QED BY <3>2, <3>3, <3>4, <3>5, <3>6, FrameStep, Zenon
  <2>4. ASSUME NEW c \in CPU, SpinLower(c)
        PROVE  SplInv'
    <3> DEFINE f == [Top(c) EXCEPT !.pc = "spin"]
               level == Top(c).old_pil
    <3>1. /\ Top(c).pc = "miss" /\ SetTop(c, f) /\ ipl' = [ipl EXCEPT ![c] = level] /\ lock' = lock
      BY <2>4, Zenon DEF SpinLower, FrameAt, splx, SplInv
    <3>2. /\ f \in FrameType /\ f.pc = "spin" /\ f.ret = Top(c).ret
          /\ f.entry = Top(c).entry /\ f.old_pil = Top(c).old_pil
      BY PcStep, Zenon DEF FramePC
    <3>3. level \in 0 .. 15 /\ FrameOK(f, level, Depth(c))
      <4> HIDE DEF f
      <4> QED BY TopFacts, <3>1, <3>2, Zenon DEF FrameOK, FrameType
    <3>4. lock' \in {0, -1}
      BY <3>1, Zenon DEF SplInv
    <3> HIDE DEF f, level
    <3> QED BY <3>1, <3>2, <3>3, <3>4, FrameStep, Zenon
  <2>5. ASSUME NEW c \in CPU, SpinRaise(c)
        PROVE  SplInv'
    <3> DEFINE f == [Top(c) EXCEPT !.pc = "try"]
               level == (IF new_pil > ipl[c] THEN new_pil ELSE ipl[c])
    <3>1. /\ Top(c).pc = "spin" /\ SetTop(c, f) /\ ipl' = [ipl EXCEPT ![c] = level] /\ lock' = lock
      BY <2>5, Zenon DEF SpinRaise, FrameAt, splr, SplInv
    <3>2. /\ f \in FrameType /\ f.pc = "try" /\ f.ret = Top(c).ret
          /\ f.entry = Top(c).entry /\ f.old_pil = Top(c).old_pil
      BY PcStep, Zenon DEF FramePC
    <3>3. level \in 0 .. 15 /\ FrameOK(f, level, Depth(c))
      <4> HIDE DEF f
      <4> QED BY TopFacts, <3>1, <3>2 DEF FrameOK, FrameType
    <3>4. lock' \in {0, -1}
      BY <3>1, Zenon DEF SplInv
    <3> HIDE DEF f, level
    <3> QED BY <3>1, <3>2, <3>3, <3>4, FrameStep, Zenon
  <2>6. ASSUME NEW c \in CPU, lock_clear_splx(c)
        PROVE  SplInv'
    <3> DEFINE f == [Top(c) EXCEPT !.pc = "cleared"]
               level == ipl[c]
    <3>1. /\ Top(c).pc = "held" /\ SetTop(c, f) /\ ipl' = [ipl EXCEPT ![c] = level] /\ lock' = 0
      BY <2>6, Zenon DEF lock_clear_splx, FrameAt, SplInv
    <3>2. /\ f \in FrameType /\ f.pc = "cleared" /\ f.ret = Top(c).ret
          /\ f.entry = Top(c).entry /\ f.old_pil = Top(c).old_pil
      BY PcStep, Zenon DEF FramePC
    <3>3. level \in 0 .. 15 /\ FrameOK(f, level, Depth(c))
      <4> HIDE DEF f
      <4> QED BY TopFacts, <3>1, <3>2, Zenon DEF FrameOK, FrameType
    <3>4. lock' \in {0, -1}
      BY <3>1, Zenon DEF SplInv
    <3> HIDE DEF f, level
    <3> QED BY <3>1, <3>2, <3>3, <3>4, FrameStep, Zenon
  <2>7. ASSUME NEW c \in CPU, lcs_spl(c)
        PROVE  SplInv'
    <3> DEFINE f == [Top(c) EXCEPT !.pc = "out"]
               level == Top(c).old_pil
    <3>1. /\ Top(c).pc = "cleared" /\ SetTop(c, f) /\ ipl' = [ipl EXCEPT ![c] = level] /\ lock' = lock
      BY <2>7, Zenon DEF lcs_spl, FrameAt, splx, SplInv
    <3>2. /\ f \in FrameType /\ f.pc = "out" /\ f.ret = Top(c).ret
          /\ f.entry = Top(c).entry /\ f.old_pil = Top(c).old_pil
      BY PcStep, Zenon DEF FramePC
    <3>3. level \in 0 .. 15 /\ FrameOK(f, level, Depth(c))
      <4> HIDE DEF f
      <4> QED BY TopFacts, <3>1, <3>2, Zenon DEF FrameOK, FrameType
    <3>4. lock' \in {0, -1}
      BY <3>1, Zenon DEF SplInv
    <3> HIDE DEF f, level
    <3> QED BY <3>1, <3>2, <3>3, <3>4, FrameStep, Zenon
  <2>8. ASSUME NEW c \in CPU, lock_set(c)
        PROVE  SplInv'
    <3>1. PICK got \in BOOLEAN : /\ xchg(got) /\ SetTop(c, [Top(c) EXCEPT !.pc = IF got THEN "set" ELSE "set_spin"])
                                 /\ Top(c).pc = "out" /\ ipl' = ipl
                                 /\ Top(c).pc = "out" => ipl[c] >= new_pil
      BY <2>8, Zenon DEF lock_set, FrameAt
    <3> DEFINE p == IF got THEN "set" ELSE "set_spin"
               f == [Top(c) EXCEPT !.pc = p]
    <3>2. /\ f \in FrameType /\ f.pc = p /\ f.ret = Top(c).ret
          /\ f.entry = Top(c).entry /\ f.old_pil = Top(c).old_pil
      <4>1. p \in FramePC
        BY Zenon DEF FramePC
      <4> HIDE DEF p
      <4> QED BY <4>1, PcStep
    <3>3. ipl[c] \in 0 .. 15 /\ FrameOK(f, ipl[c], Depth(c))
      <4> HIDE DEF f
      <4> QED BY TopFacts, <3>1, <3>2, Zenon DEF FrameOK, FrameType
    <3>4. ipl' = [ipl EXCEPT ![c] = ipl[c]] /\ lock' = -1 /\ lock \in {0, -1}
      BY <3>1, Zenon DEF SplInv, xchg
    <3>5. \/ f.pc \in {"held", "set"} /\ lock = 0
          \/ f.pc \notin {"held", "set"}
      <4>1. got => lock = 0
        BY <3>1, Zenon DEF xchg
      <4> HIDE DEF f
      <4> QED BY <3>2, <4>1, Zenon
    <3>6. SetTop(c, f)
      BY <3>1, Zenon
    <3> HIDE DEF f
    <3> QED BY <3>2, <3>3, <3>4, <3>5, <3>6, FrameStep, Zenon
  <2>9. ASSUME NEW c \in CPU, lock_set_spin(c)
        PROVE  SplInv'
    <3>1. PICK got \in BOOLEAN : /\ xchg(got) /\ SetTop(c, [Top(c) EXCEPT !.pc = IF got THEN "set" ELSE "set_spin"])
                                 /\ Top(c).pc = "set_spin" /\ ipl' = ipl
                                 /\ Top(c).pc = "out" => ipl[c] >= new_pil
      BY <2>9, Zenon DEF lock_set_spin, FrameAt
    <3> DEFINE p == IF got THEN "set" ELSE "set_spin"
               f == [Top(c) EXCEPT !.pc = p]
    <3>2. /\ f \in FrameType /\ f.pc = p /\ f.ret = Top(c).ret
          /\ f.entry = Top(c).entry /\ f.old_pil = Top(c).old_pil
      <4>1. p \in FramePC
        BY DEF FramePC
      <4> HIDE DEF p
      <4> QED BY <4>1, PcStep
    <3>3. ipl[c] \in 0 .. 15 /\ FrameOK(f, ipl[c], Depth(c))
      <4> HIDE DEF f
      <4> QED BY TopFacts, <3>1, <3>2, Zenon DEF FrameOK, FrameType
    <3>4. ipl' = [ipl EXCEPT ![c] = ipl[c]] /\ lock' = -1 /\ lock \in {0, -1}
      BY <3>1, Zenon DEF SplInv, xchg
    <3>5. \/ f.pc \in {"held", "set"} /\ lock = 0
          \/ f.pc \notin {"held", "set"}
      <4>1. got => lock = 0
        BY <3>1, Zenon DEF xchg
      <4> HIDE DEF f
      <4> QED BY <3>2, <4>1
    <3>6. SetTop(c, f)
      BY <3>1, Zenon
    <3> HIDE DEF f
    <3> QED BY <3>2, <3>3, <3>4, <3>5, <3>6, FrameStep, Zenon
  <2>10. ASSUME NEW c \in CPU, lock_try(c)
        PROVE  SplInv'
    <3>1. PICK got \in BOOLEAN : /\ xchg(got) /\ SetTop(c, [Top(c) EXCEPT !.pc = IF got THEN "set" ELSE "out"])
                                 /\ Top(c).pc = "out" /\ ipl' = ipl
                                 /\ Top(c).pc = "out" => ipl[c] >= new_pil
      BY <2>10, Zenon DEF lock_try, FrameAt
    <3> DEFINE p == IF got THEN "set" ELSE "out"
               f == [Top(c) EXCEPT !.pc = p]
    <3>2. /\ f \in FrameType /\ f.pc = p /\ f.ret = Top(c).ret
          /\ f.entry = Top(c).entry /\ f.old_pil = Top(c).old_pil
      <4>1. p \in FramePC
        BY Zenon DEF FramePC
      <4> HIDE DEF p
      <4> QED BY <4>1, PcStep
    <3>3. ipl[c] \in 0 .. 15 /\ FrameOK(f, ipl[c], Depth(c))
      <4> HIDE DEF f
      <4> QED BY TopFacts, <3>1, <3>2, Zenon DEF FrameOK, FrameType
    <3>4. ipl' = [ipl EXCEPT ![c] = ipl[c]] /\ lock' = -1 /\ lock \in {0, -1}
      BY <3>1, Zenon DEF SplInv, xchg
    <3>5. \/ f.pc \in {"held", "set"} /\ lock = 0
          \/ f.pc \notin {"held", "set"}
      <4>1. got => lock = 0
        BY <3>1, Zenon DEF xchg
      <4> HIDE DEF f
      <4> QED BY <3>2, <4>1, Zenon
    <3>6. SetTop(c, f)
      BY <3>1, Zenon
    <3> HIDE DEF f
    <3> QED BY <3>2, <3>3, <3>4, <3>5, <3>6, FrameStep, Zenon
  <2>11. ASSUME NEW c \in CPU, lock_clear(c)
        PROVE  SplInv'
    <3> DEFINE f == [Top(c) EXCEPT !.pc = "out"]
               level == ipl[c]
    <3>1. /\ Top(c).pc = "set" /\ SetTop(c, f) /\ ipl' = [ipl EXCEPT ![c] = level] /\ lock' = 0
      BY <2>11, Zenon DEF lock_clear, FrameAt, SplInv
    <3>2. /\ f \in FrameType /\ f.pc = "out" /\ f.ret = Top(c).ret
          /\ f.entry = Top(c).entry /\ f.old_pil = Top(c).old_pil
      BY PcStep, Zenon DEF FramePC
    <3>3. level \in 0 .. 15 /\ FrameOK(f, level, Depth(c))
      <4> HIDE DEF f
      <4> QED BY TopFacts, <3>1, <3>2, Zenon DEF FrameOK, FrameType
    <3>4. lock' \in {0, -1}
      BY <3>1, Zenon DEF SplInv
    <3> HIDE DEF f, level
    <3> QED BY <3>1, <3>2, <3>3, <3>4, FrameStep, Zenon
  <2>12. ASSUME NEW c \in CPU, Interrupt(c)
        PROVE  SplInv'
    <3>1. lock' = lock /\ lock \in {0, -1}
      BY <2>12, Zenon DEF Interrupt, SplInv
    <3>2. ~Holder(c)'
      BY <2>12, InterruptKeeps, Zenon DEF Holder
    <3> QED BY <2>12, <3>1, <3>2, InterruptKeeps, HolderKeeps, Zenon
  <2>13. ASSUME NEW c \in CPU, InterruptReturn(c)
        PROVE  SplInv'
    <3>1. lock' = lock /\ lock \in {0, -1}
      BY <2>13, Zenon DEF InterruptReturn, SplInv
    <3>2. ~Holder(c)'
      BY <2>13, InterruptReturnKeeps, Zenon DEF Holder
    <3> QED BY <2>13, <3>1, <3>2, InterruptReturnKeeps, HolderKeeps, Zenon
  <2>14. ASSUME NEW c \in CPU, OtherSpl(c)
        PROVE  SplInv'
    <3>1. /\ Top(c).pc = "out" /\ Depth(c) = 1 /\ lock' = lock /\ stack' = stack
          /\ ipl' = [ipl EXCEPT ![c] = IF @ = 0 THEN OtherLevel ELSE 0]
      BY <2>14, Zenon DEF OtherSpl, FrameAt
    <3>2. ipl' \in [CPU -> 0 .. 15] /\ \A d \in CPU : d # c => ipl'[d] = ipl[d]
      BY <3>1, LockSplAssumption DEF SplInv
    <3>3. \A d \in CPU : Top(d)' = Top(d) /\ Depth(d)' = Depth(d)
      BY <3>1, ZenonT(30) DEF Top, Depth
    <3>4. ASSUME NEW d \in CPU, d # c
          PROVE  CpuOK(d)'
      <4>1. \A i : Level(d, i)' = Level(d, i)
        BY <3>1, <3>2, <3>3, <3>4, Zenon DEF Level
      <4> QED BY <3>1, <3>2, <3>3, <3>4, <4>1 DEF SplInv, CpuOK, FrameOK
    <3>5. CpuOK(c)'
      <4>1. stack[c][1].pc = "out" /\ stack[c] \in Seq(FrameType)
        BY <3>1, Zenon DEF Top, SplInv
      <4>2. \A level : FrameOK(stack[c][1], level, 1)
        BY <4>1 DEF FrameOK
      <4>3. \A i \in 1 .. Depth(c)' : i = 1 /\ ~(i < Depth(c)')
        BY <3>1, <3>3
      <4>4. ipl'[c] \in 0 .. 15 /\ Depth(c)' >= 1 /\ stack'[c] = stack[c]
        BY <3>1, <3>2, <3>3
      <4> QED BY <4>1, <4>2, <4>3, <4>4, Zenon DEF CpuOK, FrameOK
    <3> QED BY <3>1, <3>2, <3>3, <3>4, <3>5, Zenon DEF SplInv, Holder
  <2>15. ASSUME NEW c \in CPU, Spin(c)
        PROVE  SplInv'
    BY <2>1, <2>15, Zenon DEF Spin
  <2> QED BY <2>1, <2>2, <2>3, <2>4, <2>5, <2>6, <2>7, <2>8, <2>9, <2>10, <2>11, <2>12, <2>13, Zenon,
             <2>14, <2>15 DEF LockSplNext, Progress, Begin
<1> QED BY <1>1, <1>2, PTL DEF LockSplSpec

-----------------------------------------------------------------------------
\* A frame that was interrupted neither has the lock nor waits for it at the
\* lock's level: only its spin loop runs at the level of its caller.
LEMMA Interrupted ==
  ASSUME SplInv, NEW c \in CPU, NEW i \in 1 .. Depth(c), i # Depth(c)
  PROVE  stack[c][i].pc \in {"out", "spin"}
<1>1. i < Depth(c) /\ Level(c, i) \in 0 .. 15 /\ new_pil \in 1 .. 15 /\ stack[c][i].pc \in FramePC
  BY FrameFacts DEF FrameType
<1>2. FrameOK(stack[c][i], Level(c, i), i) /\ Level(c, i) < new_pil
  BY <1>1, Zenon DEF SplInv, CpuOK
<1> QED BY <1>1, <1>2 DEF FrameOK, FramePC

\* Types and depth: the levels that handlers interrupt go up, so there is
\* one frame for the thread and at most one for each level of the lock.
THEOREM SplTypeCorrect == LockSplSpec => []LockSplTypeOK
<1>1. SplInv => LockSplTypeOK
  <2> SUFFICES ASSUME SplInv PROVE LockSplTypeOK
    BY Zenon
  <2>1. ASSUME NEW c \in CPU
        PROVE  /\ Depth(c) \in 1 .. new_pil + 1
               /\ \A i \in 1 .. Depth(c) :
                    /\ stack[c][i].pc \in FramePC
                    /\ {stack[c][i].ret, stack[c][i].entry, stack[c][i].old_pil} \subseteq 0 .. 15
    <3>1. Depth(c) \in Nat /\ Depth(c) >= 1 /\ new_pil \in 1 .. 15
      BY LockSplAssumption DEF SplInv, CpuOK, Depth
    <3>2. Depth(c) \in 1 .. Depth(c)
      BY <3>1
    <3>3. Depth(c) > 1 => Top(c).ret < new_pil /\ Top(c).ret >= Depth(c) - 2 /\ Top(c).ret \in 0 .. 15
      BY TopFacts, Zenon DEF FrameOK, FrameType
    <3>4. Depth(c) \in 1 .. new_pil + 1
      BY <3>1, <3>3
    <3> QED BY <3>4, FrameFacts DEF FrameType
  <2> QED BY <2>1, Zenon DEF SplInv, LockSplTypeOK, FramePC
<1> QED BY <1>1, SplInvariant, PTL

\* One frame of one processor has the lock.
THEOREM SplOneHolder == LockSplSpec => []OneHolder
<1>1. SplInv => OneHolder
  <2> SUFFICES ASSUME SplInv, NEW c \in CPU, NEW d \in CPU,
                      NEW i \in 1 .. Depth(c), NEW j \in 1 .. Depth(d), Holds(c, i)
               PROVE  lock = -1 /\ (Holds(d, j) => c = d /\ i = j)
    BY Zenon DEF OneHolder
  <2>1. i = Depth(c) /\ Holder(c)
    BY Interrupted, Zenon DEF Holds, Holder, Top
  <2>2. Holds(d, j) => j = Depth(d) /\ Holder(d)
    BY Interrupted, Zenon DEF Holds, Holder, Top
  <2> QED BY <2>1, <2>2, Zenon DEF SplInv
<1> QED BY <1>1, SplInvariant, PTL

\* No handler waits for the lock above the frame that has it.
THEOREM SplNoSelfDeadlock == LockSplSpec => []NoSelfDeadlock
<1>1. SplInv => NoSelfDeadlock
  <2> SUFFICES ASSUME SplInv, NEW c \in CPU, NEW i \in 1 .. Depth(c) - 1
               PROVE  ~Holds(c, i)
    BY Zenon DEF NoSelfDeadlock
  <2>1. Depth(c) \in Nat
    BY TopFacts, Zenon
  <2>2. i \in 1 .. Depth(c) /\ i # Depth(c)
    BY <2>1
  <2> QED BY <2>2, Interrupted, Zenon DEF Holds
<1> QED BY <1>1, SplInvariant, PTL

\* Taking the lock never lowers the level.
THEOREM SplHolderLevel == LockSplSpec => []HolderLevel
<1>1. SplInv => HolderLevel
  BY TopFacts, Zenon DEF HolderLevel, FrameAt, FrameOK
<1> QED BY <1>1, SplInvariant, PTL

\* lock_clear_splx() returns to the level lock_set_spl() was called at.
THEOREM SplLevelRestored == LockSplSpec => LevelRestored
<1> DEFINE P == \A c \in CPU : (FrameAt(c, "cleared") /\ stack'[c] # stack[c] /\ Len(stack'[c]) = Depth(c))
                                 => ipl'[c] = Top(c).entry
<1>1. SplInv /\ [LockSplNext]_lockSplVars => [P]_lockSplVars
  <2> SUFFICES ASSUME SplInv, LockSplNext, NEW c \in CPU, FrameAt(c, "cleared"), stack'[c] # stack[c]
               PROVE  ipl'[c] = Top(c).entry
    BY Zenon
  <2>1. PICK d \in CPU : Progress(d) \/ Begin(d)
    BY Zenon DEF LockSplNext
  <2>2. stack \in [CPU -> Seq(FrameType)] /\ ipl \in [CPU -> 0 .. 15] /\ Top(c).pc = "cleared"
    BY Zenon DEF SplInv, FrameAt
  <2>3. d = c
    <3>1. \A f : SetTop(d, f) /\ d # c => stack'[c] = stack[c]
      BY <2>2, Zenon DEF SetTop
    <3> QED BY <2>1, <2>2, <3>1, Zenon DEF Progress, Begin, lss_try, SpinLower, SpinRaise, lock_clear_splx, lcs_spl,
          lock_set_spin, lock_clear, lock_set_spl, lock_set, lock_try, Spin, Interrupt, InterruptReturn, OtherSpl, lockSplVars
  <2>4. ~Interrupt(c)
    <3>1. ipl[c] >= new_pil /\ ipl[c] \in 0 .. 15 /\ new_pil \in 1 .. 15
      BY <2>2, TopFacts, Zenon DEF FrameOK
    <3>2. \A l \in IntrLevels : l \in 1 .. new_pil
      BY LockSplAssumption, Zenon
    <3>3. \A l \in IntrLevels : ~(l > ipl[c])
      BY <3>1, <3>2
    <3> QED BY <3>3, Zenon DEF Interrupt
  <2>5. lcs_spl(c)
    BY <2>1, <2>2, <2>3, <2>4, Zenon DEF Progress, Begin, lss_try, SpinLower, SpinRaise, lock_clear_splx,
          lock_set_spin, lock_clear, lock_set_spl, lock_set, lock_try, Spin, InterruptReturn, OtherSpl, FrameAt
  <2>6. ipl'[c] = Top(c).old_pil
    BY <2>2, <2>5, Zenon DEF lcs_spl, splx
  <2> QED BY <2>2, <2>6, TopFacts, Zenon DEF FrameOK
<1> QED BY <1>1, SplInvariant, PTL DEF LockSplSpec, LevelRestored

-----------------------------------------------------------------------------
(* Lockstat: the probes.                                                   *)

\* The types of the probe map, the patched text, the counts of the threads
\* with their store buffers, and the driver.
LockstatTypeOK ==
  /\ lockstat_probemap \subseteq LsEvent
  /\ text \in [DOMAIN PatchPoints -> {"ret", "nop"}]
  /\ t_lockstat \in [LsThread -> Int]
  /\ store_buf \in [LsThread -> Seq(Int)]
  /\ ls_pc \in [LsThread -> {"out", "inc", "record_inc", "membar", "load", "probe", "dec"}]
  /\ ls_event \in [LsThread -> LsEvent]
  /\ driver_pc \in {"idle", "patch", "delay", "active"}
  /\ patched \in 0 .. Len(PatchPoints)
  /\ pending \subseteq LsThread

\* A thread whose probe was taken away while it was calling it.
Stale(t) == ls_pc[t] = "probe" /\ ls_event[t] \notin lockstat_probemap

\* What the thread last stored in t_lockstat: it is counted from the
\* increment of lockstat_wrapper to the decrement.
Counted(t) == IF ls_pc[t] \in {"membar", "load", "probe", "dec"} THEN 1 ELSE 0

\* The invariant.  A thread that calls a probe whose consumer has gone has
\* stored its count before it loaded the probe map, and the driver that took
\* the probe away waits until it has seen no count.
LockstatInv ==
  /\ LockstatTypeOK
  /\ ProbeHasConsumer
  /\ lockstat_probemap \subseteq consumed
  /\ \A t \in LsThread :
       /\ OwnLockstat(t) = Counted(t)
       /\ Stale(t) => /\ driver_pc # "idle"
                      /\ driver_pc = "delay" => t \in pending \/ store_buf[t] = << >>
                      /\ driver_pc = "active" => store_buf[t] = << >>
  /\ \A i \in DOMAIN PatchPoints :
       driver_pc # "patch" \/ i <= patched => text[i] = Instruction(i)

\* The patch points are a sequence with at least one element.
LEMMA PatchPointsAre ==
  /\ PatchPoints \in Seq(LsEvent) /\ Len(PatchPoints) \in Nat
  /\ DOMAIN PatchPoints = 1 .. Len(PatchPoints)
  /\ 1 \in DOMAIN PatchPoints
  /\ \A i \in DOMAIN PatchPoints : PatchPoints[i] \in LsEvent
BY LockstatAssumption DEF LsEvent

\* No probe is enabled and the driver is idle.
LEMMA LockstatInitial == LockstatInit => LockstatInv
<1> SUFFICES ASSUME LockstatInit PROVE LockstatInv
  OBVIOUS
<1>1. LockstatTypeOK
  BY PatchPointsAre DEF LockstatInit, LockstatTypeOK
<1> QED BY <1>1, Zenon DEF LockstatInit, LockstatInv, ProbeHasConsumer, OwnLockstat, Counted, Stale, Instruction

\* A sequence and its tail: the lengths m and n.
LEMMA OneShorter ==
  \A m \in Nat \ {0} : \A n : n = m - 1 =>
    /\ n = 0 => m = 1
    /\ n # 0 => n \in 1 .. n /\ n + 1 = m /\ m # 1
OBVIOUS

\* The last element of a sequence, after appending one and after removing the first.
LEMMA LastOf ==
  ASSUME NEW q \in Seq(Int)
  PROVE  /\ \A v \in Int : /\ Append(q, v) \in Seq(Int) /\ Append(q, v) # << >>
                           /\ Append(q, v)[Len(Append(q, v))] = v
         /\ q # << >> => /\ Head(q) \in Int /\ Tail(q) \in Seq(Int)
                         /\ Tail(q) = << >> <=> Len(q) = 1
                         /\ Tail(q) = << >> => Head(q) = q[Len(q)]
                         /\ Tail(q) # << >> => Tail(q)[Len(Tail(q))] = q[Len(q)]
<1>1. ASSUME NEW v \in Int
      PROVE  /\ Append(q, v) \in Seq(Int) /\ Append(q, v) # << >>
             /\ Append(q, v)[Len(Append(q, v))] = v
  BY AppendProperties
<1>2. ASSUME q # << >>
      PROVE  /\ Head(q) \in Int /\ Tail(q) \in Seq(Int)
             /\ Tail(q) = << >> <=> Len(q) = 1
             /\ Tail(q) = << >> => Head(q) = q[Len(q)]
             /\ Tail(q) # << >> => Tail(q)[Len(Tail(q))] = q[Len(q)]
  <2>1. /\ Head(q) = q[1] /\ Head(q) \in Int /\ Tail(q) \in Seq(Int)
        /\ Len(Tail(q)) = Len(q) - 1 /\ Len(q) \in Nat \ {0}
    BY <1>2, EmptySeq, HeadTailProperties
  <2>2. \A i \in 1 .. Len(Tail(q)) : Tail(q)[i] = q[i + 1]
    BY <1>2, HeadTailProperties, Zenon
  <2>3. Tail(q) = << >> <=> Len(Tail(q)) = 0
    BY <2>1, EmptySeq, Zenon
  <2>4. CASE Tail(q) = << >>
    <3>1. Len(q) = 1
      BY <2>1, <2>3, <2>4, OneShorter, Zenon
    <3> QED BY <2>1, <2>4, <3>1, Zenon
  <2>5. CASE Tail(q) # << >>
    <3>1. /\ Len(Tail(q)) \in 1 .. Len(Tail(q)) /\ Len(Tail(q)) + 1 = Len(q)
          /\ Len(q) # 1
      BY <2>1, <2>3, <2>5, OneShorter, Zenon
    <3> QED BY <2>1, <2>2, <2>5, <3>1, Zenon
  <2> QED BY <2>4, <2>5, Zenon
<1> QED BY <1>1, <1>2, Zenon

\* What the thread sees after a store, and after the store buffer drained.
LEMMA StoreSeen ==
  ASSUME LockstatTypeOK, NEW t \in LsThread, NEW v \in Int, Store(t, v)
  PROVE  /\ store_buf' \in [LsThread -> Seq(Int)] /\ t_lockstat' \in [LsThread -> Int]
         /\ OwnLockstat(t)' = v
         /\ \A u \in LsThread \ {t} : store_buf'[u] = store_buf[u] /\ OwnLockstat(u)' = OwnLockstat(u)
<1> DEFINE b == Append(store_buf[t], v)
<1>1. b \in Seq(Int) /\ b # << >> /\ b[Len(b)] = v
  BY LastOf, Zenon DEF LockstatTypeOK
<1>2. store_buf' = [store_buf EXCEPT ![t] = b] /\ t_lockstat' = t_lockstat
  BY Zenon DEF Store
<1> HIDE DEF b
<1>3. store_buf' \in [LsThread -> Seq(Int)] /\ store_buf'[t] = b
      /\ \A u \in LsThread \ {t} : store_buf'[u] = store_buf[u]
  BY <1>1, <1>2, Zenon DEF LockstatTypeOK
<1> QED BY <1>1, <1>2, <1>3, Zenon DEF OwnLockstat, LockstatTypeOK

\* A store that reaches memory changes nothing that the thread itself sees.
LEMMA DrainSeen ==
  ASSUME LockstatTypeOK, NEW t \in LsThread, DrainStore(t)
  PROVE  /\ store_buf' \in [LsThread -> Seq(Int)] /\ t_lockstat' \in [LsThread -> Int]
         /\ Len(store_buf[t]) = 1 <=> store_buf'[t] = << >>
         /\ \A u \in LsThread : OwnLockstat(u)' = OwnLockstat(u)
         /\ \A u \in LsThread \ {t} : store_buf'[u] = store_buf[u]
<1> DEFINE b == store_buf[t]
<1>1. b \in Seq(Int) /\ b # << >>
  BY Zenon DEF LockstatTypeOK, DrainStore
<1>2. /\ Head(b) \in Int /\ Tail(b) \in Seq(Int)
      /\ Tail(b) = << >> <=> Len(b) = 1
      /\ Tail(b) = << >> => Head(b) = b[Len(b)]
      /\ Tail(b) # << >> => Tail(b)[Len(Tail(b))] = b[Len(b)]
  <2> HIDE DEF b
  <2> QED BY <1>1, LastOf, Zenon
<1>3. /\ store_buf' = [store_buf EXCEPT ![t] = Tail(b)]
      /\ t_lockstat' = [t_lockstat EXCEPT ![t] = Head(b)]
  BY Zenon DEF DrainStore
<1>4. /\ store_buf'[t] = Tail(b) /\ t_lockstat'[t] = Head(b)
      /\ store_buf' \in [LsThread -> Seq(Int)] /\ t_lockstat' \in [LsThread -> Int]
      /\ \A u \in LsThread \ {t} : store_buf'[u] = store_buf[u] /\ t_lockstat'[u] = t_lockstat[u]
  BY <1>2, <1>3, Zenon DEF LockstatTypeOK
<1>5. OwnLockstat(t) = b[Len(b)]
  BY <1>1, Zenon DEF OwnLockstat
<1>6. OwnLockstat(t)' = IF Tail(b) = << >> THEN Head(b) ELSE Tail(b)[Len(Tail(b))]
  BY <1>4, Zenon DEF OwnLockstat
<1>7. OwnLockstat(t)' = OwnLockstat(t)
  <2> HIDE DEF b
  <2> QED BY <1>2, <1>5, <1>6, Zenon
<1>8. \A u \in LsThread \ {t} : OwnLockstat(u)' = OwnLockstat(u)
  BY <1>4, Zenon DEF OwnLockstat
<1> QED BY <1>2, <1>4, <1>7, <1>8, Zenon

\* A thread goes on, and stores t_lockstat or does not.
LEMMA ThreadGoes ==
  ASSUME LockstatInv, NEW t \in LsThread,
         NEW to \in {"out", "inc", "record_inc", "membar", "load", "dec"},
         NEW e \in LsEvent,
         ls_pc' = [ls_pc EXCEPT ![t] = to],
         ls_event' = [ls_event EXCEPT ![t] = e],
         UNCHANGED driverVars,
         store_buf' \in [LsThread -> Seq(Int)], t_lockstat' \in [LsThread -> Int],
         OwnLockstat(t)' = Counted(t)',
         \A u \in LsThread \ {t} : store_buf'[u] = store_buf[u] /\ OwnLockstat(u)' = OwnLockstat(u)
  PROVE  LockstatInv'
<1>1. LockstatTypeOK'
  BY Zenon DEF LockstatInv, LockstatTypeOK, driverVars
<1>2. /\ ls_pc'[t] = to /\ ~Stale(t)'
      /\ \A u \in LsThread \ {t} : /\ ls_pc'[u] = ls_pc[u] /\ ls_event'[u] = ls_event[u]
                                   /\ Stale(u)' = Stale(u) /\ Counted(u)' = Counted(u)
  BY Zenon DEF LockstatInv, LockstatTypeOK, Stale, Counted, driverVars
<1>3. ProbeHasConsumer'
  BY <1>2 DEF LockstatInv, ProbeHasConsumer, driverVars
<1>4. ASSUME NEW u \in LsThread
      PROVE  /\ OwnLockstat(u)' = Counted(u)'
             /\ Stale(u)' => /\ driver_pc' # "idle"
                             /\ driver_pc' = "delay" => u \in pending' \/ store_buf'[u] = << >>
                             /\ driver_pc' = "active" => store_buf'[u] = << >>
  BY <1>2, Zenon DEF LockstatInv, driverVars
<1>5. /\ lockstat_probemap' \subseteq consumed'
      /\ \A i \in DOMAIN PatchPoints :
           driver_pc' # "patch" \/ i <= patched' => text'[i] = Instruction(i)'
  BY Zenon DEF LockstatInv, driverVars, Instruction
<1> QED BY <1>1, <1>3, <1>4, <1>5, Zenon DEF LockstatInv

\* The steps of a thread that store t_lockstat, and those that do not.
LEMMA ThreadStores ==
  ASSUME LockstatInv, NEW t \in LsThread, NEW to \in {"out", "membar", "load"}, NEW v \in Int,
         to = "out" => v = 0, to # "out" => v = 1, Store(t, v),
         ls_pc' = [ls_pc EXCEPT ![t] = to], UNCHANGED <<driverVars, ls_event>>
  PROVE  LockstatInv'
<1>1. LockstatTypeOK /\ ls_event[t] \in LsEvent /\ ls_event' = [ls_event EXCEPT ![t] = ls_event[t]]
  BY Zenon DEF LockstatInv, LockstatTypeOK
<1>2. ls_pc'[t] = to
  BY <1>1, Zenon DEF LockstatTypeOK
<1>3. Counted(t)' = v
  BY <1>2, Zenon DEF Counted
<1>4. /\ store_buf' \in [LsThread -> Seq(Int)] /\ t_lockstat' \in [LsThread -> Int]
      /\ OwnLockstat(t)' = v
      /\ \A u \in LsThread \ {t} : store_buf'[u] = store_buf[u] /\ OwnLockstat(u)' = OwnLockstat(u)
  BY <1>1, StoreSeen, Zenon
<1> QED BY <1>1, <1>3, <1>4, ThreadGoes, Zenon

\* A step that stores nothing.
LEMMA ThreadOnly ==
  ASSUME LockstatInv, NEW t \in LsThread,
         NEW to \in {"out", "inc", "record_inc", "membar", "load", "dec"}, NEW e \in LsEvent,
         Counted(t) = IF to \in {"membar", "load", "dec"} THEN 1 ELSE 0,
         ls_pc' = [ls_pc EXCEPT ![t] = to], ls_event' = [ls_event EXCEPT ![t] = e],
         UNCHANGED <<driverVars, t_lockstat, store_buf>>
  PROVE  LockstatInv'
<1>1. LockstatTypeOK /\ OwnLockstat(t) = Counted(t)
  BY Zenon DEF LockstatInv
<1>2. ls_pc'[t] = to
  BY <1>1, Zenon DEF LockstatTypeOK
<1>3. Counted(t)' = Counted(t)
  BY <1>2, Zenon DEF Counted
<1>4. /\ store_buf' \in [LsThread -> Seq(Int)] /\ t_lockstat' \in [LsThread -> Int]
      /\ \A u \in LsThread : store_buf'[u] = store_buf[u] /\ OwnLockstat(u)' = OwnLockstat(u)
  BY <1>1, Zenon DEF OwnLockstat, LockstatTypeOK
<1> QED BY <1>1, <1>3, <1>4, ThreadGoes, Zenon

\* Every step of a thread in lockstat_wrapper and of the driver that enables,
\* disables and patches keeps the invariant.
LEMMA LockstatStep == LockstatInv /\ [LockstatNext]_lockstatVars => LockstatInv'
<1> SUFFICES ASSUME LockstatInv, [LockstatNext]_lockstatVars
             PROVE  LockstatInv'
  OBVIOUS
<1> USE PatchPointsAre
<1>0. /\ LockstatTypeOK
      /\ \A t \in LsThread : ls_event' = ls_event => ls_event' = [ls_event EXCEPT ![t] = ls_event[t]]
      /\ \A t \in LsThread : ls_event[t] \in LsEvent /\ OwnLockstat(t) = Counted(t)
  BY Zenon DEF LockstatInv, LockstatTypeOK
<1>a. UNCHANGED <<t_lockstat, store_buf>> =>
        /\ store_buf' \in [LsThread -> Seq(Int)] /\ t_lockstat' \in [LsThread -> Int]
        /\ \A u \in LsThread : store_buf'[u] = store_buf[u] /\ OwnLockstat(u)' = OwnLockstat(u)
  BY Zenon DEF LockstatInv, LockstatTypeOK, OwnLockstat
<1>b. \A t \in LsThread : \A to : ls_pc' = [ls_pc EXCEPT ![t] = to] => ls_pc'[t] = to
  BY <1>0, Zenon DEF LockstatTypeOK
<1>1. ASSUME NEW t \in LsThread, NEW i \in DOMAIN PatchPoints, PatchPoint(t, i)
      PROVE  LockstatInv'
  BY <1>0, <1>1, ThreadOnly, Zenon DEF PatchPoint, Counted
<1>2. ASSUME NEW t \in LsThread, NEW e \in LsEvent, LOCKSTAT_RECORD(t, e)
      PROVE  LockstatInv'
  BY <1>0, <1>2, ThreadOnly, Zenon DEF LOCKSTAT_RECORD, Counted
<1>3. ASSUME NEW t \in LsThread, RecordProbe(t)
      PROVE  LockstatInv'
  <2>1. OwnLockstat(t) + 1 = 1
    BY <1>0, <1>3 DEF RecordProbe, LsGoto, Counted
  <2>2. Store(t, 1) /\ ls_pc' = [ls_pc EXCEPT ![t] = "membar"] /\ UNCHANGED <<driverVars, ls_event>>
    BY <1>3, <2>1, Zenon DEF RecordProbe, LsGoto
  <2>3. 0 \in Int /\ 1 \in Int
    OBVIOUS
  <2> QED BY <2>2, <2>3, ThreadStores, Zenon
<1>4. ASSUME NEW t \in LsThread, membar_enter(t)
      PROVE  LockstatInv'
  BY <1>0, <1>4, ThreadOnly, Zenon DEF membar_enter, LsGoto, Counted
<1>5. ASSUME NEW t \in LsThread, lockstat_wrapper(t)
      PROVE  LockstatInv'
  <2>1. OwnLockstat(t) + 1 = 1
    BY <1>0, <1>5 DEF lockstat_wrapper, LsGoto, Counted
  <2>2. Store(t, 1) /\ ls_pc' = [ls_pc EXCEPT ![t] = "load"] /\ UNCHANGED <<driverVars, ls_event>>
    BY <1>5, <2>1, Zenon DEF lockstat_wrapper, LsGoto
  <2>3. 0 \in Int /\ 1 \in Int
    OBVIOUS
  <2> QED BY <2>2, <2>3, ThreadStores, Zenon
<1>6. ASSUME NEW t \in LsThread, LoadProbe(t)
      PROVE  LockstatInv'
  <2>1. CASE ls_event[t] \notin lockstat_probemap
    BY <1>0, <1>6, <2>1, ThreadOnly, ZenonT(30) DEF LoadProbe, LsGoto, Counted
  <2>2. CASE ls_event[t] \in lockstat_probemap
    <3>1. /\ ls_pc[t] = "load" /\ ls_pc' = [ls_pc EXCEPT ![t] = "probe"]
          /\ UNCHANGED <<driverVars, ls_event, t_lockstat, store_buf>>
      BY <1>6, <2>2, Zenon DEF LoadProbe, LsGoto
    <3>2. LockstatTypeOK' /\ \A u \in LsThread \ {t} : ls_pc'[u] = ls_pc[u]
      BY <3>1, Zenon DEF LockstatInv, LockstatTypeOK, driverVars
    <3>3. \A u \in LsThread : Counted(u)' = Counted(u) /\ OwnLockstat(u)' = OwnLockstat(u)
      BY <1>a, <1>b, <3>1, <3>2, Zenon DEF Counted
    <3>4. \A u \in LsThread : Stale(u)' => Stale(u)
      BY <1>b, <2>2, <3>1, <3>2, Zenon DEF Stale, driverVars
    <3>5. ProbeHasConsumer'
      BY <1>b, <2>2, <3>1, <3>2, Zenon DEF LockstatInv, ProbeHasConsumer, driverVars
    <3> QED BY <3>1, <3>2, <3>3, <3>4, <3>5, Zenon DEF LockstatInv, driverVars, Instruction
  <2> QED BY <2>1, <2>2, Zenon
<1>7. ASSUME NEW t \in LsThread, ProbeReturns(t)
      PROVE  LockstatInv'
  BY <1>0, <1>7, ThreadOnly, Zenon DEF ProbeReturns, LsGoto, Counted
<1>8. ASSUME NEW t \in LsThread, WrapperExit(t)
      PROVE  LockstatInv'
  <2>1. OwnLockstat(t) - 1 = 0
    BY <1>0, <1>8 DEF WrapperExit, LsGoto, Counted
  <2>2. Store(t, 0) /\ ls_pc' = [ls_pc EXCEPT ![t] = "out"] /\ UNCHANGED <<driverVars, ls_event>>
    BY <1>8, <2>1, Zenon DEF WrapperExit, LsGoto
  <2>3. 0 \in Int /\ 1 \in Int
    OBVIOUS
  <2> QED BY <2>2, <2>3, ThreadStores, Zenon
<1>9. ASSUME NEW t \in LsThread, DrainStore(t)
      PROVE  LockstatInv'
  <2>1. UNCHANGED <<lsThreadVars, lockstat_probemap, text, driver_pc, patched, consumed>>
    BY <1>9, Zenon DEF DrainStore
  <2>2. /\ pending' \subseteq pending /\ store_buf[t] # << >>
        /\ \A u \in pending \ {t} : u \in pending'
        /\ t \in pending => t \in pending' \/ store_buf'[t] = << >>
    BY <1>0, <1>9, DrainSeen, Zenon DEF DrainStore
  <2>3. LockstatTypeOK'
    BY <1>0, <1>9, <2>1, <2>2, DrainSeen, Zenon DEF LockstatTypeOK, lsThreadVars
  <2>4. \A u \in LsThread : /\ Stale(u)' = Stale(u) /\ Counted(u)' = Counted(u)
                            /\ OwnLockstat(u)' = OwnLockstat(u)
    BY <1>0, <1>9, <2>1, DrainSeen, Zenon DEF Stale, Counted, lsThreadVars
  <2>5. \A u \in LsThread \ {t} : store_buf'[u] = store_buf[u]
    BY <1>0, <1>9, DrainSeen, Zenon
  <2>6. ProbeHasConsumer'
    BY <2>1, Zenon DEF LockstatInv, ProbeHasConsumer, lsThreadVars
  <2>7. ASSUME NEW u \in LsThread, Stale(u)'
        PROVE  /\ driver_pc' # "idle"
               /\ driver_pc' = "delay" => u \in pending' \/ store_buf'[u] = << >>
               /\ driver_pc' = "active" => store_buf'[u] = << >>
    BY <2>1, <2>2, <2>4, <2>5, <2>7, Zenon DEF LockstatInv
  <2> QED BY <2>1, <2>3, <2>4, <2>6, <2>7, Zenon DEF LockstatInv, Instruction
<1>10. ASSUME NEW e \in LsEvent, SetProbe(e)
       PROVE  LockstatInv'
  <2>1. /\ driver_pc = "idle" /\ driver_pc' = "patch" /\ patched' = 0
        /\ UNCHANGED <<lsThreadVars, t_lockstat, store_buf, text, pending>>
        /\ lockstat_probemap' \subseteq LsEvent /\ lockstat_probemap' \subseteq consumed'
        /\ consumed \subseteq consumed'
    BY <1>10, Zenon DEF SetProbe, DriverGoto, LockstatInv, LockstatTypeOK
  <2>2. LockstatTypeOK'
    BY <2>1 DEF LockstatInv, LockstatTypeOK, lsThreadVars
  <2>3. ProbeHasConsumer'
    BY <2>1, Zenon DEF LockstatInv, ProbeHasConsumer, lsThreadVars
  <2>4. \A u \in LsThread : OwnLockstat(u)' = Counted(u)'
    BY <1>0, <1>a, <2>1, Zenon DEF Counted, lsThreadVars
  <2> QED BY <2>1, <2>2, <2>3, <2>4 DEF LockstatInv
<1>11. CASE lockstat_hot_patch
  <2>1. LockstatTypeOK'
    BY <1>11 DEF lockstat_hot_patch, LockstatInv, LockstatTypeOK, lsThreadVars, Instruction
  <2>2. /\ ProbeHasConsumer'
        /\ \A u \in LsThread : OwnLockstat(u)' = Counted(u)' /\ ~(driver_pc' \in {"idle", "delay", "active"})
    BY <1>0, <1>11, <1>a, Zenon DEF lockstat_hot_patch, LockstatInv, ProbeHasConsumer, Counted, lsThreadVars
  <2>3. ASSUME NEW i \in DOMAIN PatchPoints, i <= patched'
        PROVE  text'[i] = Instruction(i)'
    BY <1>11, <2>3 DEF lockstat_hot_patch, LockstatInv, LockstatTypeOK, Instruction
  <2> QED BY <1>11, <2>1, <2>2, <2>3, Zenon DEF lockstat_hot_patch, LockstatInv
<1>12. CASE StartDelay
  <2>1. LockstatTypeOK'
    BY <1>12, Zenon DEF StartDelay, DriverGoto, LockstatInv, LockstatTypeOK, lsThreadVars
  <2>2. /\ ProbeHasConsumer'
        /\ \A u \in LsThread : /\ OwnLockstat(u)' = Counted(u)'
                               /\ u \in pending' \/ store_buf'[u] = << >>
    BY <1>0, <1>12, <1>a, Zenon DEF StartDelay, LockstatInv, ProbeHasConsumer, Counted, lsThreadVars
  <2>3. \A i \in DOMAIN PatchPoints : text'[i] = Instruction(i)'
    BY <1>12 DEF StartDelay, DriverGoto, LockstatInv, LockstatTypeOK, Instruction
  <2>4. driver_pc' = "delay" /\ UNCHANGED <<lockstat_probemap, consumed>>
    BY <1>12, Zenon DEF StartDelay, DriverGoto
  <2> QED BY <2>1, <2>2, <2>3, <2>4, Zenon DEF LockstatInv
<1>13. CASE EndDelay
  <2>1. LockstatTypeOK'
    BY <1>13, Zenon DEF EndDelay, DriverGoto, LockstatInv, LockstatTypeOK, lsThreadVars
  <2>2. /\ ProbeHasConsumer'
        /\ \A u \in LsThread : /\ OwnLockstat(u)' = Counted(u)'
                               /\ Stale(u)' => store_buf'[u] = << >>
    BY <1>0, <1>13, <1>a, Zenon DEF EndDelay, DriverGoto, LockstatInv, ProbeHasConsumer, Counted, lsThreadVars, Stale
  <2> QED BY <1>13, <2>1, <2>2, Zenon DEF EndDelay, DriverGoto, LockstatInv, Instruction
<1>14. CASE NoActiveThreads
  <2>1. LockstatTypeOK'
    BY <1>14, Zenon DEF NoActiveThreads, DriverGoto, LockstatInv, LockstatTypeOK, lsThreadVars
  <2>2. \A u \in LsThread : ~Stale(u)
    BY <1>0, <1>14 DEF NoActiveThreads, DriverGoto, LockstatInv, OwnLockstat, Counted, Stale
  <2>3. /\ ProbeHasConsumer'
        /\ \A u \in LsThread : OwnLockstat(u)' = Counted(u)' /\ ~Stale(u)'
    BY <1>0, <1>14, <1>a, <2>2, Zenon DEF NoActiveThreads, LockstatInv, ProbeHasConsumer, Counted, lsThreadVars, Stale
  <2> QED BY <1>14, <2>1, <2>3, Zenon DEF NoActiveThreads, DriverGoto, LockstatInv, Instruction
<1>15. CASE UNCHANGED lockstatVars
  BY <1>15, Zenon DEF lockstatVars, driverVars, lsThreadVars, LockstatInv, LockstatTypeOK, ProbeHasConsumer,
               OwnLockstat, Counted, Stale, Instruction
<1> QED
  BY <1>1, <1>2, <1>3, <1>4, <1>5, <1>6, <1>7, <1>8, <1>9, <1>10, <1>11, <1>12, <1>13, ZenonT(30),
     <1>14, <1>15 DEF LockstatNext

\* ProbesFollowConsumers: a probe is only called for an event somebody
\* consumes or whose disabling has not finished, and lockstat_hot_patch()
\* leaves every patch point as the probe map says, for any number of threads
\* and patch points.
THEOREM LockstatProbes == LockstatSpec => []ProbesFollowConsumers
<1>1. LockstatInv => ProbesFollowConsumers
  BY Zenon DEF LockstatInv, ProbesFollowConsumers, TextMatchesMap, Instruction
<1> QED BY <1>1, LockstatInitial, LockstatStep, PTL DEF LockstatSpec

-----------------------------------------------------------------------------
(* Mutex: the adaptive mutex.                                              *)

\* Every step preserves type correctness.
LEMMA TypeStep ==
  ASSUME TypeOK, LockWordProtocol, [Next]_vars
  PROVE  TypeOK'
<1>1. CASE UNCHANGED vars
  BY <1>1, Zenon DEF vars, TypeOK, LockWordProtocol, PC, Held, TsHeld
<1>2. ASSUME NEW t \in Thread, Moves(t) PROVE TypeOK'
  <2>1. CASE mutex_enter(t)
    BY <2>1, MutexAssumption
       DEF mutex_enter, cmpxchg, Drained, TypeOK, LockWordProtocol, PC, Held, TsHeld,
           At, Goto, lockVars, cpuVars
  <2>2. CASE mutex_tryenter(t)
    BY <2>2, MutexAssumption, Zenon
       DEF mutex_tryenter, cmpxchg, Drained, TypeOK, LockWordProtocol, PC, Held,
           TsHeld, At, Goto, lockVars, cpuVars
  <2>3. CASE mutex_exit(t)
    BY <2>3, MutexAssumption, Zenon
       DEF mutex_exit, TypeOK, LockWordProtocol, PC, Held, TsHeld, At, Goto, lockVars,
           cpuVars
  <2>4. CASE mutex_exit_clear(t)
    BY <2>4, MutexAssumption, Zenon
       DEF mutex_exit_clear, TypeOK, LockWordProtocol, PC, Held, TsHeld, At, Goto,
           lockVars, cpuVars
  <2>5. CASE VectorSpin(t)
    BY <2>5, MutexAssumption
       DEF VectorSpin, cmpxchg, Drained, TypeOK, LockWordProtocol, PC, Held, TsHeld,
           At, Goto, lockVars, cpuVars
  <2>6. CASE VectorTest(t)
    BY <2>6, MutexAssumption
       DEF VectorTest, Forget, Drained, OnCpu, TypeOK, LockWordProtocol, PC, Held, TsHeld, At,
           Goto, lockVars, cpuVars
  <2>7. CASE VectorSetWaiters(t)
    BY <2>7, MutexAssumption, Zenon
       DEF VectorSetWaiters, MUTEX_SET_WAITERS, TypeOK, LockWordProtocol, PC, Held,
           TsHeld, At, Goto, lockVars, cpuVars
  <2>8. CASE VectorRecheck(t)
    <3>1. /\ owner' = owner \/ owner' = [owner EXCEPT ![t] = m_owner]
          /\ pc' = [pc EXCEPT ![t] = "spin"] \/ pc' = [pc EXCEPT ![t] = "block"]
          /\ ts_lock' = NoThread \/ ts_lock' = ts_lock
          /\ UNCHANGED <<lockVars, cpuVars, clearing>>
      BY <2>8, Zenon DEF VectorRecheck, Goto
    <3>2. owner' \in [Thread -> Thread \cup {NoThread}]
      BY <3>1, Zenon DEF TypeOK
    <3>3. pc' \in [Thread -> PC]
      BY <3>1, Zenon DEF TypeOK, PC, TsHeld
    <3> QED BY <3>1, <3>2, <3>3, Zenon DEF TypeOK, lockVars, cpuVars
  <2>9. CASE VectorBlock(t)
    BY <2>9, MutexAssumption
       DEF VectorBlock, Forget, TypeOK, LockWordProtocol, PC, Held, TsHeld, At, Goto, lockVars,
           cpuVars
  <2>10. CASE VectorExit(t)
    BY <2>10, MutexAssumption, Zenon
       DEF VectorExit, Drained, TypeOK, LockWordProtocol, PC, Held, TsHeld, At, Goto,
           lockVars, cpuVars
  <2>11. CASE VectorClear(t)
    BY <2>11, MutexAssumption, Zenon
       DEF VectorClear, MUTEX_CLEAR_LOCK_AND_WAITERS, TypeOK, LockWordProtocol, PC,
           Held, TsHeld, At, lockVars, cpuVars
  <2>12. CASE DrainThread(t)
    BY <2>12, MutexAssumption, Zenon
       DEF DrainThread, TypeOK, LockWordProtocol, PC, Held, TsHeld, lockVars, cpuVars
  <2>13. CASE DrainClear(t)
    BY <2>13, MutexAssumption, Zenon
       DEF DrainClear, MUTEX_CLEAR_LOCK_AND_WAITERS, TypeOK, LockWordProtocol, PC,
           Held, TsHeld, lockVars, cpuVars
  <2>14. CASE Preempt(t)
    BY <2>14, MutexAssumption, Zenon
       DEF Preempt, LeaveCpu, Drained, restart_pc, TypeOK, LockWordProtocol, PC, Held,
           TsHeld, Goto, lockVars, cpuVars
  <2>15. CASE Block(t)
    BY <2>15, MutexAssumption, Zenon
       DEF Block, LeaveCpu, Drained, TypeOK, LockWordProtocol, PC, Held, TsHeld,
           lockVars, cpuVars
  <2>16. CASE Dispatch(t)
    BY <2>16, MutexAssumption, Zenon
       DEF Dispatch, TypeOK, LockWordProtocol, PC, Held, TsHeld, lockVars, cpuVars
  <2> QED BY <1>2, <2>1, <2>2, <2>3, <2>4, <2>5, <2>6, <2>7, <2>8, <2>9, <2>10, <2>11, ZenonT(60),
             <2>12, <2>13, <2>14, <2>15, <2>16
             DEF Moves, Step, Drain
<1> QED BY <1>1, <1>2, Zenon DEF Next

\* Every step preserves the lock word protocol.
LEMMA LockWordStep ==
  ASSUME TypeOK, LockWordProtocol, [Next]_vars
  PROVE  LockWordProtocol'
<1>1. CASE UNCHANGED vars
  BY <1>1 DEF vars, TypeOK, LockWordProtocol, MutualExclusion, Held, TsHeld, PC
<1>2. ASSUME NEW t \in Thread, Moves(t) PROVE LockWordProtocol'
  <2>1. CASE mutex_enter(t)
    BY <2>1, MutexAssumption
       DEF mutex_enter, cmpxchg, Drained, TypeOK, LockWordProtocol, MutualExclusion,
           Held, TsHeld, PC, At, Goto, lockVars, cpuVars
  <2>2. CASE mutex_tryenter(t)
    BY <2>2, MutexAssumption, ZenonT(60)
       DEF mutex_tryenter, cmpxchg, Drained, TypeOK, LockWordProtocol, MutualExclusion,
           Held, TsHeld, PC, At, Goto, lockVars, cpuVars
  <2>3. CASE mutex_exit(t)
    BY <2>3, MutexAssumption, ZenonT(60)
       DEF mutex_exit, TypeOK, LockWordProtocol, MutualExclusion, Held, TsHeld, PC, At,
           Goto, lockVars, cpuVars
  <2>4. CASE mutex_exit_clear(t)
    BY <2>4, MutexAssumption
       DEF mutex_exit_clear, TypeOK, LockWordProtocol, MutualExclusion, Held, TsHeld,
           PC, At, Goto, lockVars, cpuVars
  <2>5. CASE VectorSpin(t)
    BY <2>5, MutexAssumption
       DEF VectorSpin, cmpxchg, Drained, TypeOK, LockWordProtocol, MutualExclusion,
           Held, TsHeld, PC, At, Goto, lockVars, cpuVars
  <2>6. CASE VectorTest(t)
    BY <2>6, MutexAssumption
       DEF VectorTest, Drained, OnCpu, TypeOK, LockWordProtocol, MutualExclusion, Held,
           TsHeld, PC, At, Goto, lockVars, cpuVars
  <2>7. CASE VectorSetWaiters(t)
    BY <2>7, MutexAssumption, ZenonT(60)
       DEF VectorSetWaiters, MUTEX_SET_WAITERS, TypeOK, LockWordProtocol,
           MutualExclusion, Held, TsHeld, PC, At, Goto, lockVars, cpuVars
  <2>8. CASE VectorRecheck(t)
    BY <2>8, MutexAssumption
       DEF VectorRecheck, OnCpu, TypeOK, LockWordProtocol, MutualExclusion, Held,
           TsHeld, PC, At, Goto, lockVars, cpuVars
  <2>9. CASE VectorBlock(t)
    BY <2>9, MutexAssumption
       DEF VectorBlock, TypeOK, LockWordProtocol, MutualExclusion, Held, TsHeld, PC,
           At, Goto, lockVars, cpuVars
  <2>10. CASE VectorExit(t)
    BY <2>10, MutexAssumption
       DEF VectorExit, Drained, TypeOK, LockWordProtocol, MutualExclusion, Held,
           TsHeld, PC, At, Goto, lockVars, cpuVars
  <2>11. CASE VectorClear(t)
    BY <2>11, MutexAssumption, ZenonT(30)
       DEF VectorClear, MUTEX_CLEAR_LOCK_AND_WAITERS, TypeOK, LockWordProtocol,
           MutualExclusion, Held, TsHeld, PC, At, lockVars, cpuVars
  <2>12. CASE DrainThread(t)
    BY <2>12, MutexAssumption, Zenon
       DEF DrainThread, TypeOK, LockWordProtocol, MutualExclusion, Held, TsHeld, PC,
           lockVars, cpuVars
  <2>13. CASE DrainClear(t)
    BY <2>13, MutexAssumption, ZenonT(60)
       DEF DrainClear, MUTEX_CLEAR_LOCK_AND_WAITERS, TypeOK, LockWordProtocol,
           MutualExclusion, Held, TsHeld, PC, lockVars, cpuVars
  <2>14. CASE Preempt(t)
    BY <2>14, MutexAssumption, ZenonT(60)
       DEF Preempt, LeaveCpu, Drained, restart_pc, TypeOK, LockWordProtocol,
           MutualExclusion, Held, TsHeld, PC, Goto, lockVars, cpuVars
  <2>15. CASE Block(t)
    BY <2>15, MutexAssumption, Zenon
       DEF Block, LeaveCpu, Drained, TypeOK, LockWordProtocol, MutualExclusion, Held,
           TsHeld, PC, lockVars, cpuVars
  <2>16. CASE Dispatch(t)
    BY <2>16, MutexAssumption, Zenon
       DEF Dispatch, TypeOK, LockWordProtocol, MutualExclusion, Held, TsHeld, PC,
           lockVars, cpuVars
  <2> QED BY <1>2, <2>1, <2>2, <2>3, <2>4, <2>5, <2>6, <2>7, <2>8, <2>9, <2>10, <2>11, ZenonT(30),
             <2>12, <2>13, <2>14, <2>15, <2>16
             DEF Moves, Step, Drain
<1> QED BY <1>1, <1>2, Zenon DEF Next

\* Every step preserves the block protocol.
LEMMA BlockStep ==
  ASSUME TypeOK, LockWordProtocol, BlockProtocol, ResumeDrains, [Next]_vars
  PROVE  BlockProtocol'
<1>1. CASE UNCHANGED vars
  BY <1>1, Zenon
     DEF vars, TypeOK, LockWordProtocol, MutualExclusion, BlockProtocol,
         NoMissedWakeup, Held, TsHeld, PC
<1>2. ASSUME NEW t \in Thread, Moves(t) PROVE BlockProtocol'
  <2>1. CASE mutex_enter(t)
    BY <2>1, MutexAssumption
       DEF mutex_enter, cmpxchg, Drained, TypeOK, LockWordProtocol, MutualExclusion,
           BlockProtocol, NoMissedWakeup, Held, TsHeld, PC, At, Goto, lockVars,
           cpuVars
  <2>2. CASE mutex_tryenter(t)
    BY <2>2, MutexAssumption, ZenonT(60)
       DEF mutex_tryenter, cmpxchg, Drained, TypeOK, LockWordProtocol, MutualExclusion,
           BlockProtocol, NoMissedWakeup, Held, TsHeld, PC, At, Goto, lockVars,
           cpuVars
  <2>3. CASE mutex_exit(t)
    BY <2>3, MutexAssumption, ZenonT(60)
       DEF mutex_exit, TypeOK, LockWordProtocol, MutualExclusion, BlockProtocol,
           NoMissedWakeup, Held, TsHeld, PC, At, Goto, lockVars, cpuVars
  <2>4. CASE mutex_exit_clear(t)
    BY <2>4, MutexAssumption, ZenonT(60)
       DEF mutex_exit_clear, TypeOK, LockWordProtocol, MutualExclusion, BlockProtocol,
           NoMissedWakeup, Held, TsHeld, PC, At, Goto, lockVars, cpuVars
  <2>5. CASE VectorSpin(t)
    BY <2>5, MutexAssumption
       DEF VectorSpin, cmpxchg, Drained, TypeOK, LockWordProtocol, MutualExclusion,
           BlockProtocol, NoMissedWakeup, Held, TsHeld, PC, At, Goto, lockVars,
           cpuVars
  <2>6. CASE VectorTest(t)
    BY <2>6, MutexAssumption
       DEF VectorTest, Forget, Drained, OnCpu, TypeOK, LockWordProtocol, MutualExclusion,
           BlockProtocol, NoMissedWakeup, Held, TsHeld, PC, At, Goto, lockVars,
           cpuVars
  <2>7. CASE VectorSetWaiters(t)
    BY <2>7, MutexAssumption, ZenonT(60)
       DEF VectorSetWaiters, MUTEX_SET_WAITERS, TypeOK, LockWordProtocol,
           MutualExclusion, BlockProtocol, NoMissedWakeup, Held, TsHeld, PC, At, Goto,
           lockVars, cpuVars
  <2>8. CASE VectorRecheck(t)
    BY <2>8, MutexAssumption
       DEF VectorRecheck, OnCpu, TypeOK, LockWordProtocol, MutualExclusion,
           BlockProtocol, NoMissedWakeup, Held, TsHeld, PC, At, Goto, lockVars,
           cpuVars
  <2>9. CASE VectorBlock(t)
    BY <2>9, MutexAssumption
       DEF VectorBlock, Forget, TypeOK, LockWordProtocol, MutualExclusion, BlockProtocol,
           NoMissedWakeup, Held, TsHeld, PC, At, Goto, lockVars, cpuVars
  <2>10. CASE VectorExit(t)
    BY <2>10, MutexAssumption
       DEF VectorExit, Drained, TypeOK, LockWordProtocol, MutualExclusion,
           BlockProtocol, NoMissedWakeup, Held, TsHeld, PC, At, Goto, lockVars,
           cpuVars
  <2>11. CASE VectorClear(t)
    BY <2>11, MutexAssumption, Zenon
       DEF VectorClear, MUTEX_CLEAR_LOCK_AND_WAITERS, TypeOK, LockWordProtocol,
           MutualExclusion, BlockProtocol, NoMissedWakeup, Held, TsHeld, PC, At,
           lockVars, cpuVars
  <2>12. CASE DrainThread(t)
    BY <2>12, MutexAssumption, Zenon
       DEF DrainThread, TypeOK, LockWordProtocol, MutualExclusion, BlockProtocol,
           NoMissedWakeup, Held, TsHeld, PC, lockVars, cpuVars
  <2>13. CASE DrainClear(t)
    BY <2>13, MutexAssumption, Zenon
       DEF DrainClear, MUTEX_CLEAR_LOCK_AND_WAITERS, TypeOK, LockWordProtocol,
           MutualExclusion, BlockProtocol, NoMissedWakeup, Held, TsHeld, PC, lockVars,
           cpuVars
  <2>14. CASE Preempt(t)
    BY <2>14, MutexAssumption
       DEF Preempt, LeaveCpu, Drained, restart_pc, TypeOK, LockWordProtocol,
           MutualExclusion, BlockProtocol, NoMissedWakeup, Held, TsHeld, PC, Goto,
           lockVars, cpuVars
  <2>15. CASE Block(t)
    BY <2>15, MutexAssumption, ZenonT(30)
       DEF Block, LeaveCpu, Drained, TypeOK, LockWordProtocol, MutualExclusion,
           BlockProtocol, NoMissedWakeup, Held, TsHeld, PC, lockVars, cpuVars
  <2>16. CASE Dispatch(t)
    BY <2>16, MutexAssumption
       DEF Dispatch, TypeOK, LockWordProtocol, MutualExclusion, BlockProtocol,
           NoMissedWakeup, Held, TsHeld, PC, lockVars, cpuVars
  <2> QED BY <1>2, <2>1, <2>2, <2>3, <2>4, <2>5, <2>6, <2>7, <2>8, <2>9, <2>10, <2>11, ZenonT(30),
             <2>12, <2>13, <2>14, <2>15, <2>16
             DEF Moves, Step, Drain
<1> QED BY <1>1, <1>2, Zenon DEF Next

\* The initial state satisfies the protocols.
LEMMA InitEstablishes == Init => TypeOK /\ LockWordProtocol /\ BlockProtocol
BY MutexAssumption, Zenon
   DEF Init, TypeOK, LockWordProtocol, MutualExclusion, BlockProtocol, NoMissedWakeup,
       PC, Held, TsHeld

\* The lock word says who is in a critical section and in mutex_exit().
THEOREM LockWordCorrect == Spec => [](TypeOK /\ LockWordProtocol)
<1>1. Init => TypeOK /\ LockWordProtocol
  BY InitEstablishes, Zenon
<1>2. TypeOK /\ LockWordProtocol /\ [Next]_vars => TypeOK' /\ LockWordProtocol'
  BY TypeStep, LockWordStep, Zenon
<1> QED BY <1>1, <1>2, PTL DEF Spec

\* mutex_enter() and mutex_tryenter() exclude, whatever is buffered and
\* whoever is preempted where.
THEOREM Excludes == Spec => []MutualExclusion
<1>1. LockWordProtocol => MutualExclusion
  BY Zenon DEF LockWordProtocol
<1> QED BY <1>1, LockWordCorrect, PTL

\* The block protocol holds when resume()'s store is visible in time.
LEMMA BlockProtocolHolds ==
  ASSUME ResumeDrains
  PROVE  Spec => [](TypeOK /\ LockWordProtocol /\ BlockProtocol)
<1>1. TypeOK /\ LockWordProtocol /\ BlockProtocol /\ [Next]_vars
        => TypeOK' /\ LockWordProtocol' /\ BlockProtocol'
  BY TypeStep, LockWordStep, BlockStep, Zenon
<1> QED BY <1>1, InitEstablishes, PTL DEF Spec

\* The restart of an interrupted mutex_exit() suffices: no wakeup is missed.
THEOREM MissesNoWakeup ==
  ASSUME ResumeDrains
  PROVE  Spec => []NoMissedWakeup
<1>1. BlockProtocol => NoMissedWakeup
  BY Zenon DEF BlockProtocol
<1> QED BY <1>1, BlockProtocolHolds, PTL

\* A step of the mutex code is a step of the SleepLock or leaves it alone.
LEMMA RefinesStep ==
  ASSUME TypeOK, LockWordProtocol, BlockProtocol, [Next]_vars
  PROVE  [SleepLock!Next]_<<IF m_owner \in clearing THEN NoThread ELSE m_owner,
                            {t \in Thread : pc[t] = "asleep"}>>
<1> DEFINE holder == IF m_owner \in clearing THEN NoThread ELSE m_owner
<1> DEFINE asleep == {u \in Thread : pc[u] = "asleep"}
<1>1. CASE UNCHANGED vars
  BY <1>1, Zenon DEF vars
<1>2. ASSUME NEW t \in Thread, Moves(t)
      PROVE  SleepLock!Next \/ (holder' = holder /\ asleep' = asleep)
  <2>1. CASE mutex_enter(t)
    <3>1. SleepLock!Acquire(t) \/ (holder' = holder /\ asleep' = asleep)
      BY <2>1, MutexAssumption
         DEF SleepLock!Acquire, TypeOK, LockWordProtocol, MutualExclusion,
             BlockProtocol, NoMissedWakeup, PC, Held, TsHeld, mutex_enter, cmpxchg,
             Drained, At, Goto, lockVars, cpuVars
    <3> QED BY <3>1, Zenon DEF SleepLock!Next
  <2>2. CASE mutex_tryenter(t)
    <3>1. SleepLock!Acquire(t)
      BY <2>2, MutexAssumption, Zenon
         DEF SleepLock!Acquire, TypeOK, LockWordProtocol, MutualExclusion,
             BlockProtocol, NoMissedWakeup, PC, Held, TsHeld, mutex_tryenter, cmpxchg,
             Drained, At, Goto, lockVars, cpuVars
    <3> QED BY <3>1, Zenon DEF SleepLock!Next
  <2>3. CASE mutex_exit(t)
    BY <2>3, MutexAssumption
       DEF TypeOK, LockWordProtocol, MutualExclusion, BlockProtocol, NoMissedWakeup,
           PC, Held, TsHeld, mutex_exit, At, Goto, lockVars, cpuVars
  <2>4. CASE mutex_exit_clear(t)
    <3>1. SleepLock!Release(t)
      BY <2>4, MutexAssumption, ZenonT(60)
         DEF SleepLock!Release, TypeOK, LockWordProtocol, MutualExclusion,
             BlockProtocol, NoMissedWakeup, PC, Held, TsHeld, mutex_exit_clear, At,
             Goto, lockVars, cpuVars
    <3> QED BY <3>1, Zenon DEF SleepLock!Next
  <2>5. CASE VectorSpin(t)
    <3>1. SleepLock!Acquire(t) \/ (holder' = holder /\ asleep' = asleep)
      BY <2>5, MutexAssumption, ZenonT(60)
         DEF SleepLock!Acquire, TypeOK, LockWordProtocol, MutualExclusion,
             BlockProtocol, NoMissedWakeup, PC, Held, TsHeld, VectorSpin, cmpxchg,
             Drained, At, Goto, lockVars, cpuVars
    <3> QED BY <3>1, ZenonT(60) DEF SleepLock!Next
  <2>6. CASE VectorTest(t)
    BY <2>6, MutexAssumption
       DEF TypeOK, LockWordProtocol, MutualExclusion, BlockProtocol, NoMissedWakeup,
           PC, Held, TsHeld, VectorTest, Drained, OnCpu, At, Goto, lockVars, cpuVars
  <2>7. CASE VectorSetWaiters(t)
    BY <2>7, MutexAssumption, Zenon
       DEF TypeOK, LockWordProtocol, MutualExclusion, BlockProtocol, NoMissedWakeup,
           PC, Held, TsHeld, VectorSetWaiters, MUTEX_SET_WAITERS, At, Goto, lockVars,
           cpuVars
  <2>8. CASE VectorRecheck(t)
    BY <2>8, MutexAssumption
       DEF TypeOK, LockWordProtocol, MutualExclusion, BlockProtocol, NoMissedWakeup,
           PC, Held, TsHeld, VectorRecheck, OnCpu, At, Goto, lockVars, cpuVars
  <2>9. CASE VectorBlock(t)
    <3>1. SleepLock!Sleep(t) \/ (holder' = holder /\ asleep' = asleep)
      BY <2>9, MutexAssumption
         DEF SleepLock!Sleep, TypeOK, LockWordProtocol, MutualExclusion, BlockProtocol,
             NoMissedWakeup, PC, Held, TsHeld, VectorBlock, At, Goto, lockVars,
             cpuVars
    <3> QED BY <3>1, Zenon DEF SleepLock!Next
  <2>10. CASE VectorExit(t)
    BY <2>10, MutexAssumption, Zenon
       DEF TypeOK, LockWordProtocol, MutualExclusion, BlockProtocol, NoMissedWakeup,
           PC, Held, TsHeld, VectorExit, Drained, At, Goto, lockVars, cpuVars
  <2>11. CASE VectorClear(t)
    <3>1. SleepLock!Release(t)
      BY <2>11, MutexAssumption, Zenon
         DEF SleepLock!Release, TypeOK, LockWordProtocol, MutualExclusion,
             BlockProtocol, NoMissedWakeup, PC, Held, TsHeld, VectorClear,
             MUTEX_CLEAR_LOCK_AND_WAITERS, At, lockVars, cpuVars
    <3> QED BY <3>1 DEF SleepLock!Next
  <2>12. CASE DrainThread(t)
    BY <2>12, MutexAssumption, Zenon
       DEF TypeOK, LockWordProtocol, MutualExclusion, BlockProtocol, NoMissedWakeup,
           PC, Held, TsHeld, DrainThread, lockVars, cpuVars
  <2>13. CASE DrainClear(t)
    BY <2>13, MutexAssumption, ZenonT(30)
       DEF TypeOK, LockWordProtocol, MutualExclusion, BlockProtocol, NoMissedWakeup,
           PC, Held, TsHeld, DrainClear, MUTEX_CLEAR_LOCK_AND_WAITERS, lockVars,
           cpuVars
  <2>14. CASE Preempt(t)
    BY <2>14, MutexAssumption
       DEF TypeOK, LockWordProtocol, MutualExclusion, BlockProtocol, NoMissedWakeup,
           PC, Held, TsHeld, Preempt, LeaveCpu, Drained, restart_pc, Goto, lockVars,
           cpuVars
  <2>15. CASE Block(t)
    BY <2>15, MutexAssumption, ZenonT(60)
       DEF TypeOK, LockWordProtocol, MutualExclusion, BlockProtocol, NoMissedWakeup,
           PC, Held, TsHeld, Block, LeaveCpu, Drained, lockVars, cpuVars
  <2>16. CASE Dispatch(t)
    BY <2>16, MutexAssumption, Zenon
       DEF TypeOK, LockWordProtocol, MutualExclusion, BlockProtocol, NoMissedWakeup,
           PC, Held, TsHeld, Dispatch, lockVars, cpuVars
  <2> QED BY <1>2, <2>1, <2>2, <2>3, <2>4, <2>5, <2>6, <2>7, <2>8, <2>9, <2>10, <2>11, ZenonT(30),
             <2>12, <2>13, <2>14, <2>15, <2>16
             DEF Moves, Step, Drain
<1> QED BY <1>1, <1>2, Zenon DEF Next

\* The mutex implements a SleepLock: mutual exclusion, sleep only while it
\* is held, and no sleeper left behind by a release.
THEOREM Implements ==
  ASSUME ResumeDrains
  PROVE  Spec => ImplementsSleepLock
<1>1. Init => SleepLock!Init
  BY MutexAssumption, Zenon DEF Init, SleepLock!Init
<1>2. TypeOK /\ LockWordProtocol /\ BlockProtocol /\ [Next]_vars
        => [SleepLock!Next]_<<IF m_owner \in clearing THEN NoThread ELSE m_owner,
                              {t \in Thread : pc[t] = "asleep"}>>
  BY RefinesStep, Zenon
<1> QED BY <1>1, <1>2, BlockProtocolHolds, PTL
           DEF Spec, ImplementsSleepLock, SleepLock!Spec
=============================================================================
