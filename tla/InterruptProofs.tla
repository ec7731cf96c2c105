-------------------------- MODULE InterruptProofs --------------------------
(***************************************************************************)
(* What interrupts interleave with, for every value of the constants: the  *)
(* priority level and the soft interrupts (Spl), the clock tick and its    *)
(* readers (HresTick), and the time that a resumed thread is charged       *)
(* (IntrStart).                                                            *)
(***************************************************************************)
EXTENDS Spl, IntrStart, HresTick, TLAPS, WellFoundedInduction

-----------------------------------------------------------------------------
(* Spl: the priority level and the softints.                               *)

\* A set of levels has a highest one, which is what bsrl finds in its bits.
LEMMA MaxOfIs ==
  ASSUME NEW S, S \subseteq 1 .. 15
  PROVE  /\ MaxOf(S) \in 0 .. 15
         /\ \A k \in S : k <= MaxOf(S)
         /\ S # {} => MaxOf(S) \in S
         /\ S = {} => MaxOf(S) = 0
<1>0. \A k \in S : k \in 1 .. 15
  BY Zenon
<1>1. ASSUME S # {}
      PROVE  \E l \in S : \A k \in S : k <= l
  <2> DEFINE T == {15 - k : k \in S}
  <2>1. T \subseteq Nat /\ T # {}
    <3>1. \A k \in S : 15 - k \in Nat
      BY <1>0
    <3> QED BY <1>1, <3>1, Zenon
  <2>2. PICK m \in T : \A n \in T : ~(<<n, m>> \in OpToRel(<, Nat))
    <3> HIDE DEF T
    <3> QED BY <2>1, NatLessThanWellFounded, WFMin, Zenon
  <2>3. \A n \in T : ~(n < m)
    BY <2>1, <2>2, Zenon DEF OpToRel
  <2>4. PICK l \in S : m = 15 - l
    BY Zenon
  <2>5. \A k \in S : 15 - k \in T
    BY Zenon
  <2>6. \A k \in S : k <= l
    <3> HIDE DEF T
    <3> QED BY <1>0, <2>3, <2>4, <2>5
  <2> QED BY <2>6, Zenon
<1>2. ASSUME S # {}
      PROVE  MaxOf(S) \in S /\ \A k \in S : k <= MaxOf(S)
  <2>1. MaxOf(S) = CHOOSE l \in S : \A k \in S : k <= l
    BY <1>2, Zenon DEF MaxOf
  <2> QED BY <1>1, <1>2, <2>1, Zenon
<1>3. S = {} => MaxOf(S) = 0
  BY Zenon DEF MaxOf
<1>4. CASE S = {}
  BY <1>3, <1>4
<1>5. CASE S # {}
  <2>1. MaxOf(S) \in S /\ \A k \in S : k <= MaxOf(S)
    BY <1>2, <1>5, Zenon
  <2>2. MaxOf(S) \in 0 .. 15
    <3>1. MaxOf(S) \in 1 .. 15
      BY <2>1, Zenon
    <3>2. \A k \in 1 .. 15 : k \in 0 .. 15
      OBVIOUS
    <3> QED BY <3>1, <3>2, Zenon
  <2> QED BY <1>5, <2>1, <2>2, Zenon
<1> QED BY <1>4, <1>5, Zenon

\* The invariant: where a routine is with interrupts off, which of CPU_PRI, the
\* PIC and edx already agree, and who still has to look at st_pending.  Every
\* pending softint is masked, or the routine is on its way to serve it.
SplInv ==
  /\ TypeOK
  /\ pc # "rest" => ~if_flag
  /\ pc # "setspl" => pic = cpu_pri
  /\ pc \in {"setspl", "soft", "fakesoftint"} => cpu_pri = edx
  /\ \A k \in intr_active : k <= cpu_pri
  /\ pc = "setpri" => \A k \in intr_active : k <= edx
  /\ pc = "setpri" /\ routine = "splhi" => edx > cpu_pri
  /\ pc = "raise" => routine \in Raising
  /\ pc = "spl" => routine # "splhi"
  /\ \A s \in st_pending : s <= cpu_pri \/ (pc \in {"setspl", "soft", "fakesoftint"} /\ routine # "splhi")
  /\ pc = "fakesoftint" => MaxOf(st_pending) > edx

\* The processor starts at level 0 with nothing active or pending.
LEMMA SplInitial == Init => SplInv
<1> SUFFICES ASSUME Init PROVE SplInv
  BY Zenon
<1>1. TypeOK
  <2>1. /\ cpu_pri \in 0 .. 15 /\ pic \in 0 .. 15 /\ edx \in 0 .. 15
    BY DEF Init
  <2> QED BY <2>1, Zenon DEF Init, TypeOK
<1> QED BY <1>1, Zenon DEF Init, SplInv

\* The bounds of the device, soft interrupt and spl levels.
LEMMA SplLevelRange ==
  /\ HwLevels \subseteq 1 .. 15 /\ SoftLevels \subseteq 1 .. 15
  /\ SoftLevels \subseteq 1 .. LOCK_LEVEL
  /\ SplLevels \subseteq 0 .. 15
  /\ LOCK_LEVEL \in 1 .. 15 /\ DISP_LEVEL \in 1 .. 15
BY SplAssumption

\* Every entry of the spl routines turns interrupts off and changes no level.
LEMMA EnterStep ==
  ASSUME SplInv, NEW c \in {"RAISE", "SETPRI", "splhi", "splr", "splx"}, NEW l \in 0 .. 15,
         Enter(c, l), c # "splhi" \/ c \in Raising
  PROVE  SplInv'
BY Zenon DEF Enter, cli, SplInv, TypeOK, Raising

\* Every step of the spl routines, of an interrupt and of a softint request
\* keeps the invariant.
LEMMA SplStep == SplInv /\ [Next]_vars => SplInv'
<1> SUFFICES ASSUME SplInv, [Next]_vars
             PROVE  SplInv'
  BY Zenon
<1> USE SplLevelRange
<1>0. /\ st_pending \subseteq 1 .. 15 /\ intr_active \subseteq 1 .. 15
      /\ \A k \in intr_active : k \in 1 .. LOCK_LEVEL /\ k \in 1 .. 15
      /\ \A k \in st_pending : k \in 1 .. 15 /\ k \in SoftLevels
  BY DEF SplInv, TypeOK
<1>1. CASE spl8
  BY <1>1, EnterStep DEF spl8
<1>2. CASE spl7
  BY <1>2, EnterStep DEF spl7
<1>3. CASE splzs
  BY <1>3, EnterStep DEF splzs
<1>4. CASE spl0
  BY <1>4, EnterStep DEF spl0
<1>5. CASE splhi
  BY <1>5, EnterStep DEF splhi, Raising
<1>6. CASE splr
  BY <1>6, EnterStep, Zenon DEF splr
<1>7. CASE splx
  BY <1>7, EnterStep, Zenon DEF splx
<1>8. CASE Raise
  BY <1>8 DEF Raise, raise_above, Unmoved, SplInv, TypeOK, Raising
<1>9. CASE spl
  <2>1. cpu_base_spl \in 0 .. 15 /\ \A k \in intr_active : k <= cpu_base_spl
    BY <1>0, MaxOfIs, Zenon DEF cpu_base_spl
  <2> QED BY <1>0, <1>9, <2>1 DEF spl, Unmoved, SplInv, TypeOK
<1>10. CASE setprilev
  BY <1>0, <1>10 DEF setprilev, Unmoved, SplInv, TypeOK
<1>11. CASE setspl
  BY <1>0, <1>11, Zenon DEF setspl, Unmoved, SplInv, TypeOK
<1>12. CASE Soft
  <2>1. \A s \in st_pending : s <= MaxOf(st_pending)
    BY <1>0, MaxOfIs, Zenon
  <2>2. MaxOf(st_pending) \in 0 .. 15
    BY <1>0, MaxOfIs, Zenon
  <2> QED BY <1>0, <1>12, <2>1, <2>2 DEF Soft, softint_due, Unmoved, SplInv, TypeOK
<1>13. CASE fakesoftint
  <2> DEFINE s == MaxOf(st_pending)
             left == st_pending \ {s}
  <2>0. /\ pc = "fakesoftint" /\ s > edx /\ edx \in 0 .. 15 /\ cpu_pri = edx
        /\ \A k \in intr_active : k <= edx
    BY <1>13, Zenon DEF fakesoftint, SplInv, TypeOK
  <2>1. s \in st_pending /\ s > edx /\ \A k \in intr_active : k < s
    <3>1. s \in 0 .. 15 /\ (st_pending # {} => s \in st_pending) /\ (st_pending = {} => s = 0)
      BY <1>0, MaxOfIs, Zenon
    <3> HIDE DEF s
    <3> QED BY <1>0, <2>0, <3>1
  <2>2. MaxOf(left) \in 0 .. 15 /\ \A k \in left : k <= MaxOf(left)
    BY <1>0, MaxOfIs, Zenon
  <2>3. PICK blocked \in BOOLEAN :
          /\ Serve(s, blocked)
          /\ edx' = IF blocked THEN s ELSE edx
          /\ cpu_pri' = edx' /\ pic' = edx'
          /\ pc' = IF MaxOf(left) > edx' THEN "fakesoftint" ELSE "sti"
    BY <1>13, Zenon DEF fakesoftint
  <2>4. /\ pc = "fakesoftint" /\ st_pending' = left
        /\ UNCHANGED <<if_flag, installed, routine>>
    BY <1>13, Zenon DEF fakesoftint
  <2> HIDE DEF s, left
  <2>5. left \subseteq st_pending
    BY Zenon DEF left
  <2>6. TypeOK'
    BY <1>0, <2>1, <2>3, <2>4, <2>5 DEF Serve, SplInv, TypeOK
  <2>7. \A k \in intr_active' : k <= cpu_pri'
    BY <1>0, <2>0, <2>1, <2>3 DEF Serve
  <2>8. \A k \in st_pending' : k <= cpu_pri' \/ (pc' \in {"setspl", "soft", "fakesoftint"} /\ routine' # "splhi")
    BY <1>0, <2>1, <2>2, <2>3, <2>4, <2>5 DEF SplInv, TypeOK
  <2> QED BY <2>2, <2>3, <2>4, <2>6, <2>7, <2>8, Zenon DEF SplInv
<1>14. CASE setsplsti
  BY <1>0, <1>14, Zenon DEF setsplsti, Unmoved, SplInv, TypeOK
<1>15. CASE install_spl
  BY <1>15, Zenon DEF install_spl, SplInv, TypeOK
<1>16. CASE Interrupt
  <2>1. PICK l \in HwLevels, requested \in SUBSET SoftLevels, blocked \in BOOLEAN :
          /\ if_flag /\ l > pic
          /\ Serve(l, blocked)
          /\ cpu_pri' = IF blocked /\ l > cpu_pri THEN l ELSE cpu_pri
          /\ pic' = IF blocked THEN l ELSE pic
          /\ st_pending' = {s \in st_pending \cup requested : s <= cpu_pri'}
          /\ UNCHANGED <<if_flag, installed, pc, routine, edx>>
    BY <1>16, Zenon DEF Interrupt
  <2>2. pc = "rest" /\ pic = cpu_pri
    BY <2>1, Zenon DEF SplInv, TypeOK
  <2>3. TypeOK'
    <3>1. l \in 1 .. 15 /\ cpu_pri \in 0 .. 15 /\ pic \in 0 .. 15
      BY Zenon DEF SplInv, TypeOK
    <3>2. cpu_pri' \in 0 .. 15 /\ pic' \in 0 .. 15
      BY <2>1, <3>1
    <3>3. intr_active' \subseteq 1 .. LOCK_LEVEL
      BY <1>0, <2>1, <3>1 DEF Serve
    <3>4. st_pending' \subseteq SoftLevels
      BY <1>0, <2>1, Zenon
    <3> QED BY <2>1, <3>2, <3>3, <3>4, Zenon DEF SplInv, TypeOK
  <2>4. pic' = cpu_pri'
    BY <2>1, <2>2, Zenon DEF SplInv, TypeOK
  <2>5. \A k \in intr_active' : k <= cpu_pri'
    BY <1>0, <2>1, <2>2 DEF Serve, SplInv, TypeOK
  <2> QED BY <2>1, <2>2, <2>3, <2>4, <2>5, Zenon DEF SplInv
<1>17. CASE IntrThreadDone
  BY <1>0, <1>17, Zenon DEF IntrThreadDone, SplInv, TypeOK
<1>18. CASE Siron
  <2>1. pc = "rest"
    BY <1>18, Zenon DEF Siron
  <2> QED BY <1>0, <1>18, <2>1, Zenon DEF Siron, SplInv, TypeOK
<1>19. CASE UNCHANGED vars
  BY <1>19 DEF vars, SplInv, TypeOK
<1> QED
  BY <1>1, <1>2, <1>3, <1>4, <1>5, <1>6, <1>7, <1>8, <1>9, <1>10, <1>11, <1>12, <1>13, ZenonT(60),
     <1>14, <1>15, <1>16, <1>17, <1>18, <1>19 DEF Next, Routine

\* The invariant holds whatever interrupts come between the routines.
LEMMA SplInvariant == Spec => []SplInv
BY SplInitial, SplStep, PTL DEF Spec

\* LevelIsRight: the level never drops below that of an active interrupt
\* thread, and outside setspl the PIC masks what CPU_PRI says, for any levels
\* of devices and softints.
THEOREM SplLevelIsRight == Spec => []LevelIsRight
<1>1. SplInv => LevelIsRight
  <2> SUFFICES ASSUME SplInv PROVE LevelIsRight
    BY Zenon
  <2>1. intr_active \subseteq 1 .. 15
    BY SplLevelRange DEF SplInv, TypeOK
  <2>2. cpu_base_spl \in 0 .. 15 /\ (intr_active # {} => cpu_base_spl \in intr_active)
        /\ (intr_active = {} => cpu_base_spl = 0)
    BY <2>1, MaxOfIs, Zenon DEF cpu_base_spl
  <2> QED BY <2>2 DEF SplInv, LevelIsRight, TypeOK, NeverBelowBase, PicMatchesLevel
<1> QED BY <1>1, SplInvariant, PTL

\* SoftintsServed: spl(), splx() and setspl() leave no softint pending above
\* the level they set, because they look at st_pending after storing it.
THEOREM SplSoftintsServed == Spec => []SoftintsServed
<1>1. SplInv => SoftintsServed
  BY Zenon DEF SplInv, SoftintsServed
<1> QED BY <1>1, SplInvariant, PTL

-----------------------------------------------------------------------------
(* HresTick: arithmetic in words.                                          *)

\* Quotient and remainder are unique.
LEMMA ProductBound ==
  ASSUME NEW d \in Nat \ {0}, NEW q \in Int, NEW r \in 0 .. d - 1, NEW s \in 0 .. d - 1, NEW p \in Int,
         d * q + r = d * p + s
  PROVE  q = p /\ r = s
<1>1. d * (q - p) = s - r
  OBVIOUS
<1>2. CASE q >= p + 1
  <2>1. d * (q - p) >= d
    BY <1>2
  <2> QED BY <1>1, <2>1
<1>3. CASE q <= p - 1
  <2>1. d * (q - p) <= -d
    BY <1>3
  <2> QED BY <1>1, <2>1
<1>4. CASE q = p
  BY <1>4
<1> QED BY <1>2, <1>3, <1>4

\* A number is its quotient and its remainder.
LEMMA DivMod ==
  ASSUME NEW d \in Nat \ {0}, NEW a \in Int
  PROVE  a = d * (a \div d) + (a % d) /\ a % d \in 0 .. d - 1 /\ a \div d \in Int
OBVIOUS

\* The remainder and the quotient of a number given by both.
LEMMA DivModIs ==
  ASSUME NEW d \in Nat \ {0}, NEW q \in Int, NEW r \in 0 .. d - 1
  PROVE  (d * q + r) % d = r /\ (d * q + r) \div d = q
<1>1. d * q + r \in Int
  OBVIOUS
<1> QED BY <1>1, DivMod, ProductBound

\* Multiplication keeps the order.
LEMMA ProductMonotone ==
  ASSUME NEW d \in Nat, NEW a \in Int, NEW b \in Int, a <= b
  PROVE  d * a <= d * b
<1>1. d * (b - a) >= 0
  OBVIOUS
<1> QED BY <1>1

\* Reducing a number less than one word away from the word.
LEMMA ModNear ==
  ASSUME NEW d \in Nat \ {0}, NEW a \in -d .. d - 1
  PROVE  a % d = IF a < 0 THEN a + d ELSE a
<1>1. CASE a < 0
  <2>1. d * (-1) + (a + d) = a /\ a + d \in 0 .. d - 1 /\ -1 \in Int
    BY <1>1
  <2>2. (d * (-1) + (a + d)) % d = a + d
    BY <2>1, DivModIs, Zenon
  <2> QED BY <1>1, <2>1, <2>2, Zenon
<1>2. CASE a >= 0
  <2>1. d * 0 + a = a /\ a \in 0 .. d - 1 /\ 0 \in Int
    BY <1>2
  <2>2. (d * 0 + a) % d = a
    BY <2>1, DivModIs, Zenon
  <2> QED BY <1>2, <2>1, <2>2
<1> QED BY <1>1, <1>2

\* Half the values of a word: the sign bit of the high word of timedelta.
HalfWord == Word \div 2

\* The adjustments that fit in two words and whose negation does too.
AdjRange == -(Word * HalfWord - 1) .. Word * HalfWord - 1

\* What one tick applies of an adjustment: at most max_hres_adj of it.
Clamp(x) == IF x > max_hres_adj THEN max_hres_adj
            ELSE IF x < -max_hres_adj THEN -max_hres_adj ELSE x

\* A signed pair of words has its quotient within half a word of 0.
LEMMA TwoWords ==
  ASSUME NEW x \in AdjRange
  PROVE  /\ x \in Int /\ x \div Word \in -HalfWord .. HalfWord - 1 /\ x % Word \in 0 .. Word - 1
         /\ x = Word * (x \div Word) + (x % Word)
         /\ HalfWord \in Nat \ {0} /\ Word = 2 * HalfWord /\ Word \in Nat \ {0}
         /\ msw(x) = IF x \div Word < 0 THEN (x \div Word) + Word ELSE x \div Word
         /\ lsw(x) = x % Word /\ -x \in AdjRange
<1> DEFINE q == x \div Word
           r == x % Word
<1> USE HresTickAssumption
<1>1. Word \in Nat \ {0} /\ HalfWord \in Nat \ {0} /\ Word = 2 * HalfWord
  BY DEF HalfWord
<1>0. Word * HalfWord \in Nat /\ Word * HalfWord >= 1
  BY <1>1
<1>2. x \in Int /\ -x \in AdjRange
  BY <1>0 DEF AdjRange
<1>3. q \in Int /\ r \in 0 .. Word - 1 /\ x = Word * q + r
  BY <1>1, <1>2, DivMod, Zenon
<1>4. q < HalfWord
  <2> SUFFICES ASSUME q >= HalfWord PROVE FALSE
    BY <1>1, <1>3
  <2>1. Word * HalfWord <= Word * q
    <3> HIDE DEF q, r
    <3>1. Word \in Nat /\ q \in Int /\ HalfWord \in Int /\ HalfWord <= q
      BY <1>1, <1>3
    <3> QED BY <3>1, ProductMonotone, Zenon
  <2> QED BY <1>0, <1>1, <1>3, <2>1 DEF AdjRange
<1>5. q >= -HalfWord
  <2> SUFFICES ASSUME q + 1 <= -HalfWord PROVE FALSE
    BY <1>1, <1>3
  <2>1. Word * (q + 1) <= Word * (-HalfWord)
    <3> HIDE DEF q, r
    <3>1. Word \in Nat /\ q + 1 \in Int /\ -HalfWord \in Int
      BY <1>1, <1>3
    <3> QED BY <3>1, ProductMonotone, Zenon
  <2>2. Word * (q + 1) = Word * q + Word /\ Word * (-HalfWord) = -(Word * HalfWord) /\ Word * q \in Int
    BY <1>1, <1>3
  <2> QED BY <1>0, <1>1, <1>3, <2>1, <2>2 DEF AdjRange
<1>6. msw(x) = IF q < 0 THEN q + Word ELSE q
  <2>1. q \in -Word .. Word - 1
    BY <1>1, <1>3, <1>4, <1>5
  <2>2. q % Word = IF q < 0 THEN q + Word ELSE q
    BY <1>1, <2>1, ModNear, Zenon
  <2> QED BY <2>2, Zenon DEF msw
<1> QED BY <1>1, <1>2, <1>3, <1>4, <1>5, <1>6 DEF lsw

\* The words compute the clamped adjustment.
LEMMA AdjIs ==
  ASSUME NEW x \in AdjRange
  PROVE  adj(x) = Clamp(x)
<1> DEFINE q == x \div Word
           r == x % Word
<1> USE HresTickAssumption
<1>1. /\ x \in Int /\ q \in -HalfWord .. HalfWord - 1 /\ r \in 0 .. Word - 1
      /\ HalfWord \in Nat \ {0} /\ Word = 2 * HalfWord /\ Word \in Nat \ {0}
      /\ msw(x) = (IF q < 0 THEN q + Word ELSE q) /\ lsw(x) = r /\ -x \in AdjRange
      /\ x = Word * q + r
  BY TwoWords, Zenon
<1>0. max_hres_adj \in Nat \ {0} /\ max_hres_adj < Word
  BY <1>1
<1>2. /\ q = 0 => x = r
      /\ q = -1 => x = r - Word
      /\ q >= 1 => x >= Word
      /\ q <= -2 => x < -Word
      /\ x >= 0 <=> q >= 0
  <2>1. q >= 1 => Word * q >= Word
    BY <1>1
  <2>2. q <= -2 => Word * q <= -2 * Word
    BY <1>1
  <2>3. (q = 0 => Word * q = 0) /\ (q = -1 => Word * q = -Word) /\ Word * q \in Int
    BY <1>1
  <2> HIDE DEF q, r
  <2> QED BY <1>1, <2>1, <2>2, <2>3
<1>3. Signed(msw(x), lsw(x)) = x
  <2>1. Word \div 2 = HalfWord
    BY Zenon DEF HalfWord
  <2>2. (IF msw(x) >= HalfWord THEN msw(x) - Word ELSE msw(x)) = q
    BY <1>1
  <2>3. q * Word + r = x
    BY <1>1
  <2> QED BY <1>1, <2>1, <2>2, <2>3, Zenon DEF Signed
<1>4. positive(x) <=> x > 0
  <2>1. /\ -x \in Int /\ -x = Word * ((-x) \div Word) + ((-x) % Word) /\ (-x) % Word \in 0 .. Word - 1
        /\ (-x) \div Word \in -HalfWord .. HalfWord - 1
        /\ msw(-x) = IF (-x) \div Word < 0 THEN ((-x) \div Word) + Word ELSE (-x) \div Word
    BY <1>1, TwoWords, Zenon
  <2> DEFINE p == (-x) \div Word
             s == (-x) % Word
  <2>2. p >= 0 => Word * p >= 0
    BY <1>1, <2>1
  <2>3. p < 0 => Word * p <= -Word
    BY <1>1, <2>1
  <2>4. Word * p \in Int
    BY <1>1, <2>1
  <2>5. -x = Word * p + s /\ s \in 0 .. Word - 1 /\ p \in -HalfWord .. HalfWord - 1
        /\ msw(-x) = IF p < 0 THEN p + Word ELSE p
    BY <2>1, Zenon
  <2>6. positive(x) <=> p < 0
    <3> HIDE DEF p, s
    <3> QED BY <1>1, <2>5 DEF positive, HalfWord
  <2>7. p < 0 <=> x > 0
    <3> HIDE DEF p, s
    <3> QED BY <1>1, <2>2, <2>3, <2>4, <2>5
  <2> QED BY <2>6, <2>7, Zenon
<1>5. ASSUME x > 0
      PROVE  positive_large(x) <=> x > max_hres_adj
  <2> HIDE DEF q, r
  <2> QED BY <1>0, <1>1, <1>2, <1>5 DEF positive_large
<1>6. ASSUME x < 0
      PROVE  negative_small(x) <=> x >= -max_hres_adj
  <2> HIDE DEF q, r
  <2> QED BY <1>0, <1>1, <1>2, <1>6 DEF negative_small
<1>7. Signed(Word - 1, (Word - max_hres_adj) % Word) = -max_hres_adj
  <2>1. Word - max_hres_adj \in -Word .. Word - 1 /\ ~(Word - max_hres_adj < 0)
    BY <1>0, <1>1
  <2>2. (Word - max_hres_adj) % Word = Word - max_hres_adj
    BY <1>1, <2>1, ModNear, Zenon
  <2>3. Word - 1 >= Word \div 2 /\ (Word - 1 - Word) * Word = -Word
    BY <1>1
  <2> QED BY <1>0, <1>1, <2>2, <2>3 DEF Signed
<1>8. CASE x = 0
  BY <1>0, <1>8 DEF adj, Clamp
<1>9. CASE x > 0
  BY <1>0, <1>1, <1>3, <1>4, <1>5, <1>9 DEF adj, Clamp
<1>10. CASE x < 0
  BY <1>0, <1>1, <1>3, <1>4, <1>6, <1>7, <1>10 DEF adj, Clamp
<1> QED BY <1>1, <1>8, <1>9, <1>10

\* The clamped adjustment is within max_hres_adj, and what it leaves fits in
\* two words.
LEMMA ClampIs ==
  ASSUME NEW x \in AdjRange
  PROVE  /\ Clamp(x) \in -max_hres_adj .. max_hres_adj /\ Clamp(x) \in Int
         /\ x - Clamp(x) \in AdjRange /\ x \in Int
<1> USE HresTickAssumption
<1>1. Word * HalfWord \in Int /\ x \in Int /\ max_hres_adj \in Nat
  BY DEF AdjRange, HalfWord
<1> QED BY <1>1 DEF Clamp, AdjRange

-----------------------------------------------------------------------------
(* HresTick: hres_tick(), its readers and adjtime().                       *)

\* Where a processor is in hres_tick(), with its registers.
TickRecord == [pc : {"out", "lock", "base", "nsec", "adj", "carry", "release"},
               time : Int, interval : Int, eax : 0 .. Word - 1]

\* Where a reader is in its loop around hres_lock, with what it has read.
ReaderRecord == [pc : {"out", "sec", "nsec", "check"}, lock : Nat, sec : Nat, nsec : 0 .. Word - 1]

\* The types.  timedelta stays within two words: hrestime_adj is its copy.
HresTypes ==
  /\ clock \in Nat /\ hres_lock \in Nat /\ hrtime_base \in Int /\ hres_last_tick \in Int
  /\ tv_sec \in Nat /\ tv_nsec \in 0 .. Word - 1
  /\ timedelta \in AdjRange /\ hrestime_adj = timedelta /\ applied \in Int
  /\ tick \in [Ticker -> TickRecord] /\ reader \in [Reader -> ReaderRecord]

\* Ticker c has hres_lock.
Holds(c) == tick[c].pc \notin {"out", "lock"}

\* hrestime, with nsec in place of its nanoseconds, is the time of the last
\* tick plus the adjustments applied, as long as the ticks came in order and
\* neither too close together nor too far apart.
Tracks(nsec) == ordered => tv_sec * NANOSEC + nsec = hres_last_tick + applied

\* What hres_lock protects, when it is free.
AtRest == tv_nsec < NANOSEC /\ hrtime_base - hres_last_tick = Base0 /\ Tracks(tv_nsec)

\* What has been done and what is still to be done, at each place of hres_tick().
InTick(c) ==
  /\ tick[c].pc \in {"base", "nsec"} =>
       /\ tick[c].interval = tick[c].time - hres_last_tick
       /\ tv_nsec < NANOSEC /\ Tracks(tv_nsec)
       /\ ordered => tick[c].interval \in MinInterval .. LongestInterval
  /\ tick[c].pc = "nsec" => hrtime_base - tick[c].time = Base0
  /\ tick[c].pc \in {"base", "adj", "carry", "release"} => hrtime_base - hres_last_tick = Base0
  /\ tick[c].pc = "adj" =>
       Tracks(tv_nsec) /\ (ordered => tv_nsec \in max_hres_adj .. Word - 1 - max_hres_adj)
  /\ tick[c].pc = "carry" => Tracks(tick[c].eax)
  /\ tick[c].pc = "release" => tv_nsec < NANOSEC /\ Tracks(tv_nsec)

\* A reader that saw hres_lock as it is now, and free, has read the current time.
ReadsNow(r) ==
  /\ reader[r].lock <= hres_lock
  /\ Free /\ reader[r].lock = hres_lock =>
       /\ reader[r].pc \in {"nsec", "check"} => reader[r].sec = tv_sec
       /\ reader[r].pc = "check" => reader[r].nsec = tv_nsec

\* The low byte of hres_lock is 0 or 0xff, so its low bit says who may read.
LockWord ==
  /\ hres_lock % Byte \in {0, Byte - 1}
  /\ hres_lock % 2 = IF Free THEN 0 ELSE 1

\* The inductive invariant.
HresInv ==
  /\ HresTypes /\ LockWord
  /\ Free => AtRest /\ \A c \in Ticker : ~Holds(c)
  /\ \A c, d \in Ticker : Holds(c) /\ Holds(d) => c = d
  /\ \A c \in Ticker : InTick(c)
  /\ \A r \in Reader : ReadsNow(r)

-----------------------------------------------------------------------------
\* What the assumptions on the constants say of the sizes.
LEMMA HresConstants ==
  /\ Word \in Nat \ {0} /\ NANOSEC \in Nat \ {0} /\ max_hres_adj \in Nat \ {0} /\ MinInterval \in Nat
  /\ max_hres_adj <= MinInterval /\ LongestInterval + NANOSEC + max_hres_adj = Word
  /\ NANOSEC <= Word /\ Byte \in Nat \ {0, 1} /\ 0 \in AdjRange /\ Deltas \subseteq AdjRange
<1> USE HresTickAssumption
<1>1. Word * (Word \div 2) \in Nat \ {0}
  <2>1. Word \in Nat \ {0} /\ Word \div 2 \in Nat \ {0}
    OBVIOUS
  <2> QED BY <2>1
<1>2. 0 \in AdjRange /\ Deltas \subseteq AdjRange
  BY <1>1 DEF AdjRange, HalfWord
<1>3. Byte \in Nat \ {0, 1}
  OBVIOUS
<1> QED BY <1>2, <1>3 DEF LongestInterval

\* The three additions to hres_lock: xchgb, incl, and adjtime()'s.
LEMMA LockWordMoves ==
  ASSUME NEW l \in Nat
  PROVE  /\ l % Byte = 0 => (l + (Byte - 1)) % Byte = Byte - 1 /\ (l + Byte) % Byte = 0
         /\ l % Byte = Byte - 1 => (l + 1) % Byte = 0
         /\ l % 2 = 0 => (l + (Byte - 1)) % 2 = 1 /\ (l + Byte) % 2 = 0
         /\ l % 2 = 1 => (l + 1) % 2 = 0
<1> USE HresTickAssumption
<1>0. Byte \in Nat \ {0, 1}
  BY HresConstants, Zenon
<1> DEFINE q == l \div Byte
<1>1. q \in Int /\ l = Byte * q + (l % Byte)
  BY <1>0, DivMod
<1>2. ASSUME l % Byte = 0
      PROVE  (l + (Byte - 1)) % Byte = Byte - 1 /\ (l + Byte) % Byte = 0
  <2>1. l + (Byte - 1) = Byte * q + (Byte - 1) /\ Byte - 1 \in 0 .. Byte - 1
    BY <1>0, <1>1, <1>2
  <2>2. l + Byte = Byte * (q + 1) + 0 /\ 0 \in 0 .. Byte - 1 /\ q + 1 \in Int
    BY <1>0, <1>1, <1>2
  <2> HIDE DEF q
  <2>3. (Byte * q + (Byte - 1)) % Byte = Byte - 1
    BY <1>0, <1>1, <2>1, DivModIs, Zenon
  <2>4. (Byte * (q + 1) + 0) % Byte = 0
    BY <1>0, <2>2, DivModIs, Zenon
  <2> QED BY <2>1, <2>2, <2>3, <2>4, Zenon
<1>3. ASSUME l % Byte = Byte - 1
      PROVE  (l + 1) % Byte = 0
  <2>1. l + 1 = Byte * (q + 1) + 0 /\ 0 \in 0 .. Byte - 1 /\ q + 1 \in Int
    BY <1>0, <1>1, <1>3
  <2> HIDE DEF q
  <2>2. (Byte * (q + 1) + 0) % Byte = 0
    BY <1>0, <2>1, DivModIs, Zenon
  <2> QED BY <2>1, <2>2, Zenon
<1>4. l % 2 = 0 => (l + (Byte - 1)) % 2 = 1 /\ (l + Byte) % 2 = 0
  BY <1>0
<1>5. l % 2 = 1 => (l + 1) % 2 = 0
  OBVIOUS
<1> QED BY <1>2, <1>3, <1>4, <1>5, Zenon

\* The clocks start together, with hres_lock free.
LEMMA HresInitial == HresInit => HresInv
<1> SUFFICES ASSUME HresInit PROVE HresInv
  OBVIOUS
<1>1. HresTypes
  <2>1. 0 \in 0 .. Word - 1
    BY HresConstants
  <2>2. tick \in [Ticker -> TickRecord]
    BY <2>1 DEF HresInit, TickRecord
  <2>3. reader \in [Reader -> ReaderRecord]
    BY <2>1, Zenon DEF HresInit, ReaderRecord
  <2>4. /\ clock \in Nat /\ hres_lock \in Nat /\ hrtime_base \in Int /\ hres_last_tick \in Int
        /\ tv_sec \in Nat /\ applied \in Int
    BY DEF HresInit, Base0
  <2> QED BY <2>1, <2>2, <2>3, <2>4, HresConstants, Zenon DEF HresInit, HresTypes
<1>2. 0 % Byte = 0 /\ 0 % 2 = 0
  <2>1. 0 \in -Byte .. Byte - 1 /\ Byte \in Nat \ {0}
    BY HresConstants
  <2> QED BY <2>1, ModNear
<1>3. LockWord /\ Free
  BY <1>2, Zenon DEF HresInit, LockWord, Free
<1>4. AtRest
  <2>1. 0 * NANOSEC = 0 /\ 0 < NANOSEC
    BY HresConstants
  <2> QED BY <2>1 DEF HresInit, AtRest, Tracks, Base0
<1>5. \A c \in Ticker : ~Holds(c) /\ InTick(c)
  BY Zenon DEF HresInit, Holds, InTick
<1>6. \A r \in Reader : ReadsNow(r)
  BY DEF HresInit, ReadsNow
<1> QED BY <1>1, <1>3, <1>4, <1>5, <1>6, Zenon DEF HresInv

\* A step of the ticker that has hres_lock, and keeps it.
LEMMA HolderStep ==
  ASSUME HresInv, NEW c \in Ticker, Holds(c), HresTypes', Holds(c)', InTick(c)',
         \A d \in Ticker \ {c} : tick'[d] = tick[d],
         UNCHANGED <<hres_lock, reader>>
  PROVE  HresInv'
<1>1. ~Free /\ ~Free' /\ LockWord'
  BY Zenon DEF HresInv, Free, LockWord
<1>2. \A d \in Ticker \ {c} : ~Holds(d) /\ ~Holds(d)'
  BY Zenon DEF HresInv, Holds
<1>3. \A d \in Ticker : InTick(d)'
  <2> TAKE d \in Ticker
  <2>1. CASE d = c
    BY <2>1, Zenon
  <2>2. CASE d # c
    BY <1>2, <2>2, Zenon DEF InTick, Holds
  <2> QED BY <2>1, <2>2, Zenon
<1>4. \A r \in Reader : ReadsNow(r)'
  BY <1>1, Zenon DEF HresInv, ReadsNow
<1> QED BY <1>1, <1>2, <1>3, <1>4, Zenon DEF HresInv

\* The stores that hres_tick() makes under hres_lock keep the invariant.
LEMMA HolderSteps ==
  ASSUME HresInv, NEW c \in Ticker,
         add_base(c) \/ add_nsec(c) \/ adj_hrestime(c) \/ carry_second(c) \/ store_nsec(c)
  PROVE  HresInv'
<1>0. /\ HresTypes /\ InTick(c) /\ tick[c] \in TickRecord
      /\ Word \in Nat \ {0} /\ NANOSEC \in Nat \ {0} /\ max_hres_adj \in Nat \ {0} /\ MinInterval \in Nat
      /\ max_hres_adj <= MinInterval /\ LongestInterval + NANOSEC + max_hres_adj = Word /\ NANOSEC <= Word
      /\ LongestInterval \in Int /\ tv_sec * NANOSEC \in Int
  BY HresConstants DEF HresInv, HresTypes, LongestInterval
<1>1. CASE add_base(c)
  <2>1. /\ tick' \in [Ticker -> TickRecord] /\ tick[c].pc = "base" /\ tick'[c].pc = "nsec"
        /\ tick'[c].interval = tick[c].interval /\ tick'[c].time = tick[c].time
        /\ \A d \in Ticker \ {c} : tick'[d] = tick[d]
    BY <1>0, <1>1, Zenon DEF add_base, HresTypes, TickRecord
  <2>2. tick[c].interval \in Int /\ tick[c].time \in Int
    BY <1>0, Zenon DEF TickRecord
  <2>3. HresTypes'
    BY <1>0, <1>1, <2>1, <2>2 DEF add_base, HresTypes
  <2>4. InTick(c)'
    BY <1>0, <1>1, <2>1, <2>2 DEF add_base, InTick, Tracks, HresTypes
  <2>5. Holds(c) /\ Holds(c)' /\ UNCHANGED <<hres_lock, reader>>
    BY <1>1, <2>1, Zenon DEF add_base, Holds
  <2> QED BY <2>1, <2>3, <2>4, <2>5, HolderStep, Zenon
<1>2. CASE add_nsec(c)
  <2>1. /\ tick' \in [Ticker -> TickRecord] /\ tick[c].pc = "nsec" /\ tick'[c].pc = "adj"
        /\ \A d \in Ticker \ {c} : tick'[d] = tick[d]
    BY <1>0, <1>2, Zenon DEF add_nsec, HresTypes, TickRecord
  <2>2. tick[c].interval \in Int /\ tick[c].time \in Int
    BY <1>0 DEF TickRecord
  <2>3. tv_nsec' \in 0 .. Word - 1
    <3>1. tv_nsec + tick[c].interval \in Int
      BY <1>0, <2>2 DEF HresTypes
    <3> QED BY <1>0, <1>2, <3>1, DivMod, Zenon DEF add_nsec
  <2>4. HresTypes'
    BY <1>0, <1>2, <2>1, <2>2, <2>3, Zenon DEF add_nsec, HresTypes
  <2>5. ASSUME ordered
        PROVE  tv_nsec' = tv_nsec + tick[c].interval /\ tv_nsec' \in max_hres_adj .. Word - 1 - max_hres_adj
    <3>1. /\ tv_nsec + tick[c].interval \in max_hres_adj .. Word - 1 - max_hres_adj
          /\ tv_nsec + tick[c].interval \in -Word .. Word - 1 /\ ~(tv_nsec + tick[c].interval < 0)
      BY <1>0, <2>1, <2>2, <2>5 DEF InTick, HresTypes
    <3>2. (tv_nsec + tick[c].interval) % Word = tv_nsec + tick[c].interval
      BY <1>0, <3>1, ModNear, Zenon
    <3> QED BY <1>2, <3>1, <3>2, Zenon DEF add_nsec
  <2>a. /\ hres_last_tick' = tick[c].time /\ UNCHANGED <<ordered, tv_sec, hrtime_base, applied>>
        /\ tick[c].interval = tick[c].time - hres_last_tick /\ hrtime_base - tick[c].time = Base0
        /\ ordered => tv_sec * NANOSEC + tv_nsec = hres_last_tick + applied
    BY <1>0, <1>2, <2>1, ZenonT(30) DEF add_nsec, InTick, Tracks
  <2>b. ordered => tv_sec * NANOSEC + tv_nsec' = hres_last_tick' + applied
    BY <1>0, <2>2, <2>5, <2>a DEF HresTypes
  <2>6. InTick(c)'
    BY <2>1, <2>5, <2>a, <2>b, Zenon DEF InTick, Tracks
  <2>7. Holds(c) /\ Holds(c)' /\ UNCHANGED <<hres_lock, reader>>
    BY <1>2, <2>1, Zenon DEF add_nsec, Holds
  <2> QED BY <2>1, <2>4, <2>6, <2>7, HolderStep, Zenon
<1>3. CASE adj_hrestime(c)
  <2> DEFINE a == adj(hrestime_adj)
  <2>0. /\ a = Clamp(timedelta) /\ a \in Int /\ a \in -max_hres_adj .. max_hres_adj
        /\ timedelta - a \in AdjRange
    BY <1>0, AdjIs, ClampIs, Zenon DEF HresTypes
  <2>1. (tv_nsec + a) % Word \in 0 .. Word - 1
    <3>1. tv_nsec + a \in Int
      BY <1>0, <2>0 DEF HresTypes
    <3> HIDE DEF a
    <3> QED BY <1>0, <3>1, DivMod, Zenon
  <2>2. /\ tick[c].pc = "adj" /\ tick'[c].pc = "carry" /\ tick'[c].eax = (tv_nsec + a) % Word
        /\ \A d \in Ticker \ {c} : tick'[d] = tick[d]
    BY <1>0, <1>3, Zenon DEF adj_hrestime, HresTypes, TickRecord
  <2>3. tick' \in [Ticker -> TickRecord]
    BY <1>0, <1>3, <2>1, Zenon DEF adj_hrestime, HresTypes, TickRecord
  <2>4. HresTypes' /\ applied' = applied + a
    BY <1>0, <1>3, <2>0, <2>3 DEF adj_hrestime, HresTypes
  <2>5. ASSUME ordered
        PROVE  tick'[c].eax = tv_nsec + a
    <3>1. tv_nsec + a \in -Word .. Word - 1 /\ ~(tv_nsec + a < 0)
      <4>1. tv_nsec \in max_hres_adj .. Word - 1 - max_hres_adj
        BY <1>0, <2>2, <2>5, Zenon DEF InTick
      <4> HIDE DEF a
      <4> QED BY <1>0, <2>0, <4>1
    <3> HIDE DEF a
    <3>2. (tv_nsec + a) % Word = tv_nsec + a
      BY <1>0, <3>1, ModNear, Zenon
    <3> QED BY <2>2, <3>2, ZenonT(30)
  <2>6. InTick(c)'
    <3>1. UNCHANGED <<ordered, tv_sec, hres_last_tick, hrtime_base>>
      BY <1>3, Zenon DEF adj_hrestime
    <3> HIDE DEF a
    <3> QED BY <1>0, <2>0, <2>2, <2>4, <2>5, <3>1 DEF InTick, Tracks, HresTypes
  <2>7. Holds(c) /\ Holds(c)' /\ UNCHANGED <<hres_lock, reader>>
    BY <1>3, <2>2, Zenon DEF adj_hrestime, Holds
  <2> QED BY <2>2, <2>4, <2>6, <2>7, HolderStep, Zenon
<1>4. CASE carry_second(c)
  <2>0. tick[c].eax \in 0 .. Word - 1 /\ tick[c].eax >= NANOSEC
    BY <1>0, <1>4, Zenon DEF carry_second, second_full, TickRecord
  <2>1. tick[c].eax - NANOSEC \in 0 .. Word - 1
    <3>1. Word \in Nat /\ NANOSEC \in Nat
      BY <1>0, Zenon
    <3> QED BY ONLY <2>0, <3>1
  <2>2. /\ tick[c].pc = "carry" /\ tick'[c].pc = "carry" /\ tick'[c].eax = tick[c].eax - NANOSEC
        /\ \A d \in Ticker \ {c} : tick'[d] = tick[d]
    BY <1>0, <1>4, Zenon DEF carry_second, HresTypes, TickRecord
  <2>3. tick' \in [Ticker -> TickRecord]
    BY <1>0, <1>4, <2>1, Zenon DEF carry_second, HresTypes, TickRecord
  <2>4. HresTypes'
    BY <1>0, <1>4, <2>3 DEF carry_second, HresTypes
  <2>5. tv_sec' * NANOSEC = tv_sec * NANOSEC + NANOSEC
    BY <1>0, <1>4 DEF carry_second, HresTypes
  <2>6. InTick(c)'
    BY <1>0, <1>4, <2>0, <2>2, <2>5 DEF carry_second, InTick, Tracks, HresTypes
  <2>7. Holds(c) /\ Holds(c)' /\ UNCHANGED <<hres_lock, reader>>
    BY <1>4, <2>2, Zenon DEF carry_second, Holds
  <2> QED BY <2>2, <2>4, <2>6, <2>7, HolderStep, Zenon
<1>5. CASE store_nsec(c)
  <2>0. tick[c].eax \in 0 .. Word - 1 /\ tick[c].eax < NANOSEC
    BY <1>0, <1>5 DEF store_nsec, second_full, TickRecord
  <2>2. /\ tick[c].pc = "carry" /\ tick'[c].pc = "release" /\ tick' \in [Ticker -> TickRecord]
        /\ \A d \in Ticker \ {c} : tick'[d] = tick[d]
    BY <1>0, <1>5, Zenon DEF store_nsec, HresTypes, TickRecord
  <2>4. HresTypes'
    BY <1>0, <1>5, <2>0, <2>2, Zenon DEF store_nsec, HresTypes
  <2>6. InTick(c)'
    BY <1>0, <1>5, <2>0, <2>2, Zenon DEF store_nsec, InTick, Tracks, HresTypes
  <2>7. Holds(c) /\ Holds(c)' /\ UNCHANGED <<hres_lock, reader>>
    BY <1>5, <2>2, Zenon DEF store_nsec, Holds
  <2> QED BY <2>2, <2>4, <2>6, <2>7, HolderStep, Zenon
<1> QED BY <1>1, <1>2, <1>3, <1>4, <1>5, Zenon

\* The steps that take and release hres_lock.
LEMMA LockSteps ==
  ASSUME HresInv, NEW c \in Ticker, gethrtime(c) \/ clock_lock(c) \/ release(c)
  PROVE  HresInv'
<1>0. /\ HresTypes /\ LockWord /\ InTick(c) /\ tick[c] \in TickRecord /\ Byte \in Nat \ {0, 1} /\ 0 \in 0 .. Word - 1
      /\ Free => AtRest /\ \A d \in Ticker : ~Holds(d)
      /\ \A d, e \in Ticker : Holds(d) /\ Holds(e) => d = e
      /\ \A d \in Ticker : InTick(d)
      /\ \A r \in Reader : ReadsNow(r) /\ reader[r].lock \in Nat
  BY HresConstants DEF HresInv, HresTypes, ReaderRecord
<1>1. CASE gethrtime(c)
  <2>0. clock \in Int /\ tick \in [Ticker -> TickRecord]
    BY <1>0 DEF HresTypes
  <2>1. /\ tick' \in [Ticker -> TickRecord] /\ tick[c].pc = "out" /\ tick'[c].pc = "lock"
        /\ \A d \in Ticker \ {c} : tick'[d] = tick[d]
    BY <1>1, <2>0, ZenonT(30) DEF gethrtime, TickRecord
  <2>2. HresTypes' /\ LockWord' /\ (Free' <=> Free) /\ (AtRest' <=> AtRest)
    BY <1>0, <1>1, <2>1, Zenon DEF gethrtime, times, HresTypes, LockWord, Free, AtRest, Tracks
  <2>3. \A d \in Ticker : (Holds(d)' <=> Holds(d))
    BY <2>1, Zenon DEF Holds
  <2>4. \A d \in Ticker : InTick(d)'
    BY <1>0, <1>1, <2>1 DEF gethrtime, times, InTick, Tracks
  <2>5. \A r \in Reader : ReadsNow(r)'
    BY <1>0, <1>1, Zenon DEF gethrtime, times, ReadsNow, Free
  <2> QED BY <1>0, <2>2, <2>3, <2>4, <2>5, Zenon DEF HresInv
<1>2. CASE clock_lock(c)
  <2>0. Free /\ AtRest /\ \A d \in Ticker : ~Holds(d)
    BY <1>0, <1>2, Zenon DEF clock_lock, Free
  <2>a. tick[c].time - hres_last_tick \in Int
    BY <1>0 DEF TickRecord, HresTypes
  <2>1. /\ tick' \in [Ticker -> TickRecord] /\ tick[c].pc = "lock" /\ tick'[c].pc = "base"
        /\ tick'[c].interval = tick[c].time - hres_last_tick /\ tick'[c].time = tick[c].time
        /\ \A d \in Ticker \ {c} : tick'[d] = tick[d]
    BY <1>0, <1>2, <2>a, Zenon DEF clock_lock, HresTypes, TickRecord
  <2>2. hres_lock' = hres_lock + (Byte - 1) /\ hres_lock' \in Nat /\ hres_lock' > hres_lock /\ hres_lock \in Nat
    BY <1>0, <1>2 DEF clock_lock, HresTypes
  <2>3. LockWord' /\ ~Free'
    <3>1. hres_lock % Byte = 0 /\ hres_lock % 2 = 0
      BY <1>0, <2>0, Zenon DEF LockWord, Free
    <3>2. (hres_lock + (Byte - 1)) % Byte = Byte - 1 /\ (hres_lock + (Byte - 1)) % 2 = 1
      BY <2>2, <3>1, LockWordMoves, Zenon
    <3>3. Byte - 1 # 0
      <4>1. Byte \in Nat \ {0, 1}
        BY <1>0, Zenon
      <4> QED BY ONLY <4>1
    <3> QED BY <2>2, <3>2, <3>3, Zenon DEF LockWord, Free
  <2>4. HresTypes'
    BY <1>0, <1>2, <2>1, <2>2, Zenon DEF clock_lock, times, HresTypes
  <2>5. \A d \in Ticker \ {c} : ~Holds(d)'
    BY <2>0, <2>1, Zenon DEF Holds
  <2>6. \A d \in Ticker : InTick(d)'
    <3> TAKE d \in Ticker
    <3>1. CASE d = c
      BY <1>2, <2>0, <2>1, <3>1, ZenonT(30) DEF clock_lock, times, InTick, AtRest, Tracks
    <3>2. CASE d # c
      <4>1. ~Holds(d)'
        BY <2>5, <3>2, Zenon
      <4> QED BY <4>1, Zenon DEF InTick, Holds
    <3> QED BY <3>1, <3>2, Zenon
  <2>7. \A r \in Reader : ReadsNow(r)'
    BY <1>0, <1>2, <2>2, <2>3 DEF clock_lock, ReadsNow
  <2> QED BY <2>3, <2>4, <2>5, <2>6, <2>7, Zenon DEF HresInv
<1>3. CASE release(c)
  <2>0. tick[c].pc = "release" /\ Holds(c) /\ ~Free
    BY <1>0, <1>3, Zenon DEF release, Holds
  <2>1. /\ tick' \in [Ticker -> TickRecord] /\ tick'[c].pc = "out"
        /\ \A d \in Ticker \ {c} : tick'[d] = tick[d]
    BY <1>0, <1>3 DEF release, HresTypes, TickRecord
  <2>2. hres_lock' = hres_lock + 1 /\ hres_lock' \in Nat /\ hres_lock' > hres_lock /\ hres_lock \in Nat
    BY <1>0, <1>3 DEF release, HresTypes
  <2>3. LockWord' /\ Free'
    <3>1. hres_lock % Byte = Byte - 1 /\ hres_lock % 2 = 1
      BY <1>0, <2>0, Zenon DEF LockWord, Free
    <3> QED BY <1>0, <2>2, <3>1, LockWordMoves, Zenon DEF LockWord, Free
  <2>4. HresTypes'
    BY <1>0, <1>3, <2>1, <2>2, Zenon DEF release, times, HresTypes
  <2>5. \A d \in Ticker : ~Holds(d)'
    BY <1>0, <2>0, <2>1, Zenon DEF Holds
  <2>6. \A d \in Ticker : InTick(d)'
    BY <2>5, Zenon DEF InTick, Holds
  <2>7. AtRest'
    BY <1>0, <1>3, <2>0, ZenonT(30) DEF release, times, InTick, AtRest, Tracks
  <2>8. \A r \in Reader : ReadsNow(r)'
    <3> TAKE r \in Reader
    <3>1. reader' = reader /\ reader[r].lock <= hres_lock
      BY <1>0, <1>3, Zenon DEF release, ReadsNow
    <3>2. reader[r].lock \in Nat
      BY <1>0, Zenon DEF HresTypes, ReaderRecord
    <3>3. reader[r].lock <= hres_lock' /\ reader[r].lock # hres_lock'
      BY ONLY <2>2, <3>1, <3>2
    <3> QED BY <3>1, <3>3, Zenon DEF ReadsNow
  <2> QED BY <2>3, <2>4, <2>5, <2>6, <2>7, <2>8, Zenon DEF HresInv
<1> QED BY <1>1, <1>2, <1>3, Zenon

\* The readers, adjtime(), the clock, and no step at all.
LEMMA OtherSteps ==
  ASSUME HresInv,
         (\E r \in Reader : Read(r)) \/ adjtime \/ Advance \/ UNCHANGED hresVars
  PROVE  HresInv'
<1>0. /\ HresTypes /\ LockWord /\ Byte \in Nat \ {0, 1} /\ 0 \in 0 .. Word - 1
      /\ Free => AtRest /\ \A d \in Ticker : ~Holds(d)
      /\ \A d, e \in Ticker : Holds(d) /\ Holds(e) => d = e
      /\ \A d \in Ticker : InTick(d)
      /\ \A r \in Reader : ReadsNow(r) /\ reader[r] \in ReaderRecord
  BY HresConstants DEF HresInv, HresTypes
<1>1. ASSUME UNCHANGED <<hres_lock, times, ordered, tick>>, HresTypes', \A r \in Reader : ReadsNow(r)'
      PROVE  HresInv'
  <2>1. LockWord' /\ (Free' <=> Free) /\ (AtRest' <=> AtRest)
    BY <1>0, <1>1, Zenon DEF times, LockWord, Free, AtRest, Tracks
  <2>2. \A d \in Ticker : (Holds(d)' <=> Holds(d)) /\ InTick(d)'
    BY <1>0, <1>1, Zenon DEF times, Holds, InTick, Tracks
  <2> QED BY <1>0, <1>1, <2>1, <2>2, Zenon DEF HresInv
<1>2. ASSUME NEW r \in Reader, Read(r)
      PROVE  HresInv'
  <2>1. UNCHANGED <<clock, hres_lock, times, ordered, tick>>
    BY <1>2, Zenon DEF Read
  <2>2. reader' \in [Reader -> ReaderRecord] /\ \A q \in Reader \ {r} : reader'[q] = reader[q]
    <3>0. /\ reader \in [Reader -> ReaderRecord] /\ hres_lock \in Nat /\ tv_sec \in Nat
          /\ tv_nsec \in 0 .. Word - 1 /\ 0 \in 0 .. Word - 1
      BY <1>0, Zenon DEF HresTypes
    <3>1. CASE ReadLock(r)
      BY <3>0, <3>1, ZenonT(30) DEF ReadLock, ReaderRecord
    <3>2. CASE ReadSec(r)
      BY <3>0, <3>2, ZenonT(30) DEF ReadSec, ReaderRecord
    <3>3. CASE ReadNsec(r)
      BY <3>0, <3>3, ZenonT(30) DEF ReadNsec, ReaderRecord
    <3>4. CASE ReadCheck(r)
      <4> DEFINE v == [reader[r] EXCEPT !.pc = "out", !.lock = 0, !.sec = 0, !.nsec = 0]
      <4>1. v \in ReaderRecord
        BY <3>0, Zenon DEF ReaderRecord
      <4>2. reader' = [reader EXCEPT ![r] = v]
        BY <3>0, <3>4, Zenon DEF ReadCheck
      <4> HIDE DEF v
      <4> QED BY <3>0, <4>1, <4>2, Zenon
    <3> QED BY <1>2, <3>1, <3>2, <3>3, <3>4, Zenon DEF Read
  <2>3. HresTypes'
    BY <1>0, <2>1, <2>2, Zenon DEF times, HresTypes
  <2>4. ReadsNow(r)'
    <3>0. reader[r] \in ReaderRecord /\ hres_lock \in Nat /\ UNCHANGED <<hres_lock, tv_sec, tv_nsec>> /\ (Free' <=> Free)
      BY <1>0, <2>1, Zenon DEF times, HresTypes, Free
    <3>1. CASE ReadLock(r)
      <4>1. reader'[r].pc = "sec" /\ reader'[r].lock = hres_lock
        BY <1>0, <3>1, Zenon DEF ReadLock, HresTypes, ReaderRecord
      <4> QED BY <3>0, <4>1 DEF ReadsNow
    <3>2. CASE ReadSec(r)
      <4>1. reader'[r].pc = "nsec" /\ reader'[r].lock = reader[r].lock /\ reader'[r].sec = tv_sec
        BY <1>0, <3>2, Zenon DEF ReadSec, HresTypes, ReaderRecord
      <4> QED BY <1>0, <3>0, <4>1, Zenon DEF ReadsNow
    <3>3. CASE ReadNsec(r)
      <4>1. /\ reader[r].pc = "nsec" /\ reader'[r].pc = "check" /\ reader'[r].lock = reader[r].lock
            /\ reader'[r].sec = reader[r].sec /\ reader'[r].nsec = tv_nsec
        BY <1>0, <3>3, Zenon DEF ReadNsec, HresTypes, ReaderRecord
      <4> QED BY <1>0, <3>0, <4>1, Zenon DEF ReadsNow
    <3>4. CASE ReadCheck(r)
      <4>1. reader'[r].pc = "out" /\ reader'[r].lock = 0
        BY <1>0, <3>4, Zenon DEF ReadCheck, HresTypes, ReaderRecord
      <4> QED BY <3>0, <4>1 DEF ReadsNow
    <3> QED BY <1>2, <3>1, <3>2, <3>3, <3>4, Zenon DEF Read
  <2>5. \A q \in Reader : ReadsNow(q)'
    <3>1. \A q \in Reader \ {r} : ReadsNow(q)'
      BY <1>0, <2>1, <2>2, Zenon DEF times, ReadsNow, Free
    <3> QED BY <2>4, <3>1, Zenon
  <2> QED BY <1>1, <2>1, <2>3, <2>5, Zenon
<1>3. CASE adjtime
  <2>1. Free /\ hres_lock' = hres_lock + Byte /\ hres_lock' \in Nat /\ hres_lock' > hres_lock /\ hres_lock \in Nat
    BY <1>0, <1>3 DEF adjtime, HresTypes, Free
  <2>2. LockWord' /\ Free'
    <3>1. hres_lock % Byte = 0 /\ hres_lock % 2 = 0
      BY <1>0, <2>1, Zenon DEF LockWord, Free
    <3> QED BY <1>0, <2>1, <3>1, LockWordMoves, Zenon DEF LockWord, Free
  <2>3. HresTypes'
    BY <1>0, <1>3, <2>1, HresConstants, Zenon DEF adjtime, HresTypes
  <2>4. AtRest' /\ \A d \in Ticker : ~Holds(d)' /\ InTick(d)'
    BY <1>0, <1>3, <2>1, ZenonT(30) DEF adjtime, AtRest, Tracks, Holds, InTick
  <2>5. \A r \in Reader : ReadsNow(r)'
    <3> TAKE r \in Reader
    <3>1. reader'[r] = reader[r] /\ reader[r].lock \in Nat
      BY <1>0, <1>3, Zenon DEF adjtime, ReaderRecord
    <3> QED BY <1>0, <2>1, <3>1 DEF ReadsNow
  <2> QED BY <2>2, <2>3, <2>4, <2>5, Zenon DEF HresInv
<1>4. CASE Advance \/ UNCHANGED hresVars
  <2>1. UNCHANGED <<hres_lock, times, ordered, tick, reader>> /\ clock' \in Nat
    BY <1>0, <1>4 DEF Advance, hresVars, times, HresTypes
  <2>2. HresTypes' /\ \A r \in Reader : ReadsNow(r)'
    BY <1>0, <2>1, Zenon DEF times, HresTypes, ReadsNow, Free
  <2> QED BY <1>1, <2>1, <2>2, Zenon
<1> QED BY <1>2, <1>3, <1>4, Zenon

\* It holds whatever ticks, readers and adjtime() calls interleave.
LEMMA HresInvariant == HresSpec => []HresInv
<1>1. HresInv /\ [HresNext]_hresVars => HresInv'
  BY HolderSteps, LockSteps, OtherSteps, Zenon DEF HresNext, hres_tick
<1> QED BY <1>1, HresInitial, PTL DEF HresSpec

\* ClocksTrack: whenever hres_lock is free, hrestime is normalised and both
\* clocks are those of the last tick, plus the adjustments applied, for any
\* word size, any number of processors that tick and any adjustments.
THEOREM HresClocksTrack == HresSpec => []ClocksTrack
<1>1. HresInv => ClocksTrack
  <2> SUFFICES ASSUME HresInv PROVE ClocksTrack
    OBVIOUS
  <2>1. \A c \in Ticker : tick[c].eax \in 0 .. Word - 1
    BY Zenon DEF HresInv, HresTypes, TickRecord
  <2>2. HresTypeOK
    BY <2>1, Zenon DEF HresInv, HresTypes, LockWord, AtRest, Holds, HresTypeOK
  <2> QED BY <2>2, Zenon DEF HresInv, AtRest, Tracks, ClocksTrack, HrtimeConserved, HrestimeTracks
<1> QED BY <1>1, HresInvariant, PTL

\* NoTornRead: a reader whose two looks at hres_lock agree has read seconds
\* and nanoseconds of the same moment, because clock_unlock increments the lock
\* to a value it never had.
THEOREM HresNoTornRead == HresSpec => []NoTornRead
<1>1. HresInv => NoTornRead
  <2> SUFFICES ASSUME HresInv, NEW r \in Reader, Accepts(r)
               PROVE  <<reader[r].sec, reader[r].nsec>> = hrestime
    BY Zenon DEF NoTornRead
  <2>1. /\ reader[r].lock \in Nat /\ hres_lock \in Nat /\ ReadsNow(r) /\ reader[r].pc = "check"
        /\ reader[r].lock - (reader[r].lock % 2) = hres_lock /\ LockWord
    BY Zenon DEF HresInv, HresTypes, ReaderRecord, Accepts
  <2>2. reader[r].lock = hres_lock /\ hres_lock % 2 = 0
    BY <2>1 DEF ReadsNow
  <2>3. Free
    BY <2>1, <2>2 DEF LockWord
  <2> QED BY <2>1, <2>2, <2>3, Zenon DEF ReadsNow, hrestime
<1> QED BY <1>1, HresInvariant, PTL

\* ClampedAdjustment: a tick takes from timedelta exactly what it adds to
\* hrestime, and never more than max_hres_adj either way; the two-word
\* arithmetic of adj_hrestime does not lose a carry.
THEOREM HresClamped == HresSpec => ClampedAdjustment
<1>1. ASSUME HresInv, [HresNext]_hresVars, applied' # applied \/ timedelta' # timedelta
      PROVE  \/ adjtime
             \/ /\ applied' - applied = timedelta - timedelta'
                /\ applied' - applied = Clamp(hrestime_adj)
  <2>1. adjtime \/ \E c \in Ticker : adj_hrestime(c)
    BY <1>1, Zenon DEF HresNext, hres_tick, gethrtime, clock_lock, add_base, add_nsec, carry_second,
                store_nsec, release, Read, Advance, times, hresVars
  <2>2. ASSUME NEW c \in Ticker, adj_hrestime(c)
        PROVE  applied' - applied = timedelta - timedelta' /\ applied' - applied = Clamp(hrestime_adj)
    <3>1. adj(hrestime_adj) = Clamp(hrestime_adj) /\ Clamp(hrestime_adj) \in Int /\ timedelta \in Int /\ applied \in Int
      BY <1>1, AdjIs, ClampIs, Zenon DEF HresInv, HresTypes
    <3> QED BY <2>2, <3>1 DEF adj_hrestime
  <2> QED BY <2>1, <2>2, Zenon
<1> QED BY <1>1, HresInvariant, PTL DEF HresSpec, ClampedAdjustment, Clamp

-----------------------------------------------------------------------------
(* IntrStart: the stamp of _resume_from_idle.                              *)

\* Where the thread is in the loop of _resume_from_idle that stamps t_intr_start,
\* before it, or after it.
StampSteps == {"blocked", "low", "high", "rdtsc", "cmpxchg", "run"}

\* What is neither charged nor stopped, the thread has run for.
Uncharged == IF t_intr_start = 0 THEN 0 ELSE tsc - t_intr_start

\* In the loop the stamp is the one whose low word was read only while no
\* interrupt has come since then: a later one stores a later time.
StampInv ==
  /\ tsc \in Nat \ {0} /\ t_intr_start \in Nat /\ t_intr_start <= tsc
  /\ stamp_pc \in StampSteps \cup {"intr"} /\ stamp_ret \in StampSteps
  /\ old_stamp \in Nat /\ ebx \in Nat /\ charged \in Nat /\ ran \in Nat
  /\ torn \in BOOLEAN
  /\ stamp_pc = "intr" => t_intr_start = 0
  /\ \A p \in {"high", "rdtsc", "cmpxchg"} :
       p = stamp_pc \/ (stamp_pc = "intr" /\ stamp_ret = p) => old_stamp < tsc
  /\ stamp_pc = "cmpxchg" \/ (stamp_pc = "intr" /\ stamp_ret = "cmpxchg") =>
       ebx \in 1 .. tsc
  /\ stamp_pc = "cmpxchg" /\ t_intr_start = old_stamp /\ ~torn => charged + (tsc - ebx) <= ran
  /\ ~torn => charged + Uncharged <= ran

\* A blocked thread has no stamp, and has been charged nothing.
LEMMA StampInitial == StampInit => StampInv
<1> SUFFICES ASSUME StampInit PROVE StampInv
  OBVIOUS
<1>1. torn = FALSE /\ stamp_pc = "blocked" /\ stamp_ret = "blocked"
  BY Zenon DEF StampInit
<1>2. /\ tsc = 1 /\ t_intr_start = 0 /\ old_stamp = 0 /\ ebx = 0 /\ charged = 0 /\ ran = 0
  BY Zenon DEF StampInit
<1>3. charged + Uncharged <= ran
  BY <1>2 DEF Uncharged
<1>4. tsc \in Nat \ {0} /\ t_intr_start \in Nat /\ t_intr_start <= tsc
  BY <1>2
<1>5. torn \in BOOLEAN
  BY <1>1, Zenon
<1> QED BY <1>1, <1>2, <1>3, <1>4, <1>5, Zenon DEF StampInv, StampSteps

\* Every instruction of the loop, and every interrupt between two of them,
\* keeps the accounting.
LEMMA StampStep == StampInv /\ [StampNext]_stampVars => StampInv'
<1> SUFFICES ASSUME StampInv, [StampNext]_stampVars
             PROVE  StampInv'
  OBVIOUS
<1> USE DEF StampInv, StampSteps, Uncharged
<1>1. CASE StampResume
  BY <1>1, Zenon DEF StampResume, loaded
<1>2. CASE PushLow
  BY <1>2 DEF PushLow, RunsFor, Tick
<1>3. CASE PushHigh
  BY <1>3 DEF PushHigh, RunsFor, Tick
<1>4. CASE rdtsc
  BY <1>4 DEF rdtsc, RunsFor, Tick, loaded
<1>5. CASE cmpxchg8b
  <2>1. CASE StampUnchanged
    <3>1. torn' \/ (~torn /\ old_stamp = t_intr_start)
      BY <1>5, <2>1, Zenon DEF cmpxchg8b, StampUnchanged
    <3>2. /\ stamp_pc = "cmpxchg" /\ stamp_pc' = "run" /\ t_intr_start' = ebx
          /\ tsc' = tsc + 1 /\ ran' = ran + 1
          /\ UNCHANGED <<stamp_ret, old_stamp, ebx, charged>> /\ torn' \in BOOLEAN
      BY <1>5, <2>1, ZenonT(30) DEF cmpxchg8b, RunsFor, Tick
    <3> QED BY <3>1, <3>2
  <2>2. CASE ~StampUnchanged
    BY <1>5, <2>2 DEF cmpxchg8b, StampUnchanged, RunsFor, Tick
  <2> QED BY <2>1, <2>2, Zenon
<1>6. CASE RunThread
  BY <1>6 DEF RunThread, RunsFor, Tick, loaded
<1>7. CASE TakeInterrupt
  BY <1>7 DEF TakeInterrupt, ChargeThread, loaded
<1>8. CASE InterruptRuns
  BY <1>8 DEF InterruptRuns, Tick, loaded
<1>9. CASE ReturnFromInterrupt
  BY <1>9 DEF ReturnFromInterrupt, loaded
<1>10. CASE BlockThread
  BY <1>10 DEF BlockThread, ChargeThread, loaded
<1>11. CASE UNCHANGED stampVars
  BY <1>11 DEF stampVars, loaded
<1> QED
  BY <1>1, <1>2, <1>3, <1>4, <1>5, <1>6, <1>7, <1>8, <1>9, <1>10, <1>11, Zenon DEF StampNext

\* ChargedAtMostRan: unless the loop accepted a torn stamp, no interval that
\* the thread ran for is charged to it twice, for every word size and length
\* of run.
THEOREM ThreadIsChargedOnce == StampSpec => []ChargedAtMostRan
<1>1. StampInv => ChargedAtMostRan
  BY Zenon DEF StampInv, ChargedAtMostRan, Uncharged
<1> QED BY <1>1, StampInitial, StampStep, PTL DEF StampSpec

=============================================================================
