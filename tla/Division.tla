------------------------------ MODULE Division -------------------------------
(***************************************************************************)
(* The 64-bit division of i86_subr.s, built from 32-bit divl and mull.     *)
(* A register has WordBits bits instead of 32.  One call is made, with any *)
(* dividend and every divisor, and its results are compared with those of  *)
(* whole numbers.                                                          *)
(***************************************************************************)
EXTENDS FiniteSetsExt, Integers

CONSTANT WordBits  \* bits of a register

\* The second part is a law of exponentiation, for the proofs.
ASSUME DivisionAssumption ==
  /\ WordBits \in Nat \ {0}
  /\ 2 ^ 0 = 1 /\ \A i \in 0 .. WordBits - 1 : 2 ^ (i + 1) = 2 * 2 ^ i

VARIABLE
  computed  \* the call that was made and its result

Word == 2 ^ WordBits
HI(x) == x \div Word
LO(x) == x % Word
HILO(hi, lo) == hi * Word + lo

\* divl: the quotient and the remainder of hi:lo by d.  The quotient must fit
\* a register, or the processor traps.
A_DIV32(lo, hi, d) ==
  [q |-> HILO(hi, lo) \div d, r |-> HILO(hi, lo) % d, traps |-> hi >= d]

\* bsrl: the index of the highest 1 bit.
HIBIT(w) == Max({i \in 0 .. WordBits - 1 : 2 ^ i <= w})

\* subl, sbbl.
A_SUB2(y, x) == (x - y) % (Word * Word)

\* HI(y) = 0: one or two divisions by LO(y).
DivideByWord(x, y) ==
  LET first == IF HI(x) < LO(y) THEN [q |-> 0, r |-> HI(x), traps |-> FALSE]
                                ELSE A_DIV32(HI(x), 0, LO(y))
      second == A_DIV32(LO(x), first.r, LO(y))
  IN  [q |-> HILO(first.q, second.q), r |-> second.r,
       traps |-> first.traps \/ second.traps]

\* Mutant: the estimate of the quotient is not adjusted down.
DivideNormalized_asis(x, y, normshift) ==
  LET yn == (y * 2 ^ normshift) % (Word * Word)
      x2 == HI(x) \div 2 ^ (WordBits - normshift)
      xn == (x * 2 ^ normshift) % (Word * Word)
      est == A_DIV32(HI(xn), x2, HI(yn))
  IN  [q |-> est.q,
       r |-> A_SUB2(LO(yn) * est.q, HILO(est.r, LO(xn))) \div 2 ^ normshift,
       traps |-> est.traps]

\* The last case: y is shifted until its highest bit is 1, the quotient is
\* estimated from HI(y) and taken down by one when it is too high.
DivideNormalized(x, y, normshift) ==
  LET yn == (y * 2 ^ normshift) % (Word * Word)
      x2 == HI(x) \div 2 ^ (WordBits - normshift)
      xn == (x * 2 ^ normshift) % (Word * Word)
      est == A_DIV32(HI(xn), x2, HI(yn))
      rest == HILO(est.r, LO(xn))
      t == LO(yn) * est.q
      high == t > rest
  IN  [q |-> IF high THEN (est.q - 1) % Word ELSE est.q,
       r |-> A_SUB2(IF high THEN A_SUB2(yn, t) ELSE t, rest) \div 2 ^ normshift,
       traps |-> est.traps]

UDivRem(x, y) ==
  LET normshift == WordBits - 1 - HIBIT(HI(y)) IN
  IF HI(y) = 0 THEN DivideByWord(x, y)
  ELSE IF HI(x) < HI(y) THEN [q |-> 0, r |-> x, traps |-> FALSE]
  ELSE IF normshift # 0 THEN DivideNormalized(x, y, normshift)
  ELSE IF HI(x) > HI(y) \/ LO(x) >= LO(y)
       THEN [q |-> 1, r |-> A_SUB2(y, x), traps |-> FALSE]
  ELSE [q |-> 0, r |-> x, traps |-> FALSE]

\* UDiv(), the code of UDivRem() once more, without the remainders.
UDiv(x, y) ==
  LET normshift == WordBits - 1 - HIBIT(HI(y))
      yn == (y * 2 ^ normshift) % (Word * Word)
      xn == (x * 2 ^ normshift) % (Word * Word)
      est == A_DIV32(HI(xn), HI(x) \div 2 ^ (WordBits - normshift), HI(yn))
      high == LO(yn) * est.q > HILO(est.r, LO(xn))
  IN
  IF HI(y) = 0 THEN [q |-> DivideByWord(x, y).q, traps |-> DivideByWord(x, y).traps]
  ELSE IF HI(x) < HI(y) THEN [q |-> 0, traps |-> FALSE]
  ELSE IF normshift # 0
       THEN [q |-> IF high THEN (est.q - 1) % Word ELSE est.q, traps |-> est.traps]
  ELSE [q |-> IF HI(x) > HI(y) \/ LO(x) >= LO(y) THEN 1 ELSE 0, traps |-> FALSE]

\* negl, adcl, negl.
Neg(x) == (-x) % (Word * Word)
Negative(x) == HI(x) >= Word \div 2
Magnitude(x) == IF Negative(x) THEN Neg(x) ELSE x

SDivRem(x, y) ==
  LET u == UDivRem(Magnitude(x), Magnitude(y)) IN
  [q |-> IF Negative(x) # Negative(y) THEN Neg(u.q) ELSE u.q,
   r |-> IF Negative(x) THEN Neg(u.r) ELSE u.r, traps |-> u.traps]

\* __divdi3, __div64.
SDiv(x, y) ==
  LET u == UDiv(Magnitude(x), Magnitude(y)) IN
  [q |-> IF Negative(x) # Negative(y) THEN Neg(u.q) ELSE u.q, traps |-> u.traps]

\* __moddi3, __rem64.
SRem(x, y) ==
  LET u == UDivRem(Magnitude(x), Magnitude(y)) IN
  [r |-> IF Negative(x) THEN Neg(u.r) ELSE u.r, traps |-> u.traps]

------------------------------------------------------------------------------
Doubles == 0 .. Word * Word - 1

Divisors == Doubles \ {0}

\* __udivrem64, and the remainders of __urem64 and __umoddi3: a number, by every
\* divisor.
udivrem64 == \E x \in Doubles :
  computed' = [call |-> "udivrem", x |-> x, result |-> [y \in Divisors |-> UDivRem(x, y)]]

\* __divrem64.
divrem64 == \E x \in Doubles :
  computed' = [call |-> "divrem", x |-> x, result |-> [y \in Divisors |-> SDivRem(x, y)]]

\* The routines that return the quotient or the remainder alone: __udiv64 and
\* __udivdi3, __div64 and __divdi3, __rem64 and __moddi3.
single64 == \E x \in Doubles :
  computed' = [call |-> "single", x |-> x, result |->
    [y \in Divisors |-> [udiv |-> UDiv(x, y), div |-> SDiv(x, y), rem |-> SRem(x, y)]]]

------------------------------------------------------------------------------
\* UDivRem() divides: the quotient and the remainder are those of the whole
\* numbers, and no divl on the way overflows its register.  It needs "because
\* of the limited range of x2 we can only be one off" and the order of the
\* comparisons in the case without a shift.
UDivRemDivides ==
  computed.call = "udivrem" => \A y \in Divisors :
    computed.result[y] = [q |-> computed.x \div y, r |-> computed.x % y, traps |-> FALSE]

\* The number that a double word stands for in two's complement.
SignedOf(x) == IF Negative(x) THEN x - Word * Word ELSE x

\* The result of a signed division of x by d: the dividend is the quotient
\* times the divisor plus the remainder, which is smaller than the divisor and
\* has the sign of the dividend.  The most negative number divided by -1 has
\* no quotient in a double word; there it wraps.
TruncatesTo(x, d, result) ==
  LET q == SignedOf(result.q)
      r == SignedOf(result.r)
      wraps == SignedOf(d) = -1 /\ SignedOf(x) = -((Word * Word) \div 2)
  IN  /\ ~result.traps
      /\ IF wraps THEN q = SignedOf(x) /\ r = 0 ELSE SignedOf(x) = q * SignedOf(d) + r
      /\ Magnitude(result.r) < Magnitude(d)
      /\ r # 0 => (r < 0 <=> SignedOf(x) < 0)

\* SDivRem() truncates towards zero, as C wants it, whatever the signs: it
\* divides the magnitudes and puts the signs back.
SDivRemTruncates ==
  computed.call = "divrem" => \A d \in Divisors : TruncatesTo(computed.x, d, computed.result[d])

\* The quotients of UDiv() are right too, although it is other code, and the
\* signed quotient and remainder, which come from one routine each, belong
\* together.
SingleResultsAgree ==
  computed.call = "single" => \A d \in Divisors :
    LET c == computed.result[d] IN
    /\ c.udiv = [q |-> computed.x \div d, traps |-> FALSE]
    /\ TruncatesTo(computed.x, d,
         [q |-> c.div.q, r |-> c.rem.r, traps |-> c.div.traps \/ c.rem.traps])

==============================================================================
