------------------------------- MODULE Arith ---------------------------------
(***************************************************************************)
(* The pure routines of the ia32 assembly: next to the division of         *)
(* Division, the one's complement checksum ip_ocsum() of i86_subr.s, and   *)
(* the copy of overlapping blocks ovbcopy().                               *)
(*                                                                         *)
(* A block of ip_ocsum() has BlockWords words instead of 16, and a word of *)
(* ovbcopy() WordBytes bytes instead of 4; WordBits is even.  One call is  *)
(* made, with any arguments within the bounds, and its result is compared  *)
(* with a reference definition.                                            *)
(***************************************************************************)
EXTENDS Division, Sequences, SequencesExt

CONSTANTS
  BlockWords,  \* words of a block of ip_ocsum(), an even number
  HalfValues,  \* half words of the checksummed data
  Partials,    \* partial checksums
  MaxHalves,   \* bound: half words of the data
  WordBytes,   \* bytes of a word of ovbcopy()
  MemSize      \* bound: bytes of the memory of ovbcopy()

arithVars == <<computed>>

HalfWord == 2 ^ (WordBits \div 2)

------------------------------------------------------------------------------
(***************************************************************************)
(* ip_ocsum().  The registers are eax, edx and the carry flag cf.          *)
(***************************************************************************)

\* adcl v, %reg.
adcl(regs, reg, v) ==
  LET s == regs[reg] + v + regs.cf IN
  [regs EXCEPT ![reg] = s % Word, !.cf = s \div Word]

\* addl v, %edx; adcl $0, %edx.
addEnd(regs, v) == adcl(adcl([regs EXCEPT !.cf = 0], "edx", v), "edx", 0)

\* The unrolled block, entered with the carry clear at the label .only of the
\* last Len(ws) words: the words are added to edx and eax in turn, with the
\* carry, and the last carry goes into eax twice.
AddBlock(regs, ws) ==
  LET skipped == BlockWords - Len(ws)
      Step(r, i) == adcl(r, IF (skipped + i) % 2 = 1 THEN "edx" ELSE "eax", ws[i])
  IN  adcl(adcl(FoldLeft(Step, [regs EXCEPT !.cf = 0], [i \in 1 .. Len(ws) |-> i]),
                "eax", 0), "eax", 0)

\* The words of an even number of half words.
WordsOf(h) == [i \in 1 .. Len(h) \div 2 |-> h[2 * i - 1] + HalfWord * h[2 * i]]

\* .next_iter and .less_than_32: an odd half word is the last one, and it is
\* added to edx before the rest of the block.
RECURSIVE next_iter(_, _)
next_iter(regs, h) ==
  LET block == 2 * BlockWords
      even == 2 * (Len(h) \div 2)
      added == AddBlock(regs, WordsOf(SubSeq(h, 1, block)))
  IN  IF Len(h) >= block
      THEN IF Len(h) = block THEN added ELSE next_iter(added, SubSeq(h, block + 1, Len(h)))
      ELSE AddBlock(IF even = Len(h) THEN regs ELSE addEnd(regs, Last(h)),
                    WordsOf(SubSeq(h, 1, even)))

\* .ip_ocsum_done: eax and edx, and then the halves of the sum, are added with
\* their carry.
ip_ocsum_done(regs) ==
  LET sum == addEnd(regs, regs.eax).edx
      ax == (sum \div HalfWord) + (sum % HalfWord)
  IN  ((ax % HalfWord) + (ax \div HalfWord)) % HalfWord

ip_ocsum(h, partial, aligned) ==
  LET regs == [eax |-> 0, edx |-> partial, cf |-> 0] IN
  ip_ocsum_done(IF h = << >> THEN regs
                ELSE IF aligned THEN next_iter(regs, h)
                ELSE next_iter(addEnd(regs, Head(h)), Tail(h)))

------------------------------------------------------------------------------
(***************************************************************************)
(* ovbcopy().                                                              *)
(***************************************************************************)

\* movsl or movsb at an offset: n bytes are loaded, then stored.
Move(mem, src, dst, n) ==
  [a \in DOMAIN mem |-> IF a \in dst .. dst + n - 1 THEN mem[src + a - dst] ELSE mem[a]]

\* The moves, as <<offset, bytes>>, forwards: words, then the bytes left.
Forwards(cnt) ==
  [i \in 1 .. cnt \div WordBytes |-> <<(i - 1) * WordBytes, WordBytes>>] \o
  [i \in 1 .. cnt % WordBytes |-> <<cnt - (cnt % WordBytes) + i - 1, 1>>]

\* Backwards from the last byte: the fractional bytes, then words.
Backwards(cnt) ==
  [i \in 1 .. cnt % WordBytes |-> <<cnt - i, 1>>] \o
  [i \in 1 .. cnt \div WordBytes |-> <<cnt - (cnt % WordBytes) - i * WordBytes, WordBytes>>]

\* The unsigned dst - src < cnt says that dst is inside the source block.
ovbcopy(mem, src, dst, cnt) ==
  LET reverse == (dst - src) % (2 * MemSize) < cnt IN
  FoldLeft(LAMBDA m, mv : Move(m, src + mv[1], dst + mv[1], mv[2]), mem,
           IF reverse THEN Backwards(cnt) ELSE Forwards(cnt))

------------------------------------------------------------------------------
ArithInit == computed = [call |-> "none"]

checksum == \E h \in BoundedSeq(HalfValues, MaxHalves), p \in Partials, aligned \in BOOLEAN :
  computed' = [call |-> "ocsum", halves |-> h, partial |-> p,
               result |-> ip_ocsum(h, p, aligned)]

Memory == [a \in 0 .. MemSize - 1 |-> a]

overlap == \E src, dst \in 0 .. MemSize - 1 : \E cnt \in 0 .. MemSize - Max({src, dst}) :
  computed' = [call |-> "ovbcopy", src |-> src, dst |-> dst, cnt |-> cnt,
               result |-> ovbcopy(Memory, src, dst, cnt)]

ArithNext ==
  /\ computed.call = "none"
  /\ \/ udivrem64
     \/ divrem64
     \/ single64
     \/ checksum
     \/ overlap

ArithSpec == ArithInit /\ [][ArithNext]_arithVars

------------------------------------------------------------------------------
\* ip_ocsum() returns the one's complement sum of the half words and the
\* partial checksum: no carry of the unrolled additions is lost, for any
\* count and either alignment, and zero stands for an all-zero sum alone.
ChecksumIsOnesComplement ==
  computed.call = "ocsum" =>
    LET total == FoldLeft(LAMBDA s, v : s + v, computed.partial, computed.halves) IN
    computed.result = IF total = 0 THEN 0 ELSE ((total - 1) % (HalfWord - 1)) + 1

\* ovbcopy() copies the block as it was before the call, whichever way the
\* blocks overlap, and touches nothing else.
OverlapCopied ==
  computed.call = "ovbcopy" =>
    computed.result = Move(Memory, computed.src, computed.dst, computed.cnt)

\* The assembly routines compute what their callers in C expect of them:
\* The divisions, ip_ocsum() and ovbcopy() agree with arithmetic on whole
\* numbers and with an ideal memory.
ComputesReference ==
  /\ UDivRemDivides /\ SDivRemTruncates /\ SingleResultsAgree
  /\ ChecksumIsOnesComplement /\ OverlapCopied

==============================================================================
