-------------------------------- MODULE Regexp -------------------------------
(***************************************************************************)
(* The regular expressions of regexp.h: compile(), which reads a pattern   *)
(* with GETC() and writes a program into a buffer, and step() and          *)
(* advance(), which run the program on a string.                           *)
(*                                                                         *)
(* compile() is a state machine that is fed any pattern up to a bound.  A  *)
(* character is a number; \( \) \{ \1 are single tokens.  An instruction   *)
(* of the program is a record; ep counts the bytes it takes in the buffer. *)
(* step() and advance() are operators, evaluated on every program for      *)
(* every short string.                                                     *)
(***************************************************************************)
EXTENDS Functions, FiniteSetsExt, Integers, Sequences, SequencesExt

CONSTANTS
  Plain,       \* ordinary characters of patterns and strings
  HighBit,     \* the first character with the bit 0200
  CoreTokens,  \* tokens of long patterns
  EndBufs,     \* sizes of the buffer
  MaxPattern,  \* bound: tokens of a pattern made of CoreTokens
  RichPattern, \* bound: tokens of any other pattern
  MaxClass,    \* bound: characters between [ and ]
  MaxString,   \* bound: length of a string
  Ranges,      \* the pairs <<m, n>> of \{m,n\}; n = 255: no limit
  NBRA         \* number of groups

\* Characters that are special somewhere, with the bit 0200 clear.
Minus == 1
Star == 2
Dollar == 3
Newline == 4
Brace == 5
RightBracket == 6
CharCodes == 0 .. 20

\* The characters with the bit 0200 as a GETC() of signed char returns them.
SignExtended == {c - 32 : c \in {d \in Plain : d >= HighBit}}

Tokens == {"char", ".", "*", "$", "[", "\\(", "\\)", "\\{", "\\1", "\\2", "\\n"}

ASSUME RegexpAssumption ==
  /\ Plain \subseteq 7 .. 20 /\ HighBit \in 7 .. 20 /\ CoreTokens \subseteq Tokens
  /\ {MaxPattern, RichPattern, MaxClass, MaxString, NBRA} \subseteq Nat /\ EndBufs \subseteq Nat
  /\ \A r \in Ranges : r[1] \in 0 .. 254 /\ r[2] \in 0 .. 255

VARIABLES
  cpc,      \* "start", "top", "class", "minus", "done" or "error"
  program,  \* the instructions so far
  ep,       \* bytes written
  endbuf,   \* size of the buffer
  lastep,   \* instruction a * or \{ applies to; 0: NULL
  bracket,  \* the stack of open \(
  closed,   \* number of \)
  nbra,     \* number of \(
  circf,    \* does the pattern start with ^?
  peek,     \* what PEEKC() saw: "any", "end" or "more"
  ccl,      \* the class being read: its set, lc, neg, iflag and length
  error,    \* the argument of ERROR()
  seen,     \* tokens read, and whether all are CoreTokens
  junk      \* what makes the program meaningless to advance(), see Defined

compileVars == <<cpc, program, ep, endbuf, lastep, bracket, closed, nbra, circf,
                 peek, ccl, error, seen, junk>>
parseState == <<bracket, closed, nbra, circf>>

NoClass == [set |-> {}, lc |-> 0, neg |-> FALSE, wide |-> FALSE, len |-> 0]

RegexpInit ==
  /\ cpc = "start" /\ program = << >> /\ ep = 0 /\ endbuf = 0 /\ lastep = 0
  /\ bracket = << >> /\ closed = 0 /\ nbra = 0 /\ circf = FALSE /\ peek = "any"
  /\ ccl = NoClass /\ error = 0 /\ seen = [n |-> 0, core |-> TRUE] /\ junk = {}

Ins(op, arg) == [op |-> op, mod |-> "none", arg |-> arg, set |-> {}, low |-> 0, high |-> 0]

-----------------------------------------------------------------------------
(* compile()                                                               *)
-----------------------------------------------------------------------------
ERROR(n) ==
  /\ cpc' = "error" /\ error' = n
  /\ UNCHANGED <<program, ep, endbuf, lastep, parseState, peek, ccl, junk>>

\* The next token, within the bounds (a class counts as two tokens) and as
\* PEEKC() saw it.
GETC(tok) ==
  /\ cpc = "top" /\ peek # "end"
  /\ seen' = [n |-> seen.n + (IF tok = "[" THEN 2 ELSE 1), core |-> seen.core /\ tok \in CoreTokens]
  /\ seen'.n <= IF seen'.core THEN MaxPattern ELSE RichPattern

\* The test at the head of the loop.
BufferFull == ep >= endbuf

\* *ep++ = op, and the bytes after it.
Emit(i, bytes) ==
  /\ program' = Append(program, i) /\ ep' = ep + bytes
  /\ lastep' = Len(program) + 1
  /\ peek' = "any"
  /\ UNCHANGED <<cpc, endbuf, ccl, error, junk>>

\* defchar: an ordinary character.
Defchar(c) == Emit(Ins("CCHR", c), 2) /\ UNCHANGED parseState

\* The pattern starts, perhaps with ^.
Start(size, circ) ==
  /\ cpc = "start" /\ cpc' = "top" /\ endbuf' = size /\ circf' = circ
  /\ UNCHANGED <<program, ep, lastep, bracket, closed, nbra, peek, ccl, error, seen, junk>>

\* An empty pattern keeps the program that is in the buffer (*ep # 0).
EmptyPattern(sed, old) ==
  /\ cpc = "start" /\ UNCHANGED seen
  /\ IF old \/ sed
     THEN /\ cpc' = "done"
          /\ UNCHANGED <<program, ep, endbuf, lastep, parseState, peek, ccl, error, junk>>
     ELSE ERROR(41)

\* eof, or a newline when not in sed: CCEOF.
EndOfPattern(newline, sed) ==
  /\ cpc = "top" /\ peek # "more" /\ UNCHANGED seen
  /\ IF BufferFull THEN ERROR(50)
     ELSE IF newline /\ sed THEN ERROR(36)
     ELSE IF bracket # << >> THEN ERROR(42)
     ELSE /\ cpc' = "done"
          /\ program' = Append(program, Ins("CCEOF", 0)) /\ ep' = ep + 1
          /\ UNCHANGED <<endbuf, lastep, parseState, peek, ccl, error, junk>>

Char(c) ==
  /\ GETC("char")
  /\ IF BufferFull THEN ERROR(50) ELSE Defchar(c)

EscapedN ==
  /\ GETC("\\n")
  /\ IF BufferFull THEN ERROR(50) ELSE Defchar(Newline)

Dot ==
  /\ GETC(".")
  /\ IF BufferFull THEN ERROR(50) ELSE Emit(Ins("CDOT", 0), 1) /\ UNCHANGED parseState

\* Is a * here an ordinary character?
StarIsPlain == lastep = 0 \/ program[lastep].op \in {"CBRA", "CKET"}

\* *lastep |= STAR, which has no effect after RNGE.
StarToken ==
  /\ GETC("*")
  /\ IF BufferFull THEN ERROR(50)
     ELSE IF StarIsPlain THEN Defchar(Star)
     ELSE /\ program' = IF program[lastep].mod = "RNGE" THEN program
                        ELSE [program EXCEPT ![lastep].mod = "STAR"]
          /\ peek' = "any"
          /\ UNCHANGED <<cpc, ep, endbuf, lastep, parseState, ccl, error, junk>>

\* A $ is special at the end of the pattern.
DollarToken(atEnd) ==
  /\ GETC("$")
  /\ IF BufferFull THEN ERROR(50)
     ELSE /\ program' = Append(program, IF atEnd THEN Ins("CDOL", 0) ELSE Ins("CCHR", Dollar))
          /\ ep' = ep + IF atEnd THEN 1 ELSE 2
          /\ lastep' = Len(program) + 1
          /\ peek' = IF atEnd THEN "end" ELSE "more"
          /\ UNCHANGED <<cpc, endbuf, parseState, ccl, error, junk>>

TooManyGroups == nbra >= NBRA

OpenGroup ==
  /\ GETC("\\(")
  /\ IF BufferFull THEN ERROR(50)
     ELSE IF TooManyGroups THEN ERROR(43)
     ELSE /\ Emit(Ins("CBRA", nbra), 2)
          /\ bracket' = Append(bracket, nbra) /\ nbra' = nbra + 1
          /\ UNCHANGED <<closed, circf>>

CloseGroup ==
  /\ GETC("\\)")
  /\ IF BufferFull THEN ERROR(50)
     ELSE IF bracket = << >> THEN ERROR(42)
     ELSE /\ Emit(Ins("CKET", Last(bracket)), 2)
          /\ bracket' = Front(bracket) /\ closed' = closed + 1
          /\ UNCHANGED <<nbra, circf>>

\* \1 to \9: only the number of closed groups is tested.
BackReference(tok, d) ==
  /\ GETC(tok)
  /\ IF BufferFull THEN ERROR(50)
     ELSE IF d >= closed THEN ERROR(25)
     ELSE Emit(Ins("CBACK", d), 2) /\ UNCHANGED parseState

\* The instructions that advance() has with RNGE; the two numbers of a second
\* \{ on the same instruction would be read as instructions.
HasRange(i) == i.op \in {"CCHR", "CDOT", "CCL", "NCCL", "CXCL"} /\ i.mod # "RNGE"

\* \{m\}, \{m,\} and \{m,n\}: *lastep |= RNGE, and the two numbers.
RangeToken(m, n) ==
  /\ GETC("\\{")
  /\ IF BufferFull THEN ERROR(50)
     ELSE IF lastep = 0 THEN Defchar(Brace)
     ELSE IF n < m THEN ERROR(46)
     ELSE /\ program' = [program EXCEPT ![lastep].mod = "RNGE", ![lastep].low = m, ![lastep].high = n]
          /\ ep' = ep + 2 /\ peek' = "any"
          /\ junk' = junk \union IF HasRange(program[lastep]) THEN {} ELSE {"range"}
          /\ UNCHANGED <<cpc, endbuf, lastep, parseState, ccl, error>>

\* A number above 254, no number, a second comma, no \}.
MalformedRange(n) ==
  /\ GETC("\\{")
  /\ IF BufferFull THEN ERROR(50) ELSE lastep # 0 /\ ERROR(n)

\* [ and [^
ClassStart(neg) ==
  /\ GETC("[")
  /\ IF BufferFull \/ ep + 17 >= endbuf THEN ERROR(50)
     ELSE /\ cpc' = "class" /\ ccl' = [NoClass EXCEPT !.neg = neg]
          /\ lastep' = Len(program) + 1
          /\ UNCHANGED <<program, ep, endbuf, parseState, peek, error, junk>>

\* The first character with the bit 0200 makes the table 32 bytes long.
HasHighBit(c) == c >= HighBit \/ c < 0
Widens(c) == HasHighBit(c) /\ ~ccl.wide
ClassGETC == ccl.len < MaxClass /\ UNCHANGED seen

\* PLACE() of the characters of set, of which c is the last.  The bit of a
\* negative c is below the table, in the bytes of the program so far.
Place(set, c) ==
  /\ ccl' = [ccl EXCEPT !.set = @ \union (set \intersect CharCodes), !.lc = c,
                        !.wide = @ \/ HasHighBit(c), !.len = @ + 1]
  /\ junk' = junk \union {IF x < 0 THEN "below" ELSE "null" : x \in {y \in set : y <= 0}}
  /\ UNCHANGED <<program, ep, endbuf, lastep, parseState, peek, error>>

\* A character of a class (c &= 0377), or the - of a range.
ClassChar(c) ==
  /\ cpc = "class" /\ ClassGETC /\ (c = RightBracket => ccl.len = 0)
  /\ IF c \in {0, Newline} THEN ERROR(49)
     ELSE IF Widens(c) /\ ep + 33 >= endbuf THEN ERROR(50)
     ELSE IF c = Minus /\ ccl.lc # 0
     THEN /\ cpc' = "minus"
          /\ UNCHANGED <<program, ep, endbuf, lastep, parseState, peek, ccl, error, junk>>
     ELSE Place({c}, c) /\ UNCHANGED cpc

\* The end of a range: all from lc to c; c alone when it is below lc.  It is
\* taken as GETC() returns it: there is no mask, and no test for the null
\* character or a newline.
ClassRange(c) ==
  /\ cpc = "minus" /\ ClassGETC
  /\ IF Widens(c) /\ ep + 33 >= endbuf THEN ERROR(50)
     ELSE cpc' = "class" /\ Place((ccl.lc .. c) \union {c}, c)

\* CXCL has its bits inverted, all but that of the null character; NCCL
\* has "make nulls match so test fails".
ClassIns(set) ==
  [Ins(IF ccl.wide THEN "CXCL" ELSE IF ccl.neg THEN "NCCL" ELSE "CCL", 0)
     EXCEPT !.set = CASE ccl.neg /\ ccl.wide -> CharCodes \ (set \union {0})
                      [] ccl.neg /\ ~ccl.wide -> set \union {0}
                      [] OTHER -> set]

\* The closing ], perhaps after a -.
ClassEnd ==
  /\ cpc \in {"class", "minus"} /\ ccl.len > 0
  /\ cpc' = "top" /\ ccl' = NoClass
  /\ program' = Append(program,
       ClassIns(ccl.set \union IF cpc = "minus" THEN {Minus} ELSE {}))
  /\ ep' = ep + IF ccl.wide THEN 33 ELSE 17
  /\ peek' = "any"
  /\ UNCHANGED <<endbuf, lastep, parseState, error, seen, junk>>

RegexpNext ==
  \/ \E size \in EndBufs, circ \in BOOLEAN : Start(size, circ)
  \/ \E sed, old \in BOOLEAN : EmptyPattern(sed, old)
  \/ \E newline, sed \in BOOLEAN : EndOfPattern(newline, sed)
  \/ \E c \in Plain : Char(c)
  \/ EscapedN \/ Dot \/ StarToken \/ OpenGroup \/ CloseGroup
  \/ BackReference("\\1", 0) \/ BackReference("\\2", 1)
  \/ \E atEnd \in BOOLEAN : DollarToken(atEnd)
  \/ \E r \in Ranges : RangeToken(r[1], r[2])
  \/ \E n \in {11, 16, 44, 45} : MalformedRange(n)
  \/ \E neg \in BOOLEAN : ClassStart(neg)
  \/ \E c \in Plain \union {0, Minus, Newline, RightBracket} : ClassChar(c)
  \/ \E c \in Plain \union {0, Minus, Newline} \union SignExtended : ClassRange(c)
  \/ ClassEnd

RegexpSpec == RegexpInit /\ [][RegexpNext]_compileVars

-----------------------------------------------------------------------------
(* advance() and step()                                                    *)
-----------------------------------------------------------------------------
\* *lp, with the null character at the end of the string.
At(s, lp) == IF lp > Len(s) THEN 0 ELSE s[lp]

\* The test of one character by an instruction.
Accepts(i, c) ==
  CASE i.op = "CCHR" -> c = i.arg
    [] i.op = "CDOT" -> c # 0
    [] i.op = "CXCL" -> c \in i.set
    [] i.op = "CCL" -> c < HighBit /\ c \in i.set
    [] i.op = "NCCL" -> ~(c < HighBit /\ c \in i.set)

IsChar(i) == i.op \in {"CCHR", "CDOT", "CXCL", "CCL", "NCCL"}

\* The number of characters from lp on that the instruction accepts.
Span(i, s, lp) == Min({q \in lp .. Len(s) + 1 : ~Accepts(i, At(s, q))}) - lp


\* getrnge(): how many characters beyond low.
getrnge(i) == IF i.high = 255 THEN 20000 ELSE i.high - i.low

\* braslist and braelist are global: a failed attempt leaves them changed.
Fails(g) == [r |-> 0, loc2 |-> 0, g |-> g]

\* A * on a back reference to an empty group: while (ecmp(bbeg, lp, 0)) does
\* not end, and advance() does not return.
Loops == 2

Equal(s, from, ct, lp) == lp + ct <= Len(s) + 1 /\ \A j \in 0 .. ct - 1 : At(s, from + j) = At(s, lp + j)

\* The repetitions of a group that are next in the string.
RECURSIVE BackSpan(_, _, _, _)
BackSpan(s, from, ct, lp) ==
  IF Equal(s, from, ct, lp) THEN 1 + BackSpan(s, from, ct, lp + ct) ELSE 0

RECURSIVE advance(_, _, _, _, _)
RECURSIVE TryDown(_, _, _, _, _, _, _)

\* From lp down to curlp: the rest of the program from there.
TryDown(lp, curlp, ct, k, g, s, locs) ==
  IF lp = locs THEN Fails(g)
  ELSE LET a == advance(lp, k, g, s, locs) IN
       IF a.r # 0 \/ lp - ct < curlp THEN a ELSE TryDown(lp - ct, curlp, ct, k, a.g, s, locs)

advance(lp, k, g, s, locs) ==
  LET i == program[k]
      span == Span(i, s, lp)
      from == g.bras[i.arg]
      ct == g.brae[i.arg] - from
  IN CASE i.op = "CCEOF" -> [r |-> 1, loc2 |-> lp, g |-> g]
       [] IsChar(i) /\ i.mod = "none" ->
            IF Accepts(i, At(s, lp)) THEN advance(lp + 1, k + 1, g, s, locs) ELSE Fails(g)
       [] IsChar(i) /\ i.mod = "STAR" -> TryDown(lp + span, lp, 1, k + 1, g, s, locs)
       [] IsChar(i) /\ i.mod = "RNGE" ->
            IF span < i.low THEN Fails(g)
            ELSE TryDown(lp + i.low + Min({span - i.low, getrnge(i)}), lp + i.low, 1, k + 1, g, s, locs)
       [] i.op = "CDOL" /\ i.mod = "none" ->
            IF At(s, lp) = 0 THEN advance(lp, k + 1, g, s, locs) ELSE Fails(g)
       [] i.op = "CDOL" /\ i.mod # "none" -> advance(lp, k + 1, g, s, locs)
       [] i.op = "CBRA" -> advance(lp, k + 1, [g EXCEPT !.bras[i.arg] = lp], s, locs)
       [] i.op = "CKET" -> advance(lp, k + 1, [g EXCEPT !.brae[i.arg] = lp], s, locs)
       [] i.op = "CBACK" /\ i.mod = "none" ->
            IF Equal(s, from, ct, lp) THEN advance(lp + ct, k + 1, g, s, locs) ELSE Fails(g)
       [] i.op = "CBACK" /\ i.mod = "STAR" ->
            IF ct = 0 THEN [Fails(g) EXCEPT !.r = Loops]
            ELSE TryDown(lp + ct * BackSpan(s, from, ct, lp), lp, ct, k + 1, g, s, 0)

\* The loop of step(): the fast check passes over other first characters.
FastCheck(s, lp) ==
  program[1].op = "CCHR" /\ program[1].mod = "none" /\ At(s, lp) # program[1].arg

RECURSIVE StepFrom(_, _, _, _)
StepFrom(p1, g, s, locs) ==
  LET a == IF FastCheck(s, p1) THEN Fails(g) ELSE advance(p1, 1, g, s, locs)
  IN IF a.r # 0 THEN [r |-> a.r, loc1 |-> p1, loc2 |-> a.loc2]
     ELSE IF At(s, p1) = 0 \/ circf THEN [r |-> 0, loc1 |-> p1, loc2 |-> 0]
     ELSE StepFrom(p1 + 1, a.g, s, locs)

NoGroups == [bras |-> [b \in 0 .. NBRA |-> 0], brae |-> [b \in 0 .. NBRA |-> 0]]
step(s, locs) == StepFrom(1, NoGroups, s, locs)

-----------------------------------------------------------------------------
(* What a program matches: the places that can be reached by it            *)
-----------------------------------------------------------------------------
Repeats(i, span) ==
  CASE i.mod = "none" -> {1} \intersect 0 .. span
    [] i.mod = "STAR" -> 0 .. span
    [] i.mod = "RNGE" -> {n \in i.low .. span : i.high = 255 \/ n <= i.high}

\* From the places x.lp, with the groups x.bras and x.brae, by instruction i.
Reach(i, s, X) ==
  CASE i.op = "CCEOF" -> X
    [] IsChar(i) ->
         UNION {{[x EXCEPT !.lp = @ + n] : n \in Repeats(i, Span(i, s, x.lp))} : x \in X}
    [] i.op = "CDOL" -> {x \in X : i.mod # "none" \/ x.lp = Len(s) + 1}
    [] i.op = "CBRA" -> {[x EXCEPT !.bras[i.arg] = x.lp] : x \in X}
    [] i.op = "CKET" -> {[x EXCEPT !.brae[i.arg] = x.lp] : x \in X}
    [] i.op = "CBACK" ->
         UNION {LET from == x.bras[i.arg]
                    ct == x.brae[i.arg] - from
                    most == IF ct = 0 THEN 1 ELSE BackSpan(s, from, ct, x.lp)
                IN {[x EXCEPT !.lp = @ + n * ct] : n \in Repeats(i, most)} : x \in X}

\* Where a match that begins at lp can end.
Ends(s, lp) ==
  LET start == {[lp |-> lp, bras |-> NoGroups.bras, brae |-> NoGroups.brae]}
  IN {x.lp : x \in FoldLeft(LAMBDA X, i : Reach(i, s, X), start, program)}

Starts(s) == {lp \in IF circf THEN {1} ELSE 1 .. Len(s) + 1 : Ends(s, lp) # {}}

\* A back reference to a group that is still open.
OpenReference ==
  \E k \in DOMAIN program : program[k].op = "CBACK" /\
    ~\E j \in 1 .. k : program[j].op = "CKET" /\ program[j].arg = program[k].arg

\* The programs whose meaning is defined: no \{ where advance() has no
\* instruction for it ("range"), and no range of a class that ends with the
\* null character ("null") or with a negative character ("below").
Defined == cpc = "done" /\ program # << >> /\ junk = {} /\ ~OpenReference

Strings == SeqOf(Plain, MaxString)

-----------------------------------------------------------------------------
\* step() finds a match exactly when there is one, the leftmost, and reports
\* a true end of it: the backtracking of advance(), with its counts and its
\* back references, misses nothing and invents nothing.  After an earlier
\* match (locs) what it reports is still a match.  The one exception is a
\* call that does not return.
StepFindsLeftmost ==
  Defined =>
    \A s \in Strings :
      /\ LET a == step(s, 0) IN
         /\ a.r # Loops => ((a.r = 1) <=> (Starts(s) # {}))
         /\ a.r = 1 => a.loc1 = Min(Starts(s)) /\ a.loc2 \in Ends(s, a.loc1)
      /\ \A locs \in 1 .. Len(s) + 1 :
           LET a == step(s, locs) IN a.r = 1 => a.loc2 \in Ends(s, a.loc1)

\* No instruction accepts the null character, so that advance() never runs
\* past the end of the string, unless a range of a class ended with the null
\* character, which compile() refuses everywhere else in a class.
NulNeverAccepted ==
  "null" \notin junk => \A k \in DOMAIN program : IsChar(program[k]) => ~Accepts(program[k], 0)

\* Group numbers stay within braslist and braelist, the stack of open groups
\* within bracket, and a class of 16 bytes has no character above them.  An
\* accepted program has no open group and fits the buffer.  Until then ep
\* can be one byte past endbuf: ep >= endbuf is tested before instructions
\* of two bytes, and the pattern is refused at the next test.
WithinArrays ==
  /\ \A k \in DOMAIN program :
       /\ program[k].op \in {"CBRA", "CKET", "CBACK"} => program[k].arg < NBRA
       /\ program[k].op \in {"CCL", "NCCL"} => program[k].set \subseteq 0 .. HighBit - 1
  /\ Len(bracket) <= NBRA
  /\ cpc = "done" => bracket = << >> /\ ep <= endbuf
  /\ ep <= endbuf + 1


=============================================================================
