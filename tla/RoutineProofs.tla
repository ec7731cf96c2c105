--------------------------- MODULE RoutineProofs ---------------------------
(***************************************************************************)
(* Proofs about routines of one thread: the on_trap() stack of OnTrap, for *)
(* calls of any depth, the copy routines of Copy, for copies of any        *)
(* length, and the 64-bit division of Division, for words of any width.    *)
(***************************************************************************)
EXTENDS Copy, OnTrap, Division, TLAPS, WellFoundedInduction

-----------------------------------------------------------------------------
(* The on_trap() stack                                                     *)

\* The functions on the stack are numbered from 1, the outermost.
LEMMA FrameNat == \A f \in Frame : f \in Nat /\ 1 <= f /\ f <= MaxFrame
BY OnTrapAssumption DEF Frame

\* A non-empty set of functions has an innermost one, and only one.
LEMMA InnermostIs ==
  ASSUME NEW S, S \subseteq Frame
  PROVE  /\ S = {} => Innermost(S) = 0
         /\ S # {} => /\ Innermost(S) \in S
                      /\ \A g \in S : g <= Innermost(S)
<1> USE OnTrapAssumption
<1>1. ASSUME S # {}
      PROVE  \E x \in S : \A y \in S : x >= y
  <2> DEFINE T == {MaxFrame - f : f \in S}
  <2>1. T \subseteq Nat /\ T # {}
    <3>1. \A f \in S : MaxFrame - f \in Nat
      BY FrameNat
    <3> QED BY <1>1, <3>1, Zenon
  <2>2. PICK m \in T : \A n \in T : ~(<<n, m>> \in OpToRel(<, Nat))
    <3> HIDE DEF T
    <3> QED BY <2>1, NatLessThanWellFounded, WFMin, Zenon
  <2>3. \A n \in T : ~(n < m)
    BY <2>1, <2>2, Zenon DEF OpToRel
  <2>4. PICK x \in S : m = MaxFrame - x
    BY Zenon
  <2>5. \A y \in S : MaxFrame - y \in T
    BY Zenon
  <2>6. \A y \in S : x >= y
    <3> HIDE DEF T
    <3> QED BY <2>3, <2>4, <2>5, FrameNat
  <2> QED BY <2>6, Zenon
<1>2. ASSUME S # {}
      PROVE  /\ Innermost(S) \in S
             /\ \A g \in S : g <= Innermost(S)
  <2>1. Innermost(S) = CHOOSE x \in S : \A y \in S : x >= y
    BY <1>2, Zenon DEF Innermost, Max
  <2>2. Innermost(S) \in S /\ \A y \in S : Innermost(S) >= y
    BY <1>1, <1>2, <2>1, Zenon
  <2> QED BY <2>2, FrameNat, Zenon
<1>3. S = {} => Innermost(S) = 0
  BY Zenon DEF Innermost
<1> QED BY <1>2, <1>3, Zenon

\* The innermost function is the one that is above all others.
LEMMA InnermostUnique ==
  ASSUME NEW S, S \subseteq Frame, NEW f \in S, \A g \in S : g <= f
  PROVE  Innermost(S) = f
<1>1. Innermost(S) \in S /\ f <= Innermost(S) /\ Innermost(S) <= f
  BY InnermostIs, Zenon
<1>2. Innermost(S) \in Nat /\ f \in Nat
  BY <1>1, FrameNat, Zenon
<1> QED BY <1>1, <1>2

\* TrapStackIsLive is inductive, with the types of the fields.
LEMMA OnTrapInvariant == OnTrapSpec => [](OnTrapTypeOK /\ TrapStackIsLive)
<1> USE OnTrapAssumption
<1> DEFINE Inv == OnTrapTypeOK /\ TrapStackIsLive
<1>1. OnTrapInit => Inv
  BY DEF OnTrapInit, OnTrapTypeOK, TrapStackIsLive, Innermost, Frame
<1>2. Inv /\ [OnTrapNext]_onTrapVars => Inv'
  <2> SUFFICES ASSUME OnTrapTypeOK, TrapStackIsLive, [OnTrapNext]_onTrapVars
               PROVE  OnTrapTypeOK' /\ TrapStackIsLive'
    BY Zenon
  <2>0. /\ depth \in Frame /\ depth \in Nat /\ depth # 0 /\ protected \subseteq Frame
        /\ \A f \in protected : f \in Nat /\ 1 <= f /\ f <= depth
    BY FrameNat DEF OnTrapTypeOK, TrapStackIsLive
  <2>1. CASE UNCHANGED onTrapVars
    BY <2>1, Zenon DEF OnTrapTypeOK, TrapStackIsLive, Innermost, onTrapVars
  <2>2. ASSUME NEW prot \in SUBSET OtProt, on_trap(prot)
        PROVE  OnTrapTypeOK' /\ TrapStackIsLive'
    <3>1. OnTrapTypeOK'
      BY <2>2, Zenon DEF on_trap, OtPush, OnTrapTypeOK
    <3>2. t_ontrap' = depth /\ Innermost(protected') = depth
      <4>1. t_ontrap' = depth
        BY <2>2, Zenon DEF on_trap, OtPush
      <4>2. /\ protected' \subseteq Frame /\ depth \in protected'
            /\ \A g \in protected' : g <= depth
        BY <2>0, <2>2 DEF on_trap, OnTrapTypeOK, TrapStackIsLive
      <4> QED BY <4>1, <4>2, InnermostUnique, Zenon
    <3>3. CASE depth \in protected
      <4>1. t_ontrap = depth
        BY <2>0, <3>3, InnermostUnique, Zenon DEF TrapStackIsLive
      <4>2. protected' = protected /\ ot_prev' = ot_prev /\ depth' = depth
        BY <2>2, <3>3, <4>1, Zenon DEF on_trap, OtPush
      <4> QED BY <3>1, <3>2, <4>1, <4>2, Zenon DEF TrapStackIsLive
    <3>4. CASE depth \notin protected
      <4>1. t_ontrap # depth
        BY <2>0, <3>4, InnermostIs, Zenon DEF TrapStackIsLive
      <4>2. /\ protected' = protected \cup {depth} /\ depth' = depth
            /\ ot_prev' = [ot_prev EXCEPT ![depth] = t_ontrap]
        BY <2>2, <4>1, Zenon DEF on_trap, OtPush
      <4>3. {g \in protected' : g < depth} = protected
        <5>1. \A g \in protected' : g < depth <=> g \in protected
          BY <2>0, <3>4, <4>2
        <5> QED BY <4>2, <5>1, Zenon
      <4>4. ot_prev'[depth] = Innermost({g \in protected' : g < depth})
        BY <4>2, <4>3, Zenon DEF TrapStackIsLive, OnTrapTypeOK
      <4>5. ASSUME NEW f \in protected
            PROVE  ot_prev'[f] = Innermost({g \in protected' : g < f})
        <5>1. {g \in protected' : g < f} = {g \in protected : g < f}
          BY <2>0, <4>2 DEF TrapStackIsLive, Frame
        <5>2. ot_prev'[f] = ot_prev[f]
          BY <3>4, <4>2, Zenon DEF OnTrapTypeOK
        <5> QED BY <5>1, <5>2, Zenon DEF TrapStackIsLive
      <4> QED BY <2>0, <3>1, <3>2, <4>2, <4>4, <4>5 DEF TrapStackIsLive, Frame
    <3> QED BY <3>3, <3>4, Zenon
  <2>3. CASE no_trap
    <3>1. OnTrapTypeOK'
      BY <2>3, Zenon DEF no_trap, OnTrapTypeOK
    <3>2. t_ontrap = depth
      BY <2>0, <2>3, InnermostUnique, Zenon DEF no_trap, TrapStackIsLive
    <3>3. {g \in protected : g < depth} = protected'
      <4>1. \A g \in protected : g < depth <=> g # depth
        BY <2>0
      <4> QED BY <2>3, <4>1, Zenon DEF no_trap
    <3>4. t_ontrap' = Innermost(protected')
      BY <2>3, <3>2, <3>3 DEF no_trap, TrapStackIsLive, OnTrapTypeOK, Frame
    <3>5. ASSUME NEW f \in protected'
          PROVE  ot_prev'[f] = Innermost({g \in protected' : g < f})
      <4>1. {g \in protected' : g < f} = {g \in protected : g < f}
        BY <2>0, <2>3 DEF no_trap, TrapStackIsLive, Frame
      <4> QED BY <2>3, <4>1, Zenon DEF no_trap, TrapStackIsLive
    <3> QED BY <2>0, <2>3, <3>1, <3>4, <3>5, Zenon DEF no_trap, TrapStackIsLive, Frame
  <2>4. CASE CallDown
    <3>1. OnTrapTypeOK' /\ protected' \subseteq 1 .. depth'
      BY <2>4 DEF CallDown, OnTrapTypeOK, TrapStackIsLive, Frame
    <3> QED BY <2>4, <3>1, Zenon DEF CallDown, TrapStackIsLive, Innermost
  <2>5. CASE ReturnUp
    <3>1. OnTrapTypeOK' /\ protected' \subseteq 1 .. depth'
      BY <2>5 DEF ReturnUp, OnTrapTypeOK, TrapStackIsLive, Frame
    <3> QED BY <2>5, <3>1, Zenon DEF ReturnUp, TrapStackIsLive, Innermost
  <2>6. ASSUME NEW bit \in OtProt, TakeTrap(bit)
        PROVE  OnTrapTypeOK' /\ TrapStackIsLive'
    <3>1. OnTrapTypeOK'
      BY <2>6, Zenon DEF TakeTrap, on_trap_trampoline, OnTrapTypeOK
    <3>2. protected' \subseteq 1 .. depth'
      <4>1. protected' = protected /\ depth' = Innermost(protected) /\ depth' # 0
        BY <2>6, Zenon DEF TakeTrap, on_trap_trampoline, TrapStackIsLive
      <4>2. depth' \in protected /\ \A g \in protected : g <= depth'
        BY <2>0, <4>1, InnermostIs, Zenon
      <4> QED BY <2>0, <4>1, <4>2
    <3> QED BY <2>6, <3>1, <3>2, Zenon DEF TakeTrap, TrapStackIsLive, Innermost
  <2> QED BY <2>1, <2>2, <2>3, <2>4, <2>5, <2>6, Zenon DEF OnTrapNext
<1> QED BY <1>1, <1>2, PTL DEF OnTrapSpec

\* The t_ontrap list is the list of the live protected functions, for calls
\* of any depth and any number of protections and exceptions.
THEOREM TrapStackLive == OnTrapSpec => []TrapStackIsLive
BY OnTrapInvariant, PTL

-----------------------------------------------------------------------------
(* Copying with fault recovery                                             *)

\* The handler of a thread that is in no copy routine.
OwnHandler == IF t_onfault THEN "catch_fault" ELSE "none"

\* The state of a call of a copy routine.
CallType ==
  [fn : Routines \cup {"none"}, at : {"caller", "copy", "err"}, count : Nat, done : Nat,
   cnt : 0 .. CounterMod - 1, left : Nat, nta : BOOLEAN, saved : {"none", "catch_fault"}, forced : BOOLEAN]

\* Who is in T_LOFAULT: the routine's own label where it has one, else the
\* caller's handler, which is also what the routine has saved.
HandlerInv ==
  /\ t_onfault \in BOOLEAN /\ call \in CallType
  /\ InCaller => t_lofault = OwnHandler /\ call.at = "caller"
  /\ ~InCaller => call.saved = OwnHandler /\ call.at # "caller"
  /\ call.fn \in Labelled => t_lofault = call.fn
  /\ call.fn \in NoErr \cup {"copystr"} => t_lofault = call.saved /\ call.at = "copy"
  /\ call.fn \in NoErr => t_onfault
  /\ call.fn \in Words => ~t_onfault

\* The size test that looks at the wrong register lets through a copy of
\* nothing.
Unbounded(c) == c.fn = "xcopyout_nta" /\ c.count = 0

\* What is left of a copy is what the counter has left; a routine at its
\* error label has something left.
LengthInv ==
  /\ call.nta => call.fn \in Xcopy
  /\ ~call.nta => call.done <= call.count
  /\ call.nta /\ ~Unbounded(call) =>
       /\ call.count > 0 /\ call.count < 8 * CounterMod
       /\ \E k \in Nat : /\ call.count - call.done = 16 * k
                         /\ call.cnt = IF k = 0 THEN 0 ELSE CounterMod - 2 * k
  /\ call.at = "err" /\ call.count > 0 => call.done < call.count

\* The counter of copystr_loop.
StringInv == call.fn \in StrCopies \cup {"copystr"} => call.left = call.count - call.done

\* The labels, and no other routine's.
LEMMA RoutineSets ==
  /\ Labelled \cap (NoErr \cup {"copystr", "none", "catch_fault"}) = {}
  /\ (NoErr \cup {"copystr"}) \cap {"none"} = {}
  /\ Routines = Labelled \cup NoErr \cup {"copystr"}
BY Zenon DEF Routines, Labelled, NoErr, Kernel, User, Xcopy, StrCopies, Words

\* The counter of COPY_LOOP_BODY, where it does not wrap.
LEMMA CounterStart ==
  ASSUME NEW n \in Nat, n < 8 * CounterMod
  PROVE  /\ COPY_LOOP_INIT(n) \in 0 .. CounterMod - 1
         /\ n > 0 /\ n % 16 = 0 =>
              \E k \in Nat : n = 16 * k /\ k # 0 /\ COPY_LOOP_INIT(n) = CounterMod - 2 * k
<1> USE CopyAssumption
<1>1. n \div 8 \in Nat /\ n \div 8 < CounterMod
  OBVIOUS
<1>2. \A x \in Nat : x % CounterMod \in 0 .. CounterMod - 1
  OBVIOUS
<1>3. \A x \in 0 .. CounterMod - 1 : x % CounterMod = x
  OBVIOUS
<1>4. COPY_LOOP_INIT(n) \in 0 .. CounterMod - 1
  BY <1>1, <1>2 DEF COPY_LOOP_INIT
<1>5. ASSUME n > 0, n % 16 = 0
      PROVE  \E k \in Nat : n = 16 * k /\ k # 0 /\ COPY_LOOP_INIT(n) = CounterMod - 2 * k
  <2> DEFINE k == n \div 16
  <2>1. k \in Nat /\ n = 16 * k /\ k # 0
    BY <1>5
  <2>2. n \div 8 = 2 * k
    BY <2>1
  <2>3. COPY_LOOP_INIT(n) = CounterMod - 2 * k
    BY <1>1, <1>3, <2>1, <2>2 DEF COPY_LOOP_INIT
  <2> QED BY <2>1, <2>3, Zenon
<1> QED BY <1>4, <1>5, Zenon

\* One round of COPY_LOOP_BODY adds 2 to the counter, or brings it to 0.
LEMMA CounterStep ==
  ASSUME NEW k \in Nat, k # 0, 2 * k <= CounterMod
  PROVE  (CounterMod - 2 * k + 2) % CounterMod = IF k = 1 THEN 0 ELSE CounterMod - 2 * (k - 1)
<1> USE CopyAssumption
<1>1. CounterMod % CounterMod = 0
  OBVIOUS
<1>2. \A x \in 0 .. CounterMod - 1 : x % CounterMod = x
  OBVIOUS
<1> QED BY <1>1, <1>2

\* The inductive invariant of the copy routines.
CopyInv == HandlerInv /\ LengthInv /\ StringInv /\ ResultIsTrue

\* A routine that starts has saved the caller's handler.
LEMMA BeginKeeps ==
  ASSUME CopyInv, InCaller,
         NEW fn \in Routines, NEW n \in Nat, n < 8 * CounterMod, NEW h,
         NEW nta \in BOOLEAN, NEW forced \in BOOLEAN,
         h = IF fn \in Labelled THEN fn ELSE t_lofault,
         fn \in NoErr => t_onfault,
         fn \in Words => ~t_onfault,
         nta => /\ fn \in Xcopy /\ n % 16 = 0
                /\ n > 0 \/ fn = "xcopyout_nta",
         Begin(fn, n, h, nta, forced)
  PROVE  CopyInv'
<1>1. /\ call' = [fn |-> fn, at |-> "copy", count |-> n, done |-> 0, cnt |-> COPY_LOOP_INIT(n),
                  left |-> n, nta |-> nta, saved |-> t_lofault, forced |-> forced]
      /\ t_lofault' = h /\ t_onfault' = t_onfault
  BY Zenon DEF Begin
<1>2. t_lofault = OwnHandler /\ t_lofault \in {"none", "catch_fault"} /\ t_onfault \in BOOLEAN
  BY Zenon DEF CopyInv, HandlerInv, OwnHandler
<1>3. fn # "none" /\ (fn \in Labelled => fn \notin NoErr \cup {"copystr"})
  BY RoutineSets, Zenon
<1>4. HandlerInv'
  <2>1. call' \in CallType
    BY <1>1, <1>2, CounterStart, Zenon DEF CallType
  <2> QED BY <1>1, <1>2, <1>3, <2>1, Zenon DEF HandlerInv, InCaller, OwnHandler
<1>5. LengthInv'
  <2>1. CASE nta /\ n > 0
    <3>1. PICK k \in Nat : n = 16 * k /\ k # 0 /\ COPY_LOOP_INIT(n) = CounterMod - 2 * k
      BY <2>1, CounterStart, Zenon
    <3>2. /\ call'.count - call'.done = 16 * k
          /\ call'.cnt = IF k = 0 THEN 0 ELSE CounterMod - 2 * k
      BY <1>1, <3>1
    <3> QED BY <1>1, <2>1, <3>2, Zenon DEF LengthInv
  <2>2. CASE nta /\ ~(n > 0)
    BY <1>1, <2>2 DEF LengthInv, Unbounded
  <2>3. CASE ~nta
    BY <1>1, <2>3 DEF LengthInv
  <2> QED BY <2>1, <2>2, <2>3, Zenon
<1>6. ResultIsTrue'
  BY Zenon DEF Begin, NoRet, Reply, NoCall, ResultIsTrue
<1>7. StringInv'
  BY <1>1 DEF StringInv
<1> QED BY <1>4, <1>5, <1>6, <1>7, Zenon DEF CopyInv

\* Back in the caller: its handler is restored, and the result is right.
LEMMA ReturnKeeps ==
  ASSUME t_onfault' \in BOOLEAN, t_lofault' = OwnHandler', call' = NoCall, ResultIsTrue'
  PROVE  CopyInv'
<1>1. call' \in CallType
  BY CopyAssumption DEF NoCall, CallType
<1>2. HandlerInv'
  BY <1>1, RoutineSets, Zenon DEF HandlerInv, InCaller, NoCall, Words, Labelled
<1>3. LengthInv'
  BY DEF LengthInv, NoCall
<1>4. StringInv'
  BY Zenon DEF StringInv, NoCall, StrCopies
<1> QED BY <1>2, <1>3, <1>4, Zenon DEF CopyInv

\* What a return says is true when it says it.
LEMMA ResultOf ==
  ASSUME NEW c, NEW v, Return(c, v),
         v = "0" /\ c.fn \in Kernel \cup User =>
           c.done = c.count \/ (c.fn = "xcopyout_nta" /\ c.count = 0),
         v = "0" => c.fn \notin StrCopies \cup {"copystr"},
         v # "ENAMETOOLONG",
         v \in {"errno", "-1", "EFAULT"} /\ c.count > 0 => c.done < c.count
  PROVE  ResultIsTrue'
BY Zenon DEF Return, Reply, ResultIsTrue

\* The same of copystr_out, where the counter has what is left.
LEMMA ResultOfString ==
  ASSUME NEW c, NEW v, copystr_out(c, v), v \in {"0", "ENAMETOOLONG"},
         c.fn \in StrCopies \cup {"copystr"},
         c.count \in Nat, c.done \in Nat, c.left = c.count - c.done,
         v = "0" => c.done \in 1 .. c.count,
         v = "ENAMETOOLONG" => c.done = c.count
  PROVE  ResultIsTrue'
<1>1. c.fn \notin Kernel \cup User
  BY Zenon DEF Kernel, User, Xcopy, StrCopies
<1>2. /\ ret'.fn = c.fn /\ ret'.value = v /\ ret'.count = c.count /\ ret'.done = c.done
      /\ ret'.lencopied = c.count - c.left
  BY Zenon DEF copystr_out, Reply
<1>3. c.count - c.left = c.done
  OBVIOUS
<1> QED BY <1>1, <1>2, <1>3, Zenon DEF ResultIsTrue

\* The early exits of the user routines.
LEMMA RejectedKeeps ==
  ASSUME CopyInv, InCaller, NEW fn, NEW n \in Nat, NEW error,
         error \in {"-1", "EFAULT", "label"},
         Rejected(fn, n, error)
  PROVE  CopyInv'
<1> DEFINE c == [NoCall EXCEPT !.fn = fn, !.count = n]
           v == IF t_copyops THEN "copyops" ELSE error
<1>1. c.fn = fn /\ c.count = n /\ c.done = 0
  BY Zenon DEF NoCall
<1>2. Return(c, v) /\ UNCHANGED <<t_lofault, t_onfault>>
  BY Zenon DEF Rejected, Fallback
<1>3. v \in {"-1", "EFAULT", "label", "copyops"}
  BY Zenon
<1>4. ResultIsTrue'
  <2> HIDE DEF c, v
  <2> QED BY <1>1, <1>2, <1>3, ResultOf, Zenon
<1>5. call' = NoCall
  BY <1>2, Zenon DEF Return
<1>6. t_onfault' \in BOOLEAN /\ t_lofault' = OwnHandler'
  BY <1>2, Zenon DEF CopyInv, HandlerInv, OwnHandler
<1> QED BY <1>4, <1>5, <1>6, ReturnKeeps, Zenon

\* Entering a routine, or being turned away.
LEMMA EntryKeeps ==
  ASSUME CopyInv, NEW n \in CopyCounts, NEW user \in BOOLEAN, NEW hot \in BOOLEAN,
         NEW aligned \in BOOLEAN,
         \/ kcopy(n) \/ kzero(n) \/ copystr(n)
         \/ copyin(n, user) \/ copyout(n, user)
         \/ xcopyin_nta(n, user, hot, aligned) \/ xcopyout_nta(n, user, hot, aligned)
         \/ copyinstr(n, user) \/ copyoutstr(n, user)
         \/ FUWORD(user) \/ SUWORD(user)
         \/ \E fn \in NoErr : Noerr(fn, n, user)
  PROVE  CopyInv'
<1>0. /\ n \in Nat /\ n < 8 * CounterMod /\ 1 \in Nat /\ 1 < 8 * CounterMod
      /\ n >= XCOPY_MIN_SIZE => n > 0
  BY CopyAssumption
<1>1. /\ {"kcopy", "kzero", "copyin", "copyout", "xcopyin_nta", "xcopyout_nta",
           "copyinstr", "copyoutstr", "fuword", "suword"} \subseteq Labelled
      /\ {"kcopy", "kzero", "copyin", "copyout", "xcopyin_nta", "xcopyout_nta",
           "copyinstr", "copyoutstr"} \cap Words = {}
      /\ {"xcopyin_nta", "xcopyout_nta"} \subseteq Xcopy
      /\ Labelled \subseteq Routines /\ NoErr \subseteq Routines /\ "copystr" \in Routines
      /\ Labelled \cap NoErr = {} /\ "copystr" \notin Labelled \cup NoErr
      /\ Words \subseteq Labelled
  BY Zenon DEF Routines, Labelled, NoErr, Kernel, User, Xcopy, StrCopies, Words
<1>2. CASE kcopy(n)
  BY <1>0, <1>1, <1>2, BeginKeeps, Zenon DEF kcopy, do_copy_fault
<1>3. CASE kzero(n)
  BY <1>0, <1>1, <1>3, BeginKeeps, Zenon DEF kzero, do_zero_fault
<1>4. CASE copystr(n)
  BY <1>0, <1>1, <1>4, BeginKeeps, Zenon DEF copystr, do_copystr
<1>5. CASE copyin(n, user)
  BY <1>0, <1>1, <1>5, BeginKeeps, RejectedKeeps, Zenon DEF copyin, do_copy_fault
<1>6. CASE copyout(n, user)
  BY <1>0, <1>1, <1>6, BeginKeeps, RejectedKeeps, Zenon DEF copyout, do_copy_fault
<1>7. CASE xcopyin_nta(n, user, hot, aligned)
  <2>1. InCaller
    BY <1>7, Zenon DEF xcopyin_nta
  <2>2. CASE ~user
    BY <1>0, <1>1, <1>7, <2>1, <2>2, RejectedKeeps, Zenon DEF xcopyin_nta
  <2>3. CASE user /\ ~hot /\ xcopyin_large(n) /\ aligned /\ n % 16 = 0
    <3>1. Begin("xcopyin_nta", n, "xcopyin_nta", TRUE, FALSE) /\ n > 0
      BY <1>0, <1>7, <2>3, Zenon DEF xcopyin_nta, do_copy_fault_nta, xcopyin_large
    <3> QED BY <1>0, <1>1, <2>1, <2>3, <3>1, BeginKeeps, Zenon
  <2>4. CASE user /\ ~(~hot /\ xcopyin_large(n) /\ aligned /\ n % 16 = 0)
    <3>1. Begin("xcopyin_nta", n, "xcopyin_nta", FALSE, FALSE)
      BY <1>7, <2>4, Zenon DEF xcopyin_nta, do_copy_fault
    <3> QED BY <1>0, <1>1, <2>1, <3>1, BeginKeeps, Zenon
  <2> QED BY <2>2, <2>3, <2>4, Zenon
<1>8. CASE xcopyout_nta(n, user, hot, aligned)
  <2>1. InCaller
    BY <1>8, Zenon DEF xcopyout_nta
  <2>2. CASE ~user
    BY <1>0, <1>1, <1>8, <2>1, <2>2, RejectedKeeps, Zenon DEF xcopyout_nta
  <2>3. CASE user /\ ~hot /\ xcopyout_large(n) /\ aligned /\ n % 16 = 0
    <3>1. Begin("xcopyout_nta", n, "xcopyout_nta", TRUE, FALSE)
      BY <1>8, <2>3, Zenon DEF xcopyout_nta, do_copy_fault_nta
    <3> QED BY <1>0, <1>1, <2>1, <2>3, <3>1, BeginKeeps, Zenon
  <2>4. CASE user /\ ~(~hot /\ xcopyout_large(n) /\ aligned /\ n % 16 = 0)
    <3>1. Begin("xcopyout_nta", n, "xcopyout_nta", FALSE, FALSE)
      BY <1>8, <2>4, Zenon DEF xcopyout_nta, do_copy_fault
    <3> QED BY <1>0, <1>1, <2>1, <3>1, BeginKeeps, Zenon
  <2> QED BY <2>2, <2>3, <2>4
<1>9. CASE copyinstr(n, user)
  BY <1>0, <1>1, <1>9, BeginKeeps, RejectedKeeps, Zenon DEF copyinstr, do_copystr
<1>10. CASE copyoutstr(n, user)
  BY <1>0, <1>1, <1>10, BeginKeeps, RejectedKeeps, Zenon DEF copyoutstr, do_copystr
<1>11. CASE FUWORD(user)
  BY <1>0, <1>1, <1>11, BeginKeeps, RejectedKeeps, Zenon DEF FUWORD
<1>12. CASE SUWORD(user)
  BY <1>0, <1>1, <1>12, BeginKeeps, RejectedKeeps, Zenon DEF SUWORD
<1>13. ASSUME NEW fn \in NoErr, Noerr(fn, n, user)
       PROVE  CopyInv'
  <2>1. fn \in Routines /\ fn \notin Labelled /\ fn \notin Words
    BY <1>1, Zenon
  <2>2. InCaller /\ t_onfault /\ Begin(fn, n, t_lofault, FALSE, ~user /\ n > 0)
    BY <1>13, Zenon DEF Noerr
  <2>3. (~user /\ n > 0) \in BOOLEAN
    BY Zenon
  <2> QED BY <1>0, <2>1, <2>2, <2>3, BeginKeeps, Zenon
<1> QED BY <1>2, <1>3, <1>4, <1>5, <1>6, <1>7, <1>8, <1>9, <1>10, <1>11, <1>12, <1>13, Zenon

\* A routine that is done has copied all of it.
LEMMA FinishedAll ==
  ASSUME CopyInv, Finished(call), ~Unbounded(call)
  PROVE  call.done = call.count
<1>1. call.count \in Nat /\ call.done \in Nat /\ call.cnt \in Nat /\ call.nta \in BOOLEAN
  BY CopyAssumption DEF CopyInv, HandlerInv, CallType
<1>2. CASE ~call.nta
  BY <1>2, Zenon DEF Finished
<1>3. CASE call.nta
  <2>1. PICK k \in Nat : /\ call.count - call.done = 16 * k
                         /\ call.cnt = IF k = 0 THEN 0 ELSE CounterMod - 2 * k
    BY <1>3, Zenon DEF CopyInv, LengthInv
  <2>2. call.cnt = 0 /\ call.done > 0 /\ call.count < 8 * CounterMod
    BY <1>3, Zenon DEF Finished, CopyInv, LengthInv
  <2>3. CASE k = 0
    BY <1>1, <2>1, <2>3
  <2>4. CASE k # 0
    BY <1>1, <2>1, <2>2, <2>4, CopyAssumption
  <2> QED BY <2>3, <2>4, Zenon
<1> QED BY <1>1, <1>2, <1>3, Zenon

\* One word, byte or round of a copy loop that does not fault.
LEMMA AccessKeeps ==
  ASSUME CopyInv, Access
  PROVE  CopyInv'
<1>1. /\ call.count \in Nat /\ call.done \in Nat /\ call.cnt \in 0 .. CounterMod - 1
      /\ call.nta \in BOOLEAN /\ call \in CallType /\ ~InCaller /\ call.at = "copy"
  BY RoutineSets, Zenon DEF CopyInv, HandlerInv, CallType, InCaller, Access, Copying, Labelled
<1>2. UNCHANGED <<t_lofault, t_onfault, t_copyops, ret>>
  BY Zenon DEF Access
<1>3. ResultIsTrue'
  BY <1>2, Zenon DEF CopyInv, ResultIsTrue
<1>a. call.fn \notin StrCopies \cup {"copystr"}
  BY Zenon DEF Access, Copying, Kernel, User, Xcopy, NoErr, StrCopies
<1>b. call'.fn = call.fn => StringInv'
  BY <1>a, Zenon DEF StringInv
<1>4. CASE ~call.nta
  <2>1. call' = [call EXCEPT !.done = @ + (IF call.count - @ >= 4 THEN 4 ELSE 1)]
    BY <1>4, Zenon DEF Access
  <2>2. call.done < call.count
    BY <1>1, <1>4 DEF CopyInv, LengthInv, Access, Finished
  <2>3. call' \in CallType /\ call'.done <= call.count
    BY <1>1, <2>1, <2>2 DEF CallType
  <2>4. /\ call'.fn = call.fn /\ call'.at = call.at /\ call'.count = call.count
        /\ call'.nta = call.nta /\ call'.saved = call.saved
    BY <1>1, <2>1, Zenon DEF CallType
  <2>5. HandlerInv'
    BY <1>1, <1>2, <2>3, <2>4, Zenon DEF CopyInv, HandlerInv, InCaller, OwnHandler
  <2>6. LengthInv'
    BY <1>1, <1>4, <2>3, <2>4, Zenon DEF CopyInv, LengthInv
  <2> QED BY <1>3, <1>b, <2>4, <2>5, <2>6, Zenon DEF CopyInv
<1>5. CASE call.nta
  <2>1. call' = [call EXCEPT !.done = @ + 16, !.cnt = (@ + 2) % CounterMod]
    BY <1>5, Zenon DEF Access
  <2>2. (call.cnt + 2) % CounterMod \in 0 .. CounterMod - 1
    BY <1>1, CopyAssumption
  <2>3. call' \in CallType
    <3> DEFINE w == (call.cnt + 2) % CounterMod
    <3>1. call' = [call EXCEPT !.done = call.done + 16, !.cnt = w] /\ w \in 0 .. CounterMod - 1
      BY <2>1, <2>2, Zenon
    <3> HIDE DEF w
    <3>2. call.done + 16 \in Nat
      BY <1>1
    <3>3. [call EXCEPT !.done = call.done + 16] \in CallType
      BY <1>1, <3>2, Zenon DEF CallType
    <3>4. call' = [[call EXCEPT !.done = call.done + 16] EXCEPT !.cnt = w]
      BY <1>1, <3>1, Zenon DEF CallType
    <3> QED BY <3>1, <3>3, <3>4, Zenon DEF CallType
  <2>4. /\ call'.fn = call.fn /\ call'.at = call.at /\ call'.count = call.count
        /\ call'.nta = call.nta /\ call'.saved = call.saved
        /\ call'.done = call.done + 16 /\ call'.cnt = (call.cnt + 2) % CounterMod
    BY <1>1, <2>1, Zenon DEF CallType
  <2>5. HandlerInv'
    BY <1>1, <1>2, <2>3, <2>4, Zenon DEF CopyInv, HandlerInv, InCaller, OwnHandler
  <2>6. CASE Unbounded(call)
    BY <1>1, <1>3, <1>5, <1>b, <2>4, <2>5, <2>6, Zenon DEF CopyInv, LengthInv, Unbounded
  <2>7. CASE ~Unbounded(call)
    <3>1. PICK k \in Nat : /\ call.count - call.done = 16 * k
                           /\ call.cnt = IF k = 0 THEN 0 ELSE CounterMod - 2 * k
      BY <1>5, <2>7, Zenon DEF CopyInv, LengthInv
    <3>2. call.count > 0 /\ call.count < 8 * CounterMod /\ call.fn \in Xcopy
      BY <1>5, <2>7, Zenon DEF CopyInv, LengthInv
    <3>3. k # 0
      BY <1>1, <1>5, <3>1, <3>2 DEF Access, Finished
    <3>4. 2 * k <= CounterMod
      BY <1>1, <3>1, <3>2, CopyAssumption
    <3>5. call'.cnt = IF k = 1 THEN 0 ELSE CounterMod - 2 * (k - 1)
      BY <2>4, <3>1, <3>3, <3>4, CounterStep, Zenon
    <3>6. k - 1 \in Nat /\ call'.count - call'.done = 16 * (k - 1)
      BY <1>1, <2>4, <3>1, <3>3
    <3>7. \E j \in Nat : /\ call'.count - call'.done = 16 * j
                         /\ call'.cnt = IF j = 0 THEN 0 ELSE CounterMod - 2 * j
      <4>1. k - 1 = 0 <=> k = 1
        OBVIOUS
      <4> QED BY <3>5, <3>6, <4>1, Zenon
    <3>8. LengthInv'
      BY <1>1, <1>5, <2>4, <3>2, <3>7, Zenon DEF LengthInv
    <3> QED BY <1>3, <1>b, <2>4, <2>5, <3>8, Zenon DEF CopyInv
  <2> QED BY <2>6, <2>7, Zenon
<1> QED BY <1>1, <1>4, <1>5, Zenon

\* The ways out that restore the saved handler.
LEMMA RestoreKeeps ==
  ASSUME CopyInv, ~InCaller, Restore, UNCHANGED t_onfault,
         call' = NoCall, ResultIsTrue'
  PROVE  CopyInv'
<1>1. t_onfault' \in BOOLEAN /\ t_lofault' = OwnHandler'
  BY Zenon DEF CopyInv, HandlerInv, OwnHandler, Restore
<1> QED BY <1>1, ReturnKeeps, Zenon

\* FUWORD and SUWORD clear T_LOFAULT, which is right for their callers.
LEMMA ClearKeeps ==
  ASSUME CopyInv, call.fn \in Words, t_lofault' = "none", UNCHANGED t_onfault,
         call' = NoCall, ResultIsTrue'
  PROVE  CopyInv'
<1>1. t_onfault' \in BOOLEAN /\ t_lofault' = OwnHandler'
  BY Zenon DEF CopyInv, HandlerInv, OwnHandler
<1> QED BY <1>1, ReturnKeeps, Zenon

\* CopyInv is an invariant of the copy routines.
LEMMA CopyInvariant == CopySpec => []CopyInv
<1> USE CopyAssumption
<1>1. CopyInit => CopyInv
  <2> SUFFICES ASSUME CopyInit PROVE CopyInv
    BY Zenon
  <2>1. call \in CallType
    BY DEF CopyInit, NoCall, CallType
  <2>2. t_onfault = FALSE /\ t_onfault \in BOOLEAN /\ t_lofault = OwnHandler
    BY Zenon DEF CopyInit, OwnHandler
  <2>3. HandlerInv
    BY <2>1, <2>2, RoutineSets, Zenon DEF CopyInit, HandlerInv, InCaller, NoCall
  <2>4. LengthInv /\ StringInv /\ ResultIsTrue
    BY DEF CopyInit, LengthInv, StringInv, NoCall, NoRet, Reply, ResultIsTrue, StrCopies
  <2> QED BY <2>3, <2>4, Zenon DEF CopyInv
<1>2. CopyInv /\ [CopyNext]_copyVars => CopyInv'
  <2> SUFFICES ASSUME CopyInv, [CopyNext]_copyVars
               PROVE  CopyInv'
    BY Zenon
  <2>0. /\ call \in CallType /\ call.count \in Nat /\ call.done \in Nat
        /\ t_onfault \in BOOLEAN
        /\ call.fn # "none" => call.at # "caller" /\ ~InCaller
    BY Zenon DEF CopyInv, HandlerInv, CallType, InCaller
  <2>1. CASE UNCHANGED copyVars
    BY <2>1 DEF copyVars, CopyInv, HandlerInv, LengthInv, StringInv, ResultIsTrue, InCaller, OwnHandler, Unbounded
  <2>2. CASE on_fault
    BY <2>2, Zenon DEF on_fault, CopyInv, HandlerInv, LengthInv, StringInv, ResultIsTrue, InCaller, OwnHandler, Unbounded,
                Labelled, Kernel, User, Xcopy, StrCopies, NoErr, Words
  <2>3. CASE no_fault
    BY <2>3, Zenon DEF no_fault, CopyInv, HandlerInv, LengthInv, StringInv, ResultIsTrue, InCaller, OwnHandler, Unbounded,
                Labelled, Kernel, User, Xcopy, StrCopies, NoErr, Words
  <2>4. CASE Success
    <3>1. call.fn \in Kernel \cup User /\ call.fn # "none"
      BY <2>4, Zenon DEF Success, Copying, Kernel, User, Xcopy
    <3>2. Return(call, "0") /\ Restore /\ UNCHANGED t_onfault
      BY <2>4, Zenon DEF Success
    <3>3. call.done = call.count \/ Unbounded(call)
      BY <2>4, FinishedAll, Zenon DEF Success
    <3>4. call.fn \notin StrCopies \cup {"copystr"}
      BY <3>1, Zenon DEF Kernel, User, Xcopy, StrCopies
    <3>5. ResultIsTrue'
      BY <3>2, <3>3, <3>4, ResultOf, Zenon DEF Unbounded
    <3> QED BY <2>0, <3>1, <3>2, <3>5, RestoreKeeps, Zenon DEF Return
  <2>5. CASE SuccessNoerr
    <3>1. call.fn \in NoErr /\ t_lofault = OwnHandler
      BY <2>5, Zenon DEF SuccessNoerr, Copying, CopyInv, HandlerInv, InCaller, NoErr
    <3>2. Return(call, "void") /\ UNCHANGED <<t_lofault, t_onfault>>
      BY <2>5, Zenon DEF SuccessNoerr
    <3>3. ResultIsTrue'
      BY <3>2, ResultOf, Zenon
    <3>4. t_onfault' \in BOOLEAN /\ t_lofault' = OwnHandler'
      BY <2>0, <3>1, <3>2, Zenon DEF OwnHandler
    <3> QED BY <3>2, <3>3, <3>4, ReturnKeeps, Zenon DEF Return
  <2>6. CASE CopyStr
    <3> DEFINE moved == [call EXCEPT !.done = @ + 1, !.left = @ - 1]
    <3>1. /\ call.fn \in StrCopies \cup {"copystr"} /\ call.fn # "none" /\ call.at = "copy"
          /\ call.fn \notin Kernel \cup User /\ UNCHANGED <<t_onfault, t_copyops>>
      BY <2>6, Zenon DEF CopyStr, Copying, Kernel, User, Xcopy, StrCopies
    <3>a. /\ call.left \in Nat /\ call.left = call.count - call.done /\ ~call.nta
          /\ call.done <= call.count
      BY <2>0, <3>1, Zenon DEF CopyInv, LengthInv, StringInv, CallType, User
    <3>2. ASSUME call.left # 0
          PROVE  /\ moved \in CallType /\ moved.done = call.done + 1 /\ moved.left = call.left - 1
                 /\ moved.fn = call.fn /\ moved.at = call.at /\ moved.count = call.count
                 /\ moved.nta = call.nta /\ moved.saved = call.saved
                 /\ moved.left = moved.count - moved.done /\ moved.done \in 1 .. moved.count
      <4>1. call.done + 1 \in Nat /\ call.left - 1 \in Nat
        BY <2>0, <3>2, <3>a
      <4>2. [call EXCEPT !.done = @ + 1] \in CallType
        BY <2>0, <4>1, Zenon DEF CallType
      <4>3. moved = [[call EXCEPT !.done = @ + 1] EXCEPT !.left = call.left - 1]
        BY <2>0, Zenon DEF CallType
      <4>4. moved \in CallType
        BY <4>1, <4>2, <4>3, Zenon DEF CallType
      <4>5. /\ moved.done = call.done + 1 /\ moved.left = call.left - 1
            /\ moved.fn = call.fn /\ moved.at = call.at /\ moved.count = call.count
            /\ moved.nta = call.nta /\ moved.saved = call.saved
        BY <2>0, Zenon DEF CallType
      <4> HIDE DEF moved
      <4>6. moved.left = moved.count - moved.done /\ moved.done \in 1 .. moved.count
        BY <2>0, <3>2, <3>a, <4>5
      <4> QED BY <4>4, <4>5, <4>6, Zenon
    <3> HIDE DEF moved
    <3>3. CASE call.left # 0 /\ call' = moved /\ UNCHANGED <<t_lofault, ret>>
      <4>2. HandlerInv'
        BY <3>1, <3>2, <3>3, Zenon DEF CopyInv, HandlerInv, InCaller, OwnHandler
      <4>3. LengthInv'
        BY <3>1, <3>2, <3>3, <3>a DEF LengthInv
      <4>4. StringInv'
        BY <3>2, <3>3, Zenon DEF StringInv
      <4>5. ResultIsTrue'
        BY <3>3, Zenon DEF CopyInv, ResultIsTrue
      <4> QED BY <4>2, <4>3, <4>4, <4>5, Zenon DEF CopyInv
    <3>4. CASE call.left # 0 /\ copystr_out(moved, "0")
      <4>1. moved.done \in Nat /\ moved.count \in Nat
        BY <2>0, <3>2, <3>4
      <4>2. ResultIsTrue'
        BY <3>1, <3>2, <3>4, <4>1, ResultOfString, Zenon
      <4> QED BY <2>0, <3>1, <3>4, <4>2, RestoreKeeps, Zenon DEF copystr_out
    <3>5. CASE call.left = 0 /\ copystr_out(call, "ENAMETOOLONG")
      <4>1. call.done = call.count
        BY <2>0, <3>5, <3>a
      <4>2. ResultIsTrue'
        BY <2>0, <3>1, <3>5, <3>a, <4>1, ResultOfString, Zenon
      <4> QED BY <2>0, <3>1, <3>5, <4>2, RestoreKeeps, Zenon DEF copystr_out
    <3> QED BY <2>6, <3>3, <3>4, <3>5, Zenon DEF CopyStr, moved
  <2>7. CASE UserWord
    <3> DEFINE c == [call EXCEPT !.done = 1]
    <3>1. c.fn = call.fn /\ call.fn \in Words
      BY <2>0, <2>7, Zenon DEF UserWord, Copying, CallType
    <3>2. Return(c, "0")
      BY <2>7, Zenon DEF UserWord
    <3>3. c.fn \notin Kernel \cup User /\ c.fn \notin StrCopies \cup {"copystr"}
      BY <3>1, Zenon DEF Words, Kernel, User, Xcopy, StrCopies
    <3>4. ResultIsTrue'
      <4> HIDE DEF c
      <4> QED BY <3>2, <3>3, ResultOf, Zenon
    <3> QED BY <2>7, <3>1, <3>4, ClearKeeps, Zenon DEF UserWord, Return
  <2>8. CASE KernelError
    <3>1. /\ call.fn # "none" /\ Restore /\ Return(call, "errno") /\ UNCHANGED t_onfault
          /\ call.at = "err"
      BY <2>8, Zenon DEF KernelError, Kernel
    <3>2. ResultIsTrue'
      BY <3>1, ResultOf, Zenon DEF CopyInv, LengthInv
    <3> QED BY <2>0, <3>1, <3>2, RestoreKeeps, Zenon DEF Return
  <2>9. CASE UserError
    <3> DEFINE v == IF t_copyops THEN "copyops"
                    ELSE IF call.fn \in Xcopy THEN "errno" ELSE IF call.fn \in StrCopies THEN "EFAULT" ELSE "-1"
    <3>1. /\ call.fn # "none" /\ Restore /\ Return(call, v) /\ UNCHANGED t_onfault
          /\ call.at = "err"
      BY <2>9, Zenon DEF UserError, User, Xcopy, StrCopies, Fallback
    <3>2. v \in {"copyops", "errno", "EFAULT", "-1"}
      BY Zenon
    <3>3. ResultIsTrue'
      <4> HIDE DEF v
      <4> QED BY <3>1, <3>2, ResultOf, Zenon DEF CopyInv, LengthInv
    <3> QED BY <2>0, <3>1, <3>3, RestoreKeeps, Zenon DEF Return
  <2>10. CASE WordError
    <3> DEFINE v == IF t_copyops THEN "copyops" ELSE "-1"
    <3>1. /\ call.fn \in Words /\ t_lofault' = "none" /\ Return(call, v) /\ UNCHANGED t_onfault
          /\ call.at = "err"
      BY <2>10, Zenon DEF WordError, Fallback
    <3>2. v \in {"copyops", "-1"}
      BY Zenon
    <3>3. ResultIsTrue'
      <4> HIDE DEF v
      <4> QED BY <3>1, <3>2, ResultOf, Zenon DEF CopyInv, LengthInv
    <3> QED BY <3>1, <3>3, ClearKeeps, Zenon DEF Return
  <2>11. CASE Fault
    <3>1. CASE t_lofault = "catch_fault" /\ catch_fault
      <4>1. Return(call, "longjmp") /\ t_onfault' = FALSE /\ t_lofault' = "none"
        BY <3>1, Zenon DEF catch_fault
      <4>2. ResultIsTrue'
        BY <4>1, ResultOf, Zenon
      <4>3. t_onfault' \in BOOLEAN /\ t_lofault' = OwnHandler'
        BY <4>1, Zenon DEF OwnHandler
      <4> QED BY <4>1, <4>2, <4>3, ReturnKeeps, Zenon DEF Return
    <3>2. CASE t_lofault # "catch_fault"
      <4>1. call.fn \in Labelled /\ t_lofault = call.fn /\ call.at = "copy"
        <5>1. ~InCaller
          BY <2>11, <3>2, Zenon DEF Fault, CopyInv, HandlerInv, OwnHandler, Copying, InCaller, Routines, Labelled, Kernel, User, Xcopy, StrCopies, Words, NoErr
        <5>2. call.fn \notin NoErr
          BY <3>2, <5>1, Zenon DEF CopyInv, HandlerInv, OwnHandler
        <5>3. call.fn # "copystr"
          BY <2>11, <3>2, <5>1, Zenon DEF CopyInv, HandlerInv, OwnHandler, Fault, Copying, Routines, StrCopies
        <5>4. call.fn \in Labelled
          BY <2>0, <5>1, <5>2, <5>3, RoutineSets, Zenon DEF CallType, InCaller
        <5> QED BY <2>11, <5>1, <5>4, Zenon DEF CopyInv, HandlerInv, Fault, Copying
      <4>2. call.count > 0 => call.done < call.count
        <5>1. CASE Copying(Routines \ (StrCopies \cup {"copystr"})) /\ ~Finished(call)
          <6>1. CASE ~call.nta
            BY <2>0, <5>1, <6>1 DEF Finished, CopyInv, LengthInv
          <6>2. CASE call.nta /\ call.count > 0
            <7>1. PICK k \in Nat : /\ call.count - call.done = 16 * k
                                   /\ call.cnt = IF k = 0 THEN 0 ELSE CounterMod - 2 * k
              BY <2>0, <6>2 DEF CopyInv, LengthInv, Unbounded
            <7>2. k # 0
              BY <2>0, <5>1, <6>2, <7>1 DEF Finished
            <7> QED BY <2>0, <7>1, <7>2
          <6> QED BY <6>1, <6>2, Zenon
        <5>2. CASE Copying(StrCopies) /\ call.left # 0
          <6>1. call.left = call.count - call.done /\ ~call.nta /\ call.done <= call.count
            BY <5>2, Zenon DEF Copying, CopyInv, LengthInv, StringInv, StrCopies, Xcopy
          <6> QED BY <2>0, <5>2, <6>1
        <5> QED BY <2>11, <4>1, <5>1, <5>2, Zenon DEF Fault, Copying, InCaller, Labelled, Kernel, User, Xcopy, StrCopies, Words
      <4>3. /\ call' = [call EXCEPT !.at = "err"] /\ UNCHANGED <<t_lofault, t_onfault, t_copyops, ret>>
        BY <2>11, <3>2, <4>1, RoutineSets, Zenon DEF Fault, Trap
      <4>4. /\ call' \in CallType /\ call'.done = call.done /\ call'.fn = call.fn /\ call'.at = "err"
            /\ call'.count = call.count /\ call'.nta = call.nta /\ call'.saved = call.saved /\ call'.cnt = call.cnt
            /\ call'.left = call.left
        BY <2>0, <4>3, Zenon DEF CallType
      <4>5. HandlerInv'
        BY <4>1, <4>3, <4>4, RoutineSets, Zenon DEF CopyInv, HandlerInv, InCaller, OwnHandler
      <4>6. LengthInv'
        BY <4>2, <4>4, Zenon DEF CopyInv, LengthInv, Unbounded
      <4>7. ResultIsTrue'
        BY <4>3, Zenon DEF CopyInv, ResultIsTrue
      <4>8. StringInv'
        BY <4>4, Zenon DEF CopyInv, StringInv
      <4> QED BY <4>5, <4>6, <4>7, <4>8, Zenon DEF CopyInv
    <3> QED BY <2>11, <3>1, <3>2, Zenon DEF Fault, Trap
  <2> QED BY <2>1, <2>2, <2>3, <2>4, <2>5, <2>6, <2>7, <2>8, <2>9, <2>10, <2>11,
             AccessKeeps, EntryKeeps DEF CopyNext
<1> QED BY <1>1, <1>2, PTL DEF CopySpec

\* Back in the caller, T_LOFAULT is what on_fault() or no_fault() left there,
\* whatever routines were called and however they ended; FUWORD and SUWORD,
\* which store 0 there, are only called outside on_fault() regions.
THEOREM CallerProtected == CopySpec => []ProtectionKept
<1>1. CopyInv => ProtectionKept
  BY Zenon DEF CopyInv, HandlerInv, ProtectionKept, OwnHandler
<1> QED BY <1>1, CopyInvariant, PTL

\* Every fault finds the handler of the routine on top of the stack or of the
\* on_fault() caller.
THEOREM AllFaultsCaught == CopySpec => []FaultsAreCaught
<1>1. CopyInv => FaultsAreCaught
  BY Zenon DEF CopyInv, HandlerInv, CallType, FaultsAreCaught
<1> QED BY <1>1, CopyInvariant, PTL

\* A routine says 0 only when it has copied everything, and an error only
\* when it has not, for copies of any length below 8 * CounterMod.
THEOREM ResultsTrue == CopySpec => []ResultIsTrue
<1>1. CopyInv => ResultIsTrue
  BY Zenon DEF CopyInv
<1> QED BY <1>1, CopyInvariant, PTL

\* No copy goes past its length, but for the one whose size test looks at the
\* wrong register.
THEOREM CopiesBounded == CopySpec => []CopiesWithinCount
<1>1. CopyInv => CopiesWithinCount
  <2> SUFFICES ASSUME CopyInv PROVE CopiesWithinCount
    BY Zenon
  <2>1. call.count \in Nat /\ call.done \in Nat /\ call.nta \in BOOLEAN
    BY Zenon DEF CopyInv, HandlerInv, CallType
  <2> QED BY <2>1 DEF CopyInv, LengthInv, Unbounded, CopiesWithinCount
<1> QED BY <1>1, CopyInvariant, PTL

-----------------------------------------------------------------------------
(* Division: quotients, remainders and products of numbers                 *)

\* Quotient and remainder are unique.
LEMMA OneQuotient ==
  ASSUME NEW d \in Nat \ {0}, NEW q \in Int, NEW r \in 0 .. d - 1, NEW p \in Int, NEW s \in 0 .. d - 1,
         d * q + r = d * p + s
  PROVE  q = p /\ r = s
<1>1. d * (q - p) = s - r
  OBVIOUS
<1>2. CASE q >= p + 1
  <2>1. d * (q - p) >= d
    BY <1>2
  <2> QED BY <1>1, <2>1
<1>3. CASE q <= p - 1
  <2>1. d * (q - p) <= -d
    BY <1>3
  <2> QED BY <1>1, <2>1
<1>4. CASE q = p
  BY <1>4
<1> QED BY <1>2, <1>3, <1>4

\* A number is its quotient and its remainder.
LEMMA Quotient ==
  ASSUME NEW d \in Nat \ {0}, NEW a \in Int
  PROVE  a = d * (a \div d) + (a % d) /\ a % d \in 0 .. d - 1 /\ a \div d \in Int
OBVIOUS

\* The quotient and the remainder of a number given by both.
LEMMA QuotientIs ==
  ASSUME NEW d \in Nat \ {0}, NEW a \in Int, NEW q \in Int, NEW r \in 0 .. d - 1, a = d * q + r
  PROVE  a % d = r /\ a \div d = q
BY Quotient, OneQuotient

\* Multiplication keeps the order, and reflects it.
LEMMA Monotone ==
  ASSUME NEW d \in Nat, NEW a \in Int, NEW b \in Int, a <= b
  PROVE  d * a <= d * b
<1>1. d * (b - a) >= 0
  OBVIOUS
<1> QED BY <1>1

\* A product is below another when a factor is.
LEMMA FactorBelow ==
  ASSUME NEW d \in Nat \ {0}, NEW a \in Int, NEW b \in Int, d * a < d * b
  PROVE  a < b
<1>1. CASE b <= a
  <2>1. d * b <= d * a
    BY <1>1, Monotone, Zenon
  <2> QED BY <2>1
<1> QED BY <1>1

\* A quotient is natural when the number is.
LEMMA QuotientNat ==
  ASSUME NEW d \in Nat \ {0}, NEW a \in Nat
  PROVE  a \div d \in Nat
OBVIOUS

-----------------------------------------------------------------------------
\* The shifted divisor fits two words, its high word has its highest bit, and
\* its low word ends in as many zeros as it was shifted by.
LEMMA ShiftDivisor ==
  ASSUME NEW B \in Nat \ {0}, NEW s \in Nat \ {0}, NEW c \in Nat \ {0}, s * c = B,
         NEW y1 \in Nat, NEW y0 \in 0 .. B - 1, NEW yn \in Nat,
         y1 < c, c <= 2 * y1, yn = (B * y1 + y0) * s
  PROVE  /\ yn < B * B
         /\ B <= 2 * (yn \div B)
         /\ yn % B <= B - s
<1> DEFINE yn1 == yn \div B
           yn0 == yn % B
<1>1. yn1 \in Nat /\ yn0 \in 0 .. B - 1 /\ yn = B * yn1 + yn0
  <2>1. yn \in Int
    OBVIOUS
  <2> QED BY <2>1, Quotient, QuotientNat, Zenon
<1>2. yn < B * B
  <2>1. B * (y1 + 1) <= B * c
    BY Monotone
  <2>2. B * y1 + y0 + 1 <= B * c
    BY <2>1
  <2>3. s * (B * y1 + y0 + 1) <= s * (B * c)
    BY <2>2, Monotone
  <2>4. s * (B * c) = B * B
    OBVIOUS
  <2> QED BY <2>3, <2>4
<1>3. s * y1 <= yn1
  <2>1. B * (s * y1) <= yn
    OBVIOUS
  <2>2. B * (s * y1) < B * (yn1 + 1)
    BY <1>1, <2>1
  <2>3. s * y1 < yn1 + 1
    BY <1>1, <2>2, FactorBelow
  <2> QED BY <1>1, <2>3
<1>4. B <= 2 * yn1
  <2>1. s * c <= s * (2 * y1)
    BY Monotone
  <2> QED BY <1>1, <1>3, <2>1
<1>5. yn0 <= B - s
  <2> DEFINE k == B * y1 + y0 - c * yn1
  <2>1. k \in Int /\ yn0 = s * k
    <3> HIDE DEF yn1, yn0
    <3>1. B * yn1 = s * (c * yn1)
      BY <1>1
    <3> QED BY <1>1, <3>1
  <2>2. s * k < s * c
    BY <1>1, <2>1
  <2>3. k < c
    <3> HIDE DEF k
    <3> QED BY <2>1, <2>2, FactorBelow
  <2>4. s * k <= s * (c - 1)
    <3> HIDE DEF k
    <3> QED BY <2>1, <2>3, Monotone
  <2>5. s * (c - 1) = B - s
    OBVIOUS
  <2> HIDE DEF k
  <2> QED BY <2>1, <2>4, <2>5, Zenon
<1> QED BY <1>2, <1>4, <1>5, Zenon

\* The shifted dividend has three words: the one that is shifted out is x2.
DividendShifts(B, s, c, x1, x0, X) ==
  /\ B \in Nat \ {0} /\ s \in Nat \ {0} /\ c \in Nat \ {0} /\ s * c = B
  /\ x1 \in 0 .. B - 1 /\ x0 \in 0 .. B - 1 /\ X \in Nat /\ X = (B * x1 + x0) * s
  => /\ x1 \div c \in 0 .. s - 1
     /\ X % (B * B) \in 0 .. B * B - 1
     /\ X = (B * B) * (x1 \div c) + (X % (B * B))

\* It does.
LEMMA ShiftDividend ==
  ASSUME NEW B, NEW s, NEW c, NEW x1, NEW x0, NEW X
  PROVE  DividendShifts(B, s, c, x1, x0, X)
<1> SUFFICES ASSUME B \in Nat \ {0}, s \in Nat \ {0}, c \in Nat \ {0}, s * c = B,
                    x1 \in 0 .. B - 1, x0 \in 0 .. B - 1, X \in Nat, X = (B * x1 + x0) * s
             PROVE  /\ x1 \div c \in 0 .. s - 1
                    /\ X % (B * B) \in 0 .. B * B - 1
                    /\ X = (B * B) * (x1 \div c) + (X % (B * B))
  BY Zenon DEF DividendShifts
<1> DEFINE x2 == x1 \div c
           m == x1 % c
<1>1. x2 \in Nat /\ m \in 0 .. c - 1 /\ x1 = c * x2 + m
  <2>1. x1 \in Int /\ x1 \in Nat
    OBVIOUS
  <2> QED BY <2>1, Quotient, QuotientNat, Zenon
<1>2. x2 < s
  <2>1. c * x2 < c * s
    BY <1>1
  <2> QED BY <1>1, <2>1, FactorBelow
<1>3. B * B \in Nat \ {0}
  OBVIOUS
<1>4. X = (B * B) * x2 + s * (B * m + x0)
  BY <1>1
<1>5. s * (B * m + x0) \in 0 .. B * B - 1
  <2>1. B * m <= B * (c - 1)
    BY <1>1, Monotone
  <2>2. B * m + x0 + 1 <= B * c
    BY <1>1, <2>1
  <2>3. s * (B * m + x0 + 1) <= s * (B * c)
    BY <1>1, <2>2, Monotone
  <2>4. s * (B * c) = B * B
    OBVIOUS
  <2>5. s * (B * m + x0) \in Nat
    BY <1>1
  <2> QED BY <1>1, <2>3, <2>4, <2>5
<1> DEFINE M == B * B
           e == s * (B * m + x0)
<1>6. X = M * x2 + e /\ e \in 0 .. M - 1 /\ M \in Nat \ {0} /\ X \in Int /\ x2 \in Int
  BY <1>1, <1>3, <1>4, <1>5
<1>7. x2 \in 0 .. s - 1
  <2> HIDE DEF x2
  <2> QED BY <1>1, <1>2
<1>8. X % M \in 0 .. M - 1 /\ X = M * x2 + (X % M)
  <2> HIDE DEF M, e, x2
  <2>1. X % M = e
    BY ONLY <1>6, QuotientIs, Zenon
  <2> QED BY ONLY <1>6, <2>1, Zenon
<1> QED BY <1>7, <1>8, Zenon

\* The estimate from the high words is at most one too high: what has to be
\* taken off is at most the divisor.
EstimateIsNear(B, s, XH, X0, yn1, yn0, q, r) ==
  /\ B \in Nat \ {0} /\ s \in Nat \ {0} /\ 2 * s <= B
  /\ XH \in Nat /\ XH < s * B /\ X0 \in 0 .. B - 1
  /\ yn1 \in Nat /\ B <= 2 * yn1 /\ yn0 \in Nat /\ yn0 <= B - s
  /\ q = XH \div yn1 /\ r = XH % yn1
  => /\ q \in 0 .. 2 * s - 1
     /\ B * r + X0 \in 0 .. (B * yn1 + yn0) - 1
     /\ yn0 * q \in 0 .. B * yn1 + yn0
     /\ B * XH + X0 = q * (B * yn1 + yn0) + (B * r + X0) - yn0 * q

\* It is: the divisor's high word is at least half a word, and the product of
\* s and B - s at most a quarter of B * B.
LEMMA Estimate ==
  ASSUME NEW B, NEW s, NEW XH, NEW X0, NEW yn1, NEW yn0, NEW q, NEW r
  PROVE  EstimateIsNear(B, s, XH, X0, yn1, yn0, q, r)
<1> SUFFICES ASSUME B \in Nat \ {0}, s \in Nat \ {0}, 2 * s <= B,
                    XH \in Nat, XH < s * B, X0 \in 0 .. B - 1,
                    yn1 \in Nat, B <= 2 * yn1, yn0 \in Nat, yn0 <= B - s,
                    q = XH \div yn1, r = XH % yn1
             PROVE  /\ q \in 0 .. 2 * s - 1
                    /\ B * r + X0 \in 0 .. (B * yn1 + yn0) - 1
                    /\ yn0 * q \in 0 .. B * yn1 + yn0
                    /\ B * XH + X0 = q * (B * yn1 + yn0) + (B * r + X0) - yn0 * q
  BY Zenon DEF EstimateIsNear
<1>1. yn1 \in Nat \ {0}
  OBVIOUS
<1>2. q \in Nat /\ r \in 0 .. yn1 - 1 /\ XH = yn1 * q + r
  <2>1. XH \in Int
    OBVIOUS
  <2> QED BY <1>1, <2>1, Quotient, QuotientNat, Zenon
<1>3. q < 2 * s
  <2>1. s * B <= s * (2 * yn1)
    BY Monotone
  <2>2. yn1 * q < yn1 * (2 * s)
    BY <1>2, <2>1
  <2> QED BY <1>1, <1>2, <2>2, FactorBelow
<1>4. B * r + X0 \in 0 .. (B * yn1 + yn0) - 1
  <2>1. B * r <= B * (yn1 - 1)
    BY <1>2, Monotone
  <2>2. B * r \in Nat
    BY <1>2
  <2> QED BY <1>2, <2>1, <2>2
<1>5. yn0 * q <= B * yn1 + yn0
  <2>1. yn0 * q <= yn0 * (2 * s)
    BY <1>2, <1>3, Monotone
  <2>2. (2 * s) * yn0 <= (2 * s) * (B - s)
    BY Monotone
  <2>3. 4 * s * (B - s) <= B * B
    <3>1. (B - 2 * s) * (B - 2 * s) >= 0
      OBVIOUS
    <3> QED BY <3>1
  <2>4. B * B <= B * (2 * yn1)
    BY Monotone
  <2>5. 2 * (yn0 * q) <= 2 * (B * yn1)
    BY <1>2, <2>1, <2>2, <2>3, <2>4
  <2> QED BY <1>2, <2>5
<1>6. yn0 * q \in Nat
  BY <1>2
<1>7. B * XH + X0 = q * (B * yn1 + yn0) + (B * r + X0) - yn0 * q
  <2>1. q \in Int /\ r \in Int
    BY <1>2
  <2>2. B \in Int /\ yn1 \in Int /\ yn0 \in Int /\ X0 \in Int
    OBVIOUS
  <2>3. B * (yn1 * q + r) + X0 = q * (B * yn1 + yn0) + (B * r + X0) - yn0 * q
    BY ONLY <2>1, <2>2
  <2> QED BY ONLY <1>2, <2>3, Zenon
<1> QED BY <1>2, <1>3, <1>4, <1>5, <1>6, <1>7
-----------------------------------------------------------------------------
\* Shifting back: the quotient is that of the shifted numbers, the remainder
\* is theirs shifted.
ShiftsBack(s, x, y, q, R) ==
  /\ s \in Nat \ {0} /\ x \in Nat /\ y \in Nat \ {0} /\ q \in Nat /\ R \in Nat
  /\ R < y * s /\ x * s = q * (y * s) + R
  => q = x \div y /\ R \div s = x % y

\* They are.
LEMMA ShiftBack ==
  ASSUME NEW s, NEW x, NEW y, NEW q, NEW R
  PROVE  ShiftsBack(s, x, y, q, R)
<1> SUFFICES ASSUME s \in Nat \ {0}, x \in Nat, y \in Nat \ {0}, q \in Nat, R \in Nat,
                    R < y * s, x * s = q * (y * s) + R
             PROVE  q = x \div y /\ R \div s = x % y
  BY Zenon DEF ShiftsBack
<1> DEFINE z == x - q * y
<1>1. z \in Int /\ R = s * z + 0 /\ 0 \in 0 .. s - 1 /\ R \in Int
  OBVIOUS
<1>2. R \div s = z
  <2> HIDE DEF z
  <2> QED BY ONLY <1>1, s \in Nat \ {0}, QuotientIs, Zenon
<1>3. z < y
  <2>1. s * z < s * y
    OBVIOUS
  <2> HIDE DEF z
  <2> QED BY <1>1, <2>1, FactorBelow
<1>4. -1 < z
  <2>1. s * (-1) < s * z
    BY <1>1
  <2> HIDE DEF z
  <2> QED BY <1>1, <2>1, FactorBelow
<1>5. x = y * q + z /\ z \in 0 .. y - 1 /\ x \in Int /\ q \in Int
  <2>1. x = y * q + z
    OBVIOUS
  <2> HIDE DEF z
  <2> QED BY <1>1, <1>3, <1>4, <2>1
<1>6. x % y = z /\ x \div y = q
  <2> HIDE DEF z
  <2> QED BY ONLY <1>5, y \in Nat \ {0}, QuotientIs, Zenon
<1> QED BY <1>2, <1>6, Zenon

\* What holds of 0, and of i + 1 when it holds of i, holds up to n.
LEMMA UpTo ==
  ASSUME NEW S, NEW n \in Nat, 0 \in S, \A i \in 0 .. n - 1 : i \in S => i + 1 \in S
  PROVE  \A i \in 0 .. n : i \in S
<1> DEFINE T == {i \in 0 .. n : i \notin S}
<1>1. ASSUME T # {} PROVE FALSE
  <2>1. T \subseteq Nat
    OBVIOUS
  <2>2. PICK m \in T : \A k \in T : ~(<<k, m>> \in OpToRel(<, Nat))
    <3> HIDE DEF T
    <3> QED BY <1>1, <2>1, NatLessThanWellFounded, WFMin, Zenon
  <2>3. \A k \in T : ~(k < m)
    BY <2>1, <2>2, Zenon DEF OpToRel
  <2>4. m \in 0 .. n /\ m \notin S
    BY Zenon
  <2>5. m # 0
    BY <2>4, Zenon
  <2>6. m - 1 \in 0 .. n - 1 /\ m - 1 \in 0 .. n /\ m - 1 < m /\ (m - 1) + 1 = m
    BY <2>4, <2>5
  <2>7. m - 1 \in S
    BY <2>3, <2>6, Zenon
  <2> QED BY <2>4, <2>6, <2>7, Zenon
<1> QED BY <1>1, Zenon

\* The powers of two, up to the number of values of a word.
LEMMA PowersPositive == \A i \in 0 .. WordBits : 2 ^ i \in Nat \ {0}
<1> DEFINE S == {i \in 0 .. WordBits : 2 ^ i \in Nat \ {0}}
<1>1. 0 \in S
  BY DivisionAssumption
<1>2. ASSUME NEW i \in 0 .. WordBits - 1, i \in S PROVE i + 1 \in S
  <2>1. 2 ^ (i + 1) = 2 * 2 ^ i
    BY DivisionAssumption, Zenon
  <2>2. i + 1 \in 0 .. WordBits
    BY DivisionAssumption
  <2>3. 2 ^ i \in Nat \ {0}
    BY <1>2, Zenon
  <2>4. 2 ^ (i + 1) \in Nat \ {0}
    BY <2>1, <2>3
  <2> QED BY <2>2, <2>4, Zenon
<1>3. WordBits \in Nat
  BY DivisionAssumption, Zenon
<1>4. \A i \in 0 .. WordBits : i \in S
  <2> HIDE DEF S
  <2> QED BY <1>1, <1>2, <1>3, UpTo, Zenon
<1> QED BY <1>4, Zenon

\* Shifts by i and by the rest of the word make up a word.
LEMMA PowersMultiply == \A i \in 0 .. WordBits : 2 ^ i * 2 ^ (WordBits - i) = Word
<1> DEFINE S == {i \in 0 .. WordBits : 2 ^ i * 2 ^ (WordBits - i) = Word}
<1>1. 0 \in S
  <2>1. WordBits - 0 = WordBits /\ 2 ^ 0 = 1 /\ 0 \in 0 .. WordBits /\ WordBits \in 0 .. WordBits
    BY DivisionAssumption
  <2>2. 1 * 2 ^ WordBits = 2 ^ WordBits
    BY <2>1, PowersPositive
  <2> QED BY <2>1, <2>2, Zenon DEF Word
<1>2. ASSUME NEW i \in 0 .. WordBits - 1, i \in S PROVE i + 1 \in S
  <2> DEFINE j == WordBits - (i + 1)
  <2>1. /\ i + 1 \in 0 .. WordBits /\ i \in 0 .. WordBits
        /\ j \in 0 .. WordBits - 1 /\ j \in 0 .. WordBits /\ j + 1 = WordBits - i
    BY DivisionAssumption
  <2>2. 2 ^ (i + 1) = 2 * 2 ^ i
    BY DivisionAssumption, Zenon
  <2>3. 2 ^ (j + 1) = 2 * 2 ^ j
    <3> HIDE DEF j
    <3> QED BY <2>1, DivisionAssumption, Zenon
  <2>4. 2 ^ i * 2 ^ (j + 1) = Word
    <3> HIDE DEF j
    <3> QED BY <1>2, <2>1, Zenon
  <2>5. 2 ^ i \in Int /\ 2 ^ j \in Int
    <3> HIDE DEF j
    <3> QED BY <2>1, PowersPositive
  <2>6. \A a, b \in Int : (2 * a) * b = a * (2 * b)
    OBVIOUS
  <2>7. 2 ^ (i + 1) * 2 ^ j = Word
    <3> HIDE DEF j
    <3> QED BY <2>2, <2>3, <2>4, <2>5, <2>6, Zenon
  <2> QED BY <2>1, <2>7, Zenon
<1>3. WordBits \in Nat
  BY DivisionAssumption, ZenonT(60)
<1>4. \A i \in 0 .. WordBits : i \in S
  <2> HIDE DEF S
  <2> QED BY <1>1, <1>2, <1>3, UpTo, Zenon
<1> QED BY <1>4, Zenon

\* A word is a power of two, and at least two.
LEMMA WordIs == Word \in Nat \ {0, 1} /\ Word * Word \in Nat \ {0}
<1>1. WordBits - 1 \in 0 .. WordBits - 1 /\ WordBits - 1 \in 0 .. WordBits /\ (WordBits - 1) + 1 = WordBits
  BY DivisionAssumption
<1>2. Word = 2 * 2 ^ (WordBits - 1)
  BY <1>1, DivisionAssumption, Zenon DEF Word
<1>3. 2 ^ (WordBits - 1) \in Nat \ {0}
  BY <1>1, PowersPositive, Zenon
<1>4. Word \in Nat \ {0, 1}
  BY <1>2, <1>3
<1> QED BY <1>4

\* bsrl finds the highest bit of a word that is not zero.
LEMMA HighBit ==
  ASSUME NEW w \in 1 .. Word - 1
  PROVE  /\ HIBIT(w) \in 0 .. WordBits - 1
         /\ 2 ^ HIBIT(w) <= w /\ w < 2 ^ (HIBIT(w) + 1)
<1> DEFINE H == {i \in 0 .. WordBits - 1 : 2 ^ i <= w}
           T == {WordBits - i : i \in H}
<1>1. T \subseteq Nat /\ T # {}
  <2>1. 0 \in 0 .. WordBits - 1 /\ 2 ^ 0 <= w
    BY DivisionAssumption, WordIs
  <2>2. 0 \in H
    BY <2>1, Zenon
  <2>3. \A i \in 0 .. WordBits - 1 : WordBits - i \in Nat
    BY DivisionAssumption
  <2>4. \A i \in H : WordBits - i \in Nat
    BY <2>3, Zenon
  <2> HIDE DEF H
  <2> QED BY <2>2, <2>4, Zenon
<1>2. PICK m \in T : \A n \in T : ~(<<n, m>> \in OpToRel(<, Nat))
  <2> HIDE DEF T
  <2> QED BY <1>1, NatLessThanWellFounded, WFMin, Zenon
<1>3. \A n \in T : ~(n < m)
  BY <1>1, <1>2, Zenon DEF OpToRel
<1>4. PICK h \in H : m = WordBits - h
  BY Zenon
<1>5. \A i \in H : i \in 0 .. WordBits - 1 /\ WordBits - i \in T
  BY Zenon
<1>6. \A i \in H : h >= i
  <2> HIDE DEF H, T
  <2> QED BY <1>3, <1>4, <1>5, DivisionAssumption
<1>7. HIBIT(w) = CHOOSE i \in H : \A j \in H : i >= j
  BY Zenon DEF HIBIT, Max
<1>8. HIBIT(w) \in H /\ \A j \in H : HIBIT(w) >= j
  <2> HIDE DEF H
  <2> QED BY <1>6, <1>7, Zenon
<1> DEFINE b == HIBIT(w)
<1> HIDE DEF b
<1>9. b \in 0 .. WordBits - 1 /\ 2 ^ b <= w /\ \A j \in H : b >= j
  BY <1>8, Zenon DEF b
<1>10. w < 2 ^ (b + 1)
  <2>1. CASE b = WordBits - 1
    <3>1. b + 1 = WordBits
      BY <2>1, DivisionAssumption
    <3>2. w < Word
      BY WordIs
    <3> QED BY <3>1, <3>2, Zenon DEF Word
  <2>2. CASE b # WordBits - 1
    <3>1. b + 1 \in 0 .. WordBits - 1 /\ ~(b >= b + 1) /\ b + 1 \in 0 .. WordBits
      BY <1>9, <2>2, DivisionAssumption
    <3>2. b + 1 \notin H
      <4> HIDE DEF H
      <4> QED BY <1>9, <3>1, Zenon
    <3>3. ~(2 ^ (b + 1) <= w)
      BY <3>1, <3>2, Zenon
    <3>4. 2 ^ (b + 1) \in Nat
      BY <3>1, PowersPositive, Zenon
    <3> QED BY <3>3, <3>4, WordIs
  <2> QED BY <2>1, <2>2, Zenon
<1> QED BY <1>9, <1>10, Zenon DEF b

\* A double word is its two words.
LEMMA Halves ==
  ASSUME NEW x \in Doubles
  PROVE  /\ HI(x) \in 0 .. Word - 1 /\ LO(x) \in 0 .. Word - 1 /\ x \in Nat
         /\ x = Word * HI(x) + LO(x)
<1> DEFINE h == HI(x)
           l == LO(x)
<1>1. x \in Nat /\ x \in Int /\ x < Word * Word
  BY WordIs DEF Doubles
<1>2. Word \in Nat \ {0}
  BY WordIs, Zenon
<1>3. h \in Nat /\ l \in 0 .. Word - 1 /\ x = Word * h + l
  BY <1>1, <1>2, Quotient, QuotientNat, Zenon DEF HI, LO
<1> HIDE DEF h, l
<1>4. Word * h < Word * Word
  BY <1>1, <1>2, <1>3
<1>5. h < Word
  BY <1>2, <1>3, <1>4, FactorBelow
<1>6. h \in 0 .. Word - 1
  BY <1>2, <1>3, <1>5
<1> QED BY <1>1, <1>3, <1>6, Zenon DEF h, l

\* The divisor fits one word: its one or two divisions are a long division.
LEMMA ByWord ==
  ASSUME NEW x \in Doubles, NEW y \in Divisors, HI(y) = 0
  PROVE  DivideByWord(x, y) = [q |-> x \div y, r |-> x % y, traps |-> FALSE]
<1> DEFINE x1 == HI(x)
           x0 == LO(x)
           first == IF HI(x) < LO(y) THEN [q |-> 0, r |-> HI(x), traps |-> FALSE]
                                     ELSE A_DIV32(HI(x), 0, LO(y))
           f == first.q
           g == first.r
           second == A_DIV32(LO(x), first.r, LO(y))
<1>1. x1 \in 0 .. Word - 1 /\ x0 \in 0 .. Word - 1 /\ x \in Nat /\ x = Word * x1 + x0
  BY Halves, Zenon
<1>2. y \in Doubles /\ y # 0
  BY Zenon DEF Divisors
<1>3. y \in Nat \ {0} /\ LO(y) = y
  <2>1. LO(y) \in 0 .. Word - 1 /\ y = Word * 0 + LO(y) /\ y \in Nat
    BY <1>2, Halves, Zenon
  <2> HIDE DEF LO
  <2> QED BY <1>2, <2>1, WordIs
<1>4. f \in Nat /\ g \in 0 .. y - 1 /\ x1 = y * f + g /\ first.traps = FALSE
  <2>1. CASE x1 < y
    <3>1. f = 0 /\ g = x1 /\ first.traps = FALSE
      BY <1>3, <2>1, Zenon
    <3> HIDE DEF first, x1
    <3> QED BY <1>1, <1>3, <2>1, <3>1
  <2>2. CASE ~(x1 < y)
    <3>1. first = A_DIV32(x1, 0, y)
      BY <1>3, <2>2, Zenon
    <3>2. HILO(0, x1) = x1 /\ (0 >= y) = FALSE
      <4> HIDE DEF x1
      <4> QED BY <1>1, <1>3, WordIs DEF HILO
    <3>3. f = x1 \div y /\ g = x1 % y /\ first.traps = FALSE
      <4> HIDE DEF x1, first
      <4> QED BY <3>1, <3>2, Zenon DEF A_DIV32
    <3>4. x1 \in Nat /\ x1 \in Int
      <4> HIDE DEF x1
      <4> QED BY <1>1, WordIs
    <3> HIDE DEF x1, first
    <3> QED BY <1>3, <3>3, <3>4, Quotient, QuotientNat, ZenonT(30)
  <2> QED BY <2>1, <2>2, ZenonT(30)
<1> HIDE DEF first
<1> DEFINE z == g * Word + x0
<1>5. z \in Nat /\ z \in Int
  <2> HIDE DEF f, g, x0, x1
  <2> QED BY <1>1, <1>3, <1>4, WordIs
<1>6. second.q = z \div y /\ second.r = z % y /\ second.traps = FALSE
  <2>1. (g >= y) = FALSE
    <3> HIDE DEF g
    <3> QED BY <1>3, <1>4
  <2> QED BY <1>3, <2>1, Zenon DEF A_DIV32, HILO
<1> DEFINE k == second.q
           l == second.r
<1>7. k \in Nat /\ l \in 0 .. y - 1 /\ z = y * k + l
  <2> HIDE DEF second, z
  <2> QED BY <1>3, <1>5, <1>6, Quotient, QuotientNat, ZenonT(30)
<1>8. DivideByWord(x, y) = [q |-> HILO(f, k), r |-> l, traps |-> FALSE]
  <2>1. DivideByWord(x, y) = [q |-> HILO(f, k), r |-> l, traps |-> first.traps \/ second.traps]
    BY Zenon DEF DivideByWord, first
  <2> HIDE DEF second, f, k, l
  <2> QED BY <1>4, <1>6, <2>1, Zenon
<1>9. x = y * (f * Word + k) + l /\ f * Word + k \in Int /\ x \in Int
  <2>1. x = Word * (y * f + g) + x0
    BY <1>1, <1>4, Zenon
  <2>2. g * Word + x0 = y * k + l
    BY <1>7, Zenon
  <2> HIDE DEF f, g, k, l, x0, x1, z
  <2> QED BY <1>1, <1>3, <1>4, <1>7, <2>1, <2>2, WordIs
<1>10. x % y = l /\ x \div y = f * Word + k
  <2> DEFINE e == f * Word + k
  <2> HIDE DEF f, k, l, e
  <2>1. x = y * e + l /\ e \in Int
    BY <1>9, Zenon DEF e
  <2>2. x % y = l /\ x \div y = e
    BY ONLY <1>3, <1>7, <1>9, <2>1, QuotientIs, Zenon
  <2> QED BY <2>2, Zenon DEF e
<1> HIDE DEF f, k, l
<1> QED BY <1>8, <1>10, Zenon DEF HILO

\* Arithmetic on two words is arithmetic on numbers when the result fits.
LEMMA Fits ==
  ASSUME NEW a \in Doubles
  PROVE  a % (Word * Word) = a
<1> DEFINE M == Word * Word
<1>1. a = M * 0 + a /\ a \in 0 .. M - 1 /\ M \in Nat \ {0} /\ a \in Int /\ 0 \in Int
  <2>1. M \in Nat \ {0} /\ a \in 0 .. M - 1
    BY WordIs, Zenon DEF Doubles
  <2> HIDE DEF M
  <2> QED BY <2>1
<1> HIDE DEF M
<1>2. a % M = a
  BY ONLY <1>1, QuotientIs, Zenon
<1> QED BY <1>2, Zenon DEF M

\* The case with a shift: the estimate of the quotient is right, or one too high,
\* and then what is taken off is one divisor too much.
LEMMA ByShift ==
  ASSUME NEW x \in Doubles, NEW y \in Divisors, NEW n \in 1 .. WordBits - 1,
         HI(y) < 2 ^ (WordBits - n), 2 ^ (WordBits - n) <= 2 * HI(y)
  PROVE  DivideNormalized(x, y, n) = [q |-> x \div y, r |-> x % y, traps |-> FALSE]
<1> DEFINE B == Word
           s == 2 ^ n
           c == 2 ^ (WordBits - n)
           x1 == HI(x)
           x0 == LO(x)
           y1 == HI(y)
           y0 == LO(y)
           yn == (y * 2 ^ n) % (Word * Word)
           x2 == HI(x) \div 2 ^ (WordBits - n)
           xn == (x * 2 ^ n) % (Word * Word)
           est == A_DIV32(HI(xn), x2, HI(yn))
           rest == HILO(est.r, LO(xn))
           t == LO(yn) * est.q
<1>1. /\ B \in Nat \ {0} /\ s \in Nat \ {0} /\ c \in Nat \ {0}
      /\ s * c = B /\ 2 * s <= B
  <2>1. /\ n \in 0 .. WordBits /\ WordBits - n \in 0 .. WordBits
        /\ WordBits - n - 1 \in 0 .. WordBits - 1 /\ WordBits - n - 1 \in 0 .. WordBits
        /\ (WordBits - n - 1) + 1 = WordBits - n
    BY DivisionAssumption
  <2>2. B \in Nat \ {0} /\ s \in Nat \ {0} /\ c \in Nat \ {0} /\ s * c = B
    <3>1. B \in Nat \ {0}
      BY WordIs, Zenon
    <3> QED BY <2>1, <3>1, PowersPositive, PowersMultiply, Zenon
  <2>3. c = 2 * 2 ^ (WordBits - n - 1) /\ 2 ^ (WordBits - n - 1) \in Nat \ {0}
    BY <2>1, DivisionAssumption, PowersPositive, Zenon
  <2>4. 2 <= c
    <3> HIDE DEF c
    <3> QED BY <2>3
  <2> HIDE DEF B, s, c
  <2>5. s * 2 <= s * c
    BY <2>2, <2>4, Monotone
  <2> QED BY <2>2, <2>5
<1>2. x1 \in 0 .. B - 1 /\ x0 \in 0 .. B - 1 /\ x \in Nat /\ x = B * x1 + x0
  BY Halves, Zenon
<1>3. y \in Doubles /\ y # 0
  BY Zenon DEF Divisors
<1>4. y1 \in Nat /\ y0 \in 0 .. B - 1 /\ y \in Nat \ {0} /\ y = B * y1 + y0
  <2>1. y1 \in 0 .. B - 1 /\ y0 \in 0 .. B - 1 /\ y \in Nat /\ y = B * y1 + y0
    BY <1>3, Halves, Zenon
  <2>2. y1 \in Nat
    <3> HIDE DEF y1, B
    <3> QED BY <1>1, <2>1
  <2> QED BY <1>3, <2>1, <2>2, Zenon
<1>5. /\ y * s \in Nat /\ x * s \in Nat /\ y1 < c /\ c <= 2 * y1
      /\ y * s = (B * y1 + y0) * s /\ x * s = (B * x1 + x0) * s
  <2>1. y * s \in Nat /\ x * s \in Nat
    <3> HIDE DEF s
    <3> QED BY <1>1, <1>2, <1>4
  <2> QED BY <1>2, <1>4, <2>1, Zenon
<1>6. y * s < B * B /\ B <= 2 * ((y * s) \div B) /\ (y * s) % B <= B - s
  <2> HIDE DEF B, s, c, y1, y0
  <2> QED BY <1>1, <1>4, <1>5, ShiftDivisor, Zenon
<1>7. yn = y * s /\ yn \in Doubles
  <2>1. y * s \in Doubles
    <3>1. y * s \in 0 .. B * B - 1
      <4> HIDE DEF B, s
      <4> QED BY <1>1, <1>5, <1>6
    <3> QED BY <3>1, Zenon DEF Doubles
  <2> QED BY <2>1, Fits, Zenon
<1> DEFINE yn1 == HI(yn)
           yn0 == LO(yn)
<1>8. yn1 \in Nat /\ B <= 2 * yn1 /\ yn0 \in Nat /\ yn0 <= B - s /\ yn = B * yn1 + yn0
  <2>1. yn1 \in 0 .. B - 1 /\ yn0 \in 0 .. B - 1 /\ yn = B * yn1 + yn0
    BY <1>7, Halves, Zenon
  <2>2. yn1 \in Nat /\ yn0 \in Nat
    <3> HIDE DEF yn1, yn0, B
    <3> QED BY <1>1, <2>1
  <2>3. B <= 2 * yn1 /\ yn0 <= B - s
    <3>1. yn1 = (y * s) \div B /\ yn0 = (y * s) % B
      <4> HIDE DEF yn
      <4> QED BY <1>7, Zenon DEF HI, LO
    <3> HIDE DEF yn1, yn0
    <3> QED BY <1>6, <3>1, Zenon
  <2> QED BY <2>1, <2>2, <2>3, Zenon
<1>9. /\ x2 \in 0 .. s - 1 /\ xn \in 0 .. B * B - 1
      /\ x * s = (B * B) * x2 + xn
  <2> HIDE DEF B, s, c, x1, x0
  <2>1. /\ x1 \div c \in 0 .. s - 1
        /\ (x * s) % (B * B) \in 0 .. B * B - 1
        /\ x * s = (B * B) * (x1 \div c) + ((x * s) % (B * B))
    <3>1. DividendShifts(B, s, c, x1, x0, x * s)
      BY ONLY ShiftDividend, Zenon
    <3> QED BY <1>1, <1>2, <1>5, <3>1, Zenon DEF DividendShifts
  <2> QED BY <2>1, Zenon DEF x1, c, s, B
<1> DEFINE xn1 == HI(xn)
           xn0 == LO(xn)
<1>10. xn1 \in 0 .. B - 1 /\ xn0 \in 0 .. B - 1 /\ xn = B * xn1 + xn0
  BY <1>9, Halves, Zenon DEF Doubles
<1> DEFINE XH == x2 * B + xn1
           q == est.q
           r == est.r
<1>11. q = XH \div yn1 /\ r = XH % yn1 /\ est.traps = (x2 >= yn1)
  BY Zenon DEF A_DIV32, HILO
<1>12. est.traps = FALSE
  <2>1. (x2 >= yn1) = FALSE
    <3> HIDE DEF x2, yn1, B, s
    <3> QED BY <1>1, <1>8, <1>9
  <2> HIDE DEF est, x2, yn1
  <2> QED BY <1>11, <2>1, Zenon
<1>13. XH \in Nat /\ XH < s * B /\ x * s = B * XH + xn0
  <2> HIDE DEF x2, xn1, xn0, xn, B, s
  <2>1. B * x2 <= B * (s - 1)
    BY <1>1, <1>9, Monotone
  <2>2. x2 * B \in Nat
    BY <1>1, <1>9
  <2>3. XH < s * B
    BY <1>1, <1>9, <1>10, <2>1, <2>2
  <2>4. (B * B) * x2 + (B * xn1 + xn0) = B * (x2 * B + xn1) + xn0
    BY <1>1, <1>9, <1>10
  <2> QED BY <1>1, <1>9, <1>10, <2>2, <2>3, <2>4
<1>14. /\ q \in 0 .. 2 * s - 1
       /\ B * r + xn0 \in 0 .. (B * yn1 + yn0) - 1
       /\ yn0 * q \in 0 .. B * yn1 + yn0
       /\ B * XH + xn0 = q * (B * yn1 + yn0) + (B * r + xn0) - yn0 * q
  <2> HIDE DEF XH, q, r, xn0, yn1, yn0, B, s
  <2>1. EstimateIsNear(B, s, XH, xn0, yn1, yn0, q, r)
    BY ONLY Estimate, Zenon
  <2> QED BY <1>1, <1>8, <1>10, <1>11, <1>13, <2>1, Zenon DEF EstimateIsNear
<1>15. /\ q \in Nat /\ q < B /\ rest \in 0 .. yn - 1 /\ t \in 0 .. yn /\ rest \in Int
       /\ x * s = q * yn + rest - t /\ (t > rest => q # 0) /\ r \in Int
  <2>1. r \in Int
    <3>1. XH \in Int /\ yn1 \in Nat \ {0}
      <4> HIDE DEF XH, yn1, B
      <4> QED BY <1>1, <1>8, <1>13
    <3> HIDE DEF XH, yn1, r
    <3> QED BY <1>11, <3>1, Quotient
  <2>2. rest = B * r + xn0
    <3>1. rest = r * B + xn0
      BY Zenon DEF HILO
    <3> HIDE DEF rest, r, B, xn0
    <3> QED BY <1>1, <1>10, <2>1, <3>1
  <2>3. t = yn0 * q
    BY Zenon
  <2>4. rest \in 0 .. yn - 1 /\ t \in 0 .. yn /\ x * s = q * yn + rest - t
    <3> HIDE DEF rest, t, r, q, B, s, yn, yn0, yn1, xn0, XH
    <3> QED BY <1>8, <1>13, <1>14, <2>2, <2>3, Zenon
  <2>5. yn \in Nat
    <3> HIDE DEF B, yn, yn1, yn0
    <3> QED BY <1>1, <1>8
  <2> HIDE DEF rest, t, r, q, B, s, yn, yn0
  <2>6. q \in Nat /\ q < B
    BY <1>1, <1>14
  <2>7. t > rest => q # 0
    BY <1>8, <2>3, <2>4, <2>5
  <2>8. rest \in Int
    BY <2>4, <2>5
  <2> QED BY <2>1, <2>4, <2>6, <2>7, <2>8, ZenonT(30)
<1> DEFINE k == IF t > rest THEN q - 1 ELSE q
           R == IF t > rest THEN rest - t + yn ELSE rest - t
<1>16. k \in Nat /\ k < B /\ R \in Nat /\ R < y * s /\ x * s = k * (y * s) + R /\ R \in Doubles
  <2>1. y * s \in Nat /\ y * s < B * B
    BY <1>5, <1>6, Zenon
  <2> DEFINE Y == y * s
             Z == x * s
  <2>2. Y \in Nat /\ rest \in 0 .. Y - 1 /\ t \in 0 .. Y /\ Z = q * Y + rest - t
    <3> HIDE DEF rest, t, yn
    <3> QED BY <1>7, <1>15, <2>1, Zenon
  <2>3. yn = Y
    BY <1>7, Zenon
  <2> HIDE DEF rest, t, q, yn, Y, Z
  <2>4. k \in Nat /\ k < B /\ R \in Nat /\ R < Y
    BY <1>1, <1>15, <2>2, <2>3
  <2>5. Z = k * Y + R
    <3>1. CASE t > rest
      <4>1. k = q - 1 /\ R = rest - t + Y
        BY <2>3, <3>1, Zenon
      <4> HIDE DEF k, R
      <4> QED BY <1>15, <2>2, <4>1
    <3>2. CASE ~(t > rest)
      <4>1. k = q /\ R = rest - t
        BY <3>2, Zenon
      <4> HIDE DEF k, R
      <4> QED BY <1>15, <2>2, <4>1, Zenon
    <3> QED BY <3>1, <3>2, Zenon
  <2>6. R \in 0 .. B * B - 1
    <3>1. Y < B * B
      BY <2>1, Zenon DEF Y
    <3> HIDE DEF R, B
    <3> QED BY <1>1, <2>2, <2>4, <3>1
  <2>7. R \in Doubles
    <3> HIDE DEF R
    <3> QED BY <2>6, Zenon DEF Doubles, B
  <2> HIDE DEF k, R, s
  <2> QED BY <2>4, <2>5, <2>7, Zenon DEF Y, Z
<1>17. k = x \div y /\ R \div s = x % y
  <2> HIDE DEF k, R, s
  <2>1. ShiftsBack(s, x, y, k, R)
    BY ONLY ShiftBack, Zenon
  <2> QED BY <1>1, <1>2, <1>4, <1>16, <2>1, Zenon DEF ShiftsBack
<1>18. (IF t > rest THEN (q - 1) % B ELSE q) = k
  <2>1. CASE t > rest
    <3>1. k = q - 1
      BY <2>1, Zenon
    <3>2. B \in Nat \ {0} /\ k \in Nat /\ k < B
      BY <1>1, <1>16, Zenon
    <3> HIDE DEF k, B, q, t, rest
    <3>3. k = B * 0 + k /\ k \in 0 .. B - 1 /\ k \in Int /\ 0 \in Int
      BY ONLY <3>2
    <3>4. k % B = k
      BY ONLY <3>2, <3>3, QuotientIs, Zenon
    <3>5. (q - 1) % B = k
      BY ONLY <3>1, <3>4, Zenon
    <3> QED BY ONLY <2>1, <3>5, Zenon
  <2>2. CASE ~(t > rest)
    BY <2>2, Zenon
  <2> QED BY <2>1, <2>2, Zenon
<1>19. A_SUB2(IF t > rest THEN A_SUB2(yn, t) ELSE t, rest) = R
  <2> DEFINE M == Word * Word
  <2>1. R % M = R /\ M \in Nat \ {0}
    BY <1>16, Fits, WordIs, Zenon
  <2>2. CASE t > rest
    <3> DEFINE d == (t - yn) % M
               p == (t - yn) \div M
    <3>1. yn \in Int /\ t \in Int /\ rest \in Int /\ t - yn \in Int
      <4> HIDE DEF yn, t, rest
      <4>1. yn \in Nat
        BY <1>7, Halves, ZenonT(30)
      <4> QED BY ONLY <1>15, <4>1
    <3>2. t - yn = M * p + d /\ p \in Int /\ d \in Int
      <4> HIDE DEF M, yn, t
      <4> QED BY ONLY <2>1, <3>1, Quotient
    <3>3. R = rest - t + yn
      BY <2>2, Zenon
    <3>4. (rest - d) % M = R
      <4> HIDE DEF M, yn, t, rest, d, p, R
      <4>1. R \in 0 .. M - 1
        BY <1>16, Zenon DEF M, Doubles
      <4>2. rest - d = M * p + R /\ rest - d \in Int
        BY <2>1, <3>1, <3>2, <3>3
      <4> QED BY <2>1, <3>2, <4>1, <4>2, QuotientIs, Zenon
    <3>5. A_SUB2(yn, t) = d
      BY Zenon DEF A_SUB2
    <3> HIDE DEF yn, t, rest, d, R
    <3> QED BY <2>2, <3>4, <3>5, ZenonT(30) DEF A_SUB2
  <2>3. CASE ~(t > rest)
    <3>1. R = rest - t
      BY <2>3, Zenon
    <3> HIDE DEF R, t, rest, yn
    <3> QED BY <2>1, <2>3, <3>1, Zenon DEF A_SUB2
  <2> QED BY <2>2, <2>3, Zenon
<1>20. DivideNormalized(x, y, n) =
         [q |-> IF t > rest THEN (q - 1) % B ELSE q,
          r |-> A_SUB2(IF t > rest THEN A_SUB2(yn, t) ELSE t, rest) \div s, traps |-> est.traps]
  BY Zenon DEF DivideNormalized
<1> HIDE DEF est, t, rest, q, yn, s, k, R, B
<1> QED BY <1>12, <1>17, <1>18, <1>19, <1>20, Zenon

\* UDivRem() divides whole numbers: the case is chosen by the divisor's high word
\* and by how many bits it has.
LEMMA UnsignedQuotient ==
  ASSUME NEW x \in Doubles, NEW y \in Divisors
  PROVE  UDivRem(x, y) = [q |-> x \div y, r |-> x % y, traps |-> FALSE]
<1> DEFINE x1 == HI(x)
           x0 == LO(x)
           y1 == HI(y)
           y0 == LO(y)
           b == HIBIT(HI(y))
           n == WordBits - 1 - HIBIT(HI(y))
<1>1. Word \in Nat \ {0, 1}
  BY WordIs, Zenon
<1>2. x1 \in 0 .. Word - 1 /\ x0 \in 0 .. Word - 1 /\ x \in Nat /\ x = Word * x1 + x0
  BY Halves, Zenon
<1>3. y \in Doubles /\ y # 0
  BY Zenon DEF Divisors
<1>4. y1 \in 0 .. Word - 1 /\ y0 \in 0 .. Word - 1 /\ y \in Nat /\ y = Word * y1 + y0
  BY <1>3, Halves, Zenon
<1>5. y \in Nat \ {0} /\ x \in Int
  BY <1>2, <1>3, <1>4
<1>6. CASE y1 = 0
  <2>1. UDivRem(x, y) = DivideByWord(x, y)
    BY <1>6, Zenon DEF UDivRem
  <2> QED BY <1>6, <2>1, ByWord, Zenon
<1>7. ASSUME x < y PROVE x \div y = 0 /\ x % y = x
  <2>1. x = y * 0 + x /\ x \in 0 .. y - 1 /\ 0 \in Int
    BY <1>2, <1>5, <1>7
  <2> QED BY ONLY <1>5, <2>1, QuotientIs, Zenon
<1>8. CASE y1 # 0 /\ x1 < y1
  <2>1. UDivRem(x, y) = [q |-> 0, r |-> x, traps |-> FALSE]
    BY <1>8, Zenon DEF UDivRem
  <2>2. x < y
    <3> HIDE DEF x1, x0, y1, y0
    <3>1. Word * (x1 + 1) <= Word * y1
      BY <1>1, <1>2, <1>4, <1>8, Monotone
    <3> QED BY <1>1, <1>2, <1>4, <3>1
  <2> QED BY <1>7, <2>1, <2>2, Zenon
<1>9. ASSUME y1 # 0
      PROVE  /\ b \in 0 .. WordBits - 1 /\ y1 < 2 ^ (b + 1) /\ 2 ^ (b + 1) <= 2 * y1
             /\ n = WordBits - 1 - b
  <2>1. y1 \in 1 .. Word - 1
    <3> HIDE DEF y1
    <3> QED BY <1>1, <1>4, <1>9
  <2>2. b \in 0 .. WordBits - 1 /\ 2 ^ b <= y1 /\ y1 < 2 ^ (b + 1)
    BY <2>1, HighBit, Zenon
  <2> HIDE DEF b, y1
  <2>3. b \in 0 .. WordBits
    BY <2>2, DivisionAssumption
  <2>4. 2 ^ (b + 1) = 2 * 2 ^ b /\ 2 ^ b \in Nat \ {0}
    BY <2>2, <2>3, DivisionAssumption, PowersPositive, Zenon
  <2>5. 2 ^ (b + 1) <= 2 * y1
    BY <1>1, <2>1, <2>2, <2>4
  <2> QED BY <2>2, <2>5, Zenon DEF b
<1>10. CASE y1 # 0 /\ ~(x1 < y1) /\ n # 0
  <2>1. UDivRem(x, y) = DivideNormalized(x, y, n)
    BY <1>10, Zenon DEF UDivRem
  <2>2. n \in 1 .. WordBits - 1 /\ WordBits - n = b + 1
    <3>1. b \in 0 .. WordBits - 1 /\ n = WordBits - 1 - b
      BY <1>9, <1>10, Zenon
    <3> HIDE DEF b, n
    <3> QED BY <1>10, <3>1, DivisionAssumption
  <2>3. HI(y) < 2 ^ (WordBits - n) /\ 2 ^ (WordBits - n) <= 2 * HI(y)
    <3> HIDE DEF b, n
    <3> QED BY <1>9, <1>10, <2>2, Zenon DEF y1
  <2> HIDE DEF n
  <2> QED BY <2>1, <2>2, <2>3, ByShift, Zenon
<1>11. CASE y1 # 0 /\ ~(x1 < y1) /\ n = 0
  <2>1. Word <= 2 * y1
    <3>1. b \in 0 .. WordBits - 1 /\ 2 ^ (b + 1) <= 2 * y1 /\ n = WordBits - 1 - b
      BY <1>9, <1>11, Zenon
    <3>2. b + 1 = WordBits
      <4> HIDE DEF b, n
      <4> QED BY <1>11, <3>1, DivisionAssumption
    <3> HIDE DEF b, y1
    <3> QED BY <3>1, <3>2, Zenon DEF Word
  <2>2. CASE x1 > y1 \/ x0 >= y0
    <3>1. UDivRem(x, y) = [q |-> 1, r |-> A_SUB2(y, x), traps |-> FALSE]
      BY <1>11, <2>2, Zenon DEF UDivRem
    <3> HIDE DEF x1, x0, y1, y0, n
    <3>2. y <= x
      <4>1. CASE x1 > y1
        <5>1. Word * (y1 + 1) <= Word * x1
          BY <1>1, <1>2, <1>4, <4>1, Monotone
        <5> QED BY <1>1, <1>2, <1>4, <5>1
      <4>2. CASE ~(x1 > y1)
        <5>1. x1 = y1 /\ x0 >= y0
          BY <1>1, <1>2, <1>4, <1>11, <2>2, <4>2
        <5> QED BY <1>1, <1>2, <1>4, <5>1
      <4> QED BY <4>1, <4>2, Zenon
    <3>3. x < 2 * y
      <4>1. Word * Word <= Word * (2 * y1)
        BY <1>1, <1>4, <2>1, Monotone
      <4>2. x < Word * Word
        BY WordIs DEF Doubles
      <4> QED BY <1>1, <1>2, <1>4, <4>1, <4>2
    <3>4. x = y * 1 + (x - y) /\ x - y \in 0 .. y - 1 /\ 1 \in Int /\ x - y \in Doubles
      <4>1. x = y * 1 + (x - y) /\ x - y \in 0 .. y - 1 /\ 1 \in Int
        BY <1>2, <1>5, <3>2, <3>3
      <4>2. x - y \in Doubles
        BY <1>5, <3>2, WordIs DEF Doubles
      <4> QED BY <4>1, <4>2, Zenon
    <3>5. x \div y = 1 /\ x % y = x - y
      <4> DEFINE d == x - y
      <4>1. x = y * 1 + d /\ d \in 0 .. y - 1 /\ 1 \in Int
        BY <3>4, Zenon
      <4> HIDE DEF d
      <4>2. x \div y = 1 /\ x % y = d
        BY ONLY <1>5, <4>1, QuotientIs, Zenon
      <4> QED BY <4>2, Zenon DEF d
    <3>6. A_SUB2(y, x) = x - y
      BY <3>4, Fits, Zenon DEF A_SUB2
    <3> QED BY <3>1, <3>5, <3>6, Zenon
  <2>3. CASE ~(x1 > y1 \/ x0 >= y0)
    <3>1. UDivRem(x, y) = [q |-> 0, r |-> x, traps |-> FALSE]
      BY <1>11, <2>3, Zenon DEF UDivRem
    <3>2. x < y
      <4> HIDE DEF x1, x0, y1, y0, n
      <4>1. x1 = y1 /\ x0 < y0
        BY <1>1, <1>2, <1>4, <1>11, <2>3
      <4> QED BY <1>1, <1>2, <1>4, <4>1
    <3> QED BY <1>7, <3>1, <3>2, Zenon
  <2> QED BY <2>2, <2>3, Zenon
<1> QED BY <1>6, <1>8, <1>10, <1>11, Zenon

\* The unsigned divisions divide, for registers of any width: the correction of
\* the quotient by one is enough, and no divl traps.
THEOREM UnsignedDivisionIsRight == udivrem64 => UDivRemDivides'
<1> SUFFICES ASSUME udivrem64 PROVE UDivRemDivides'
  BY Zenon
<1>1. PICK x \in Doubles :
        computed' = [call |-> "udivrem", x |-> x, result |-> [y \in Divisors |-> UDivRem(x, y)]]
  BY Zenon DEF udivrem64
<1>2. computed'.x = x /\ \A y \in Divisors : computed'.result[y] = UDivRem(x, y)
  BY <1>1, Zenon
<1>3. \A y \in Divisors :
        computed'.result[y] = [q |-> computed'.x \div y, r |-> computed'.x % y, traps |-> FALSE]
  BY <1>2, UnsignedQuotient, Zenon
<1> QED BY <1>3, Zenon DEF UDivRemDivides

-----------------------------------------------------------------------------
\* The number of double words is even.
LEMMA WordEven == (Word * Word) % 2 = 0
<1>1. WordBits - 1 \in 0 .. WordBits - 1 /\ WordBits - 1 \in 0 .. WordBits /\ (WordBits - 1) + 1 = WordBits
  BY DivisionAssumption
<1> DEFINE h == 2 ^ (WordBits - 1)
<1>2. Word = 2 * h /\ h \in Nat \ {0}
  BY <1>1, DivisionAssumption, PowersPositive, Zenon DEF Word
<1> HIDE DEF h
<1>3. Word * Word = 2 * (h * Word) /\ h * Word \in Int
  BY <1>2
<1> QED BY <1>3

\* The sign bit divides the double words in two halves.
LEMMA SignBit ==
  ASSUME NEW x \in Doubles
  PROVE  Negative(x) <=> Word * Word <= 2 * x
<1> DEFINE x1 == HI(x)
           x0 == LO(x)
           h == 2 ^ (WordBits - 1)
<1>1. x1 \in 0 .. Word - 1 /\ x0 \in 0 .. Word - 1 /\ x \in Nat /\ x = Word * x1 + x0
  BY Halves, Zenon
<1>2. Word = 2 * h /\ h \in Nat \ {0}
  <2>1. WordBits - 1 \in 0 .. WordBits - 1 /\ WordBits - 1 \in 0 .. WordBits /\ (WordBits - 1) + 1 = WordBits
    BY DivisionAssumption
  <2> QED BY <2>1, DivisionAssumption, PowersPositive, Zenon DEF Word
<1>3. Word \in Nat \ {0} /\ Word \div 2 = h
  <2> HIDE DEF h
  <2> QED BY <1>2
<1>4. Negative(x) <=> x1 >= h
  BY <1>3, Zenon DEF Negative
<1> HIDE DEF x1, x0, h
<1>5. ASSUME x1 >= h PROVE Word * Word <= 2 * x
  <2>1. Word * h <= Word * x1
    BY <1>1, <1>2, <1>3, <1>5, Monotone
  <2>2. Word * Word = 2 * (Word * h)
    BY <1>2
  <2> QED BY <1>1, <1>2, <1>3, <2>1, <2>2
<1>6. ASSUME ~(x1 >= h) PROVE ~(Word * Word <= 2 * x)
  <2>1. Word * (x1 + 1) <= Word * h
    BY <1>1, <1>2, <1>3, <1>6, Monotone
  <2>2. Word * Word = 2 * (Word * h)
    BY <1>2
  <2> QED BY <1>1, <1>2, <1>3, <2>1, <2>2
<1> QED BY <1>4, <1>5, <1>6, Zenon

\* The magnitude of a number, and the number it is the magnitude of.
LEMMA MagnitudeIs ==
  ASSUME NEW x \in Doubles
  PROVE  /\ Magnitude(x) \in Nat /\ Magnitude(x) \in Doubles /\ 2 * Magnitude(x) <= Word * Word
         /\ Magnitude(x) = 0 <=> x = 0
         /\ Negative(x) => SignedOf(x) = -Magnitude(x) /\ Magnitude(x) # 0
         /\ ~Negative(x) => SignedOf(x) = Magnitude(x) /\ 2 * Magnitude(x) < Word * Word
<1> DEFINE M == Word * Word
<1>1. M \in Nat \ {0} /\ x \in 0 .. M - 1 /\ Doubles = 0 .. M - 1
  BY WordIs, Zenon DEF Doubles
<1>2. Negative(x) <=> M <= 2 * x
  BY SignBit, Zenon
<1>3. CASE Negative(x)
  <2>1. M - x \in Doubles /\ x > 0
    <3> HIDE DEF M
    <3> QED BY <1>1, <1>2, <1>3
  <2>2. Neg(x) = M - x
    <3>1. -x = M * (-1) + (M - x) /\ M - x \in 0 .. M - 1 /\ -x \in Int /\ -1 \in Int
      <4> HIDE DEF M
      <4> QED BY <1>1, <1>2, <1>3
    <3>2. (-x) % M = M - x
      <4> DEFINE d == M - x
                 m == -x
      <4>1. m = M * (-1) + d /\ d \in 0 .. M - 1 /\ m \in Int /\ -1 \in Int
        BY <3>1, Zenon
      <4> HIDE DEF d, m, M
      <4>2. m % M = d
        BY ONLY <1>1, <4>1, QuotientIs, Zenon
      <4> QED BY <4>2, Zenon DEF d, m
    <3> QED BY <3>2, Zenon DEF Neg
  <2>3. Magnitude(x) = M - x /\ SignedOf(x) = x - M
    BY <1>3, <2>2, Zenon DEF Magnitude, SignedOf
  <2> HIDE DEF M
  <2>4. M - x \in Nat /\ 2 * (M - x) <= M /\ M - x # 0 /\ x # 0 /\ x - M = -(M - x)
    BY <1>1, <1>2, <1>3
  <2> QED BY <1>3, <2>1, <2>3, <2>4, Zenon DEF M
<1>4. CASE ~Negative(x)
  <2>1. Magnitude(x) = x /\ SignedOf(x) = x
    BY <1>4, Zenon DEF Magnitude, SignedOf
  <2>2. x \in Nat /\ 2 * x < M /\ 2 * x <= M
    <3> HIDE DEF M
    <3> QED BY <1>1, <1>2, <1>4
  <2> QED BY <1>4, <2>1, <2>2, Zenon
<1> QED BY <1>3, <1>4, Zenon

\* A magnitude with a minus sign.
LEMMA NegatedIs ==
  ASSUME NEW a \in Nat, 2 * a <= Word * Word
  PROVE  Neg(a) \in Doubles /\ SignedOf(Neg(a)) = -a /\ (2 * a < Word * Word => Magnitude(Neg(a)) = a)
<1> DEFINE M == Word * Word
<1>1. M \in Nat \ {0} /\ Doubles = 0 .. M - 1
  BY WordIs, Zenon DEF Doubles
<1>2. CASE a = 0
  <2>1. 0 \in Doubles /\ -a = 0
    <3>1. 0 \in 0 .. M - 1
      <4> HIDE DEF M
      <4> QED BY <1>1
    <3>2. -a = 0
      <4>1. -a = 0 - a
        OBVIOUS
      <4>2. 0 - a = 0
        BY <1>2
      <4> QED BY <4>1, <4>2, Zenon
    <3> QED BY <1>1, <3>1, <3>2, Zenon
  <2>2. Neg(a) = 0
    BY <2>1, Fits, Zenon DEF Neg
  <2>3. ~(M <= 2 * 0)
    <3> HIDE DEF M
    <3> QED BY <1>1
  <2>4. ~Negative(0)
    BY <2>1, <2>3, SignBit, Zenon
  <2>5. SignedOf(0) = 0 /\ Magnitude(0) = 0
    BY <2>4, Zenon DEF SignedOf, Magnitude
  <2> QED BY <1>2, <2>1, <2>2, <2>5, Zenon
<1>3. CASE a # 0
  <2> DEFINE d == M - a
             m == -a
  <2>1. /\ m = M * (-1) + d /\ d \in 0 .. M - 1 /\ m \in Int /\ -1 \in Int /\ M <= 2 * d
        /\ d - M = -a
    <3>1. 2 * a <= M
      BY Zenon
    <3> HIDE DEF M
    <3> QED BY <1>1, <1>3, <3>1
  <2>2. m % M = d
    <3> HIDE DEF d, m, M
    <3> QED BY ONLY <1>1, <2>1, QuotientIs, Zenon
  <2>3. Neg(a) = d
    <3> HIDE DEF d
    <3> QED BY <2>2, Zenon DEF Neg
  <2>4. d \in Doubles
    <3> HIDE DEF d, M
    <3> QED BY <1>1, <2>1, Zenon
  <2>5. Negative(d)
    <3> HIDE DEF d
    <3> QED BY <2>1, <2>4, SignBit, Zenon
  <2>6. SignedOf(d) = -a
    <3> HIDE DEF d
    <3> QED BY <2>1, <2>5, Zenon DEF SignedOf
  <2>7. Magnitude(d) = a
    <3>1. SignedOf(d) = -Magnitude(d) /\ Magnitude(d) \in Nat
      <4> HIDE DEF d
      <4> QED BY <2>4, <2>5, MagnitudeIs, Zenon
    <3> HIDE DEF d
    <3> QED BY <2>6, <3>1
  <2> HIDE DEF d
  <2> QED BY <2>3, <2>4, <2>6, <2>7, Zenon
<1> QED BY <1>2, <1>3, Zenon

\* A magnitude with a plus sign, and the one that is too large for it.
LEMMA PositiveIs ==
  ASSUME NEW a \in Nat, 2 * a <= Word * Word
  PROVE  /\ 2 * a < Word * Word => SignedOf(a) = a /\ Magnitude(a) = a
         /\ 2 * a = Word * Word => SignedOf(a) = -a
<1> DEFINE M == Word * Word
<1>1. M \in Nat \ {0} /\ Doubles = 0 .. M - 1
  BY WordIs, Zenon DEF Doubles
<1>2. a \in Doubles
  <2>1. 2 * a <= M
    BY Zenon
  <2> HIDE DEF M
  <2> QED BY <1>1, <2>1
<1>3. ASSUME 2 * a < M PROVE SignedOf(a) = a /\ Magnitude(a) = a
  <2>1. ~(M <= 2 * a)
    <3> HIDE DEF M
    <3> QED BY <1>1, <1>3
  <2>2. ~Negative(a)
    BY <1>2, <2>1, SignBit, Zenon
  <2> QED BY <2>2, Zenon DEF SignedOf, Magnitude
<1>4. ASSUME 2 * a = M PROVE SignedOf(a) = -a
  <2>1. M <= 2 * a /\ a - M = -a
    <3> HIDE DEF M
    <3> QED BY <1>1, <1>4
  <2>2. Negative(a)
    BY <1>2, <2>1, SignBit, Zenon
  <2> QED BY <2>1, <2>2, Zenon DEF SignedOf
<1> QED BY <1>3, <1>4, Zenon

\* SDivRem() on the magnitudes, with the signs put back.
LEMMA SignedQuotient ==
  ASSUME NEW x \in Doubles, NEW d \in Divisors
  PROVE  TruncatesTo(x, d, SDivRem(x, d))
<1> DEFINE M == Word * Word
           result == SDivRem(x, d)
           ax == Magnitude(x)
           ad == Magnitude(d)
           sx == SignedOf(x)
           sd == SignedOf(d)
           Q == ax \div ad
           R == ax % ad
           q == SignedOf(result.q)
           r == SignedOf(result.r)
<1>1. M \in Nat \ {0}
  BY WordIs, Zenon
<1>2. d \in Doubles /\ d # 0
  BY Zenon DEF Divisors
<1>3. /\ ax \in Nat /\ ax \in Doubles /\ 2 * ax <= M
      /\ Negative(x) => sx = -ax /\ ax # 0
      /\ ~Negative(x) => sx = ax /\ 2 * ax < M
  BY MagnitudeIs, Zenon
<1>4. /\ ad \in Nat \ {0} /\ ad \in Divisors /\ 2 * ad <= M
      /\ Negative(d) => sd = -ad
      /\ ~Negative(d) => sd = ad
  <2>1. /\ ad \in Nat /\ ad \in Doubles /\ 2 * ad <= M /\ (ad = 0 <=> d = 0)
        /\ Negative(d) => sd = -ad
        /\ ~Negative(d) => sd = ad
    BY <1>2, MagnitudeIs, Zenon
  <2>2. ad \in Nat \ {0} /\ ad \in Divisors
    <3> HIDE DEF ad
    <3> QED BY <1>2, <2>1, Zenon DEF Divisors
  <2> QED BY <2>1, <2>2, Zenon
<1>5. UDivRem(ax, ad) = [q |-> Q, r |-> R, traps |-> FALSE]
  <2> HIDE DEF ax, ad
  <2> QED BY <1>3, <1>4, UnsignedQuotient, Zenon
<1>6. /\ result.traps = FALSE
      /\ result.q = (IF Negative(x) # Negative(d) THEN Neg(Q) ELSE Q)
      /\ result.r = (IF Negative(x) THEN Neg(R) ELSE R)
  <2> DEFINE u == UDivRem(ax, ad)
  <2>1. result = [q |-> IF Negative(x) # Negative(d) THEN Neg(u.q) ELSE u.q,
                  r |-> IF Negative(x) THEN Neg(u.r) ELSE u.r, traps |-> u.traps]
    BY Zenon DEF SDivRem
  <2>2. u.q = Q /\ u.r = R /\ u.traps = FALSE
    <3> HIDE DEF Q, R, ax, ad
    <3>1. u = [q |-> Q, r |-> R, traps |-> FALSE]
      BY <1>5, Zenon
    <3> HIDE DEF u
    <3> QED BY <3>1, Zenon
  <2> HIDE DEF u, Q, R, result
  <2> QED BY <2>1, <2>2, Zenon
<1>0. Negative(x) \in BOOLEAN /\ Negative(d) \in BOOLEAN
  <2>1. \A a, b \in Int : (a >= b) \in BOOLEAN
    OBVIOUS
  <2>2. HI(x) \in Int /\ HI(d) \in Int /\ Word \div 2 \in Int
    BY <1>2, Halves, WordIs
  <2> QED BY <2>1, <2>2, Zenon DEF Negative
<1> HIDE DEF result
<1>7. Q \in Nat /\ R \in 0 .. ad - 1 /\ ax = ad * Q + R
  <2>1. ax \in Int
    <3> HIDE DEF ax
    <3> QED BY <1>3
  <2> HIDE DEF ax, ad
  <2> QED BY <1>3, <1>4, <2>1, Quotient, QuotientNat, Zenon
<1> HIDE DEF ax, ad, Q, R, M
<1>8. Q <= ad * Q
  <2>1. Q * 1 <= Q * ad
    BY <1>4, <1>7, Monotone
  <2> QED BY <1>4, <1>7, <2>1
<1>9. 2 * Q <= M /\ R \in Nat /\ 2 * R < M /\ R < ad
  <2>1. ad * Q \in Nat
    BY <1>4, <1>7
  <2> QED BY <1>1, <1>3, <1>4, <1>7, <1>8, <2>1
<1>10. /\ Negative(x) => r = -R
       /\ ~Negative(x) => r = R
       /\ Magnitude(result.r) = R
  <2>1. 2 * R <= Word * Word /\ 2 * R < Word * Word
    BY <1>1, <1>9 DEF M
  <2>2. CASE Negative(x)
    BY <1>6, <1>9, <2>1, <2>2, NegatedIs, Zenon
  <2>3. CASE ~Negative(x)
    BY <1>6, <1>9, <2>1, <2>3, PositiveIs, Zenon
  <2> QED BY <2>2, <2>3, Zenon
<1>11. /\ Negative(x) # Negative(d) => q = -Q
       /\ Negative(x) = Negative(d) => (2 * Q < M => q = Q) /\ (2 * Q = M => q = -Q)
  <2>1. 2 * Q <= Word * Word
    BY <1>9, Zenon DEF M
  <2>2. CASE Negative(x) # Negative(d)
    BY <1>6, <1>7, <2>1, <2>2, NegatedIs, Zenon
  <2>3. CASE Negative(x) = Negative(d)
    BY <1>6, <1>7, <2>1, <2>3, PositiveIs, Zenon DEF M
  <2> QED BY <2>2, <2>3, Zenon
<1>12. /\ ~result.traps
       /\ Magnitude(result.r) < ad
       /\ r # 0 => (r < 0 <=> sx < 0)
  <2> HIDE DEF r, sx
  <2>1. Magnitude(result.r) < ad
    BY <1>9, <1>10, Zenon
  <2>2. CASE Negative(x)
    <3>1. r = -R /\ sx = -ax /\ ax # 0
      BY <1>3, <1>10, <2>2, Zenon
    <3>2. r # 0 => (r < 0 <=> sx < 0)
      BY <1>3, <1>9, <3>1
    <3> QED BY <1>6, <2>1, <3>2, Zenon
  <2>3. CASE ~Negative(x)
    <3>1. r = R /\ sx = ax
      BY <1>3, <1>10, <2>3, Zenon
    <3>2. r # 0 => (r < 0 <=> sx < 0)
      BY <1>3, <1>9, <3>1
    <3> QED BY <1>6, <2>1, <3>2, Zenon
  <2> QED BY <2>2, <2>3, Zenon
<1> DEFINE wraps == sd = -1 /\ sx = -(M \div 2)
\* The quotient of the magnitudes is half the double words only for the most
\* negative number and the divisor 1 or -1.
<1>13. ASSUME 2 * Q = M, Negative(x) = Negative(d)
       PROVE  wraps
  <2>1. ax = Q /\ ad * Q = Q
    <3>1. ad * Q \in Nat
      BY <1>4, <1>7
    <3> QED BY <1>3, <1>7, <1>8, <1>9, <1>13, <3>1
  <2>2. Q # 0
    BY <1>1, <1>13
  <2>3. ad = 1
    <3>1. CASE ad >= 2
      <4>1. Q * 2 <= Q * ad
        BY <1>4, <1>7, <3>1, Monotone
      <4> QED BY <1>4, <1>7, <2>1, <2>2, <4>1
    <3> QED BY <1>4, <3>1
  <2>4. Negative(x) /\ Negative(d)
    <3>1. ~(2 * ax < M)
      BY <1>1, <1>7, <1>13, <2>1
    <3> QED BY <1>3, <1>13, <3>1, Zenon
  <2>5. sd = -ad /\ sx = -ax
    BY <1>3, <1>4, <2>4, Zenon
  <2>6. M \div 2 = Q
    BY <1>1, <1>7, <1>13
  <2> HIDE DEF sd, sx
  <2>7. sd = -1 /\ sx = -(M \div 2)
    BY <2>1, <2>3, <2>5, <2>6, Zenon
  <2> QED BY <2>7, Zenon
<1>14. ASSUME wraps PROVE q = sx /\ r = 0
  <2> HIDE DEF q, r, sx, sd
  <2>1. M \div 2 \in Nat \ {0}
    <3>1. M % 2 = 0
      BY WordEven, Zenon DEF M
    <3> QED BY <1>1, <3>1
  <2>2. Negative(x) /\ sx = -ax
    BY <1>3, <1>14, <2>1
  <2>3. Negative(d) /\ sd = -ad
    BY <1>4, <1>14
  <2>4. ad = 1 /\ ax = M \div 2
    BY <1>3, <1>4, <1>14, <2>1, <2>2, <2>3
  <2>5. R = 0 /\ Q = ax
    BY <1>3, <1>4, <1>7, <2>4
  <2>6. r = 0
    <3>1. -R = 0 - R
      BY <1>9
    <3>2. 0 - R = 0
      BY <2>5
    <3> QED BY <1>10, <2>2, <3>1, <3>2, Zenon
  <2>7. q = -Q
    <3>1. 2 * Q = M
      <4>1. M % 2 = 0
        BY WordEven, Zenon DEF M
      <4> QED BY <1>1, <2>4, <2>5, <4>1
    <3> QED BY <1>11, <2>2, <2>3, <3>1, Zenon
  <2> QED BY <2>2, <2>5, <2>6, <2>7, Zenon
<1>15. ASSUME ~wraps PROVE sx = q * sd + r
  <2> HIDE DEF q, r, sx, sd, wraps
  <2>1. ~(2 * Q = M /\ Negative(x) = Negative(d))
    BY <1>13, <1>15, Zenon
  <2>2. CASE Negative(x) /\ Negative(d)
    <3>1. 2 * Q < M
      BY <1>1, <1>7, <1>9, <2>1, <2>2
    <3>2. sx = -ax /\ sd = -ad /\ q = Q /\ r = -R
      BY <1>3, <1>4, <1>10, <1>11, <2>2, <3>1, Zenon
    <3>3. -ax = Q * (-ad) + (-R)
      BY <1>4, <1>7
    <3> QED BY <3>2, <3>3, Zenon
  <2>3. CASE Negative(x) /\ ~Negative(d)
    <3>1. sx = -ax /\ sd = ad /\ q = -Q /\ r = -R
      BY <1>3, <1>4, <1>10, <1>11, <2>3, Zenon
    <3>2. -ax = (-Q) * ad + (-R)
      BY <1>4, <1>7
    <3> QED BY <3>1, <3>2, Zenon
  <2>4. CASE ~Negative(x) /\ Negative(d)
    <3>1. sx = ax /\ sd = -ad /\ q = -Q /\ r = R
      BY <1>3, <1>4, <1>10, <1>11, <2>4, Zenon
    <3>2. ax = (-Q) * (-ad) + R
      BY <1>4, <1>7
    <3> QED BY <3>1, <3>2, Zenon
  <2>5. CASE ~Negative(x) /\ ~Negative(d)
    <3>0. Negative(x) = Negative(d)
      BY <1>0, <2>5, Zenon
    <3>1. 2 * Q < M
      BY <1>1, <1>7, <1>9, <2>1, <3>0
    <3>2. sx = ax /\ sd = ad /\ q = Q /\ r = R
      BY <1>3, <1>4, <1>10, <1>11, <2>5, <3>0, <3>1, Zenon
    <3>3. ax = Q * ad + R
      BY <1>4, <1>7
    <3> QED BY <3>2, <3>3, Zenon
  <2> QED BY <2>2, <2>3, <2>4, <2>5, Zenon
<1> HIDE DEF wraps, sx, sd, q, r
<1>16. IF wraps THEN q = sx /\ r = 0 ELSE sx = q * sd + r
  BY <1>14, <1>15, Zenon
<1> QED BY <1>12, <1>16, Zenon DEF TruncatesTo, wraps, sx, sd, q, r, result, ad, M

\* The signed divisions truncate towards zero, for registers of any width, and
\* wrap only for the most negative number divided by -1.
THEOREM SignedDivisionTruncates == divrem64 => SDivRemTruncates'
<1> SUFFICES ASSUME divrem64 PROVE SDivRemTruncates'
  BY Zenon
<1>1. PICK x \in Doubles :
        computed' = [call |-> "divrem", x |-> x, result |-> [y \in Divisors |-> SDivRem(x, y)]]
  BY Zenon DEF divrem64
<1>2. computed'.x = x /\ \A y \in Divisors : computed'.result[y] = SDivRem(x, y)
  BY <1>1, Zenon
<1> QED BY <1>2, SignedQuotient, Zenon DEF SDivRemTruncates

\* UDiv() takes the same decisions as UDivRem().
LEMMA SameQuotient ==
  ASSUME NEW x \in Doubles, NEW y \in Divisors
  PROVE  UDiv(x, y) = [q |-> UDivRem(x, y).q, traps |-> UDivRem(x, y).traps]
<1> DEFINE n == WordBits - 1 - HIBIT(HI(y))
<1>1. CASE HI(y) = 0
  <2>1. UDivRem(x, y) = DivideByWord(x, y)
    BY <1>1, Zenon DEF UDivRem
  <2> QED BY <1>1, <2>1, Zenon DEF UDiv
<1>2. CASE HI(y) # 0 /\ HI(x) < HI(y)
  BY <1>2, Zenon DEF UDiv, UDivRem
<1>3. CASE HI(y) # 0 /\ ~(HI(x) < HI(y)) /\ n # 0
  <2>1. UDivRem(x, y) = DivideNormalized(x, y, n)
    BY <1>3, Zenon DEF UDivRem
  <2> DEFINE yn == (y * 2 ^ n) % (Word * Word)
             xn == (x * 2 ^ n) % (Word * Word)
             est == A_DIV32(HI(xn), HI(x) \div 2 ^ (WordBits - n), HI(yn))
             high == LO(yn) * est.q > HILO(est.r, LO(xn))
             q == IF high THEN (est.q - 1) % Word ELSE est.q
             t == LO(yn) * est.q
             r == A_SUB2(IF high THEN A_SUB2(yn, t) ELSE t, HILO(est.r, LO(xn))) \div 2 ^ n
  <2>2. UDiv(x, y) = [q |-> q, traps |-> est.traps]
    BY <1>3, Zenon DEF UDiv
  <2>3. DivideNormalized(x, y, n) = [q |-> q, r |-> r, traps |-> est.traps]
    BY Zenon DEF DivideNormalized
  <2> HIDE DEF q, r, est, n
  <2>4. UDivRem(x, y) = [q |-> q, r |-> r, traps |-> est.traps]
    BY <2>1, <2>3, Zenon
  <2> QED BY ONLY <2>2, <2>4
<1>4. CASE HI(y) # 0 /\ ~(HI(x) < HI(y)) /\ ~(n # 0)
  BY <1>4, Zenon DEF UDiv, UDivRem
<1> QED BY <1>1, <1>2, <1>3, <1>4, Zenon

\* SDiv() and SRem() together give what SDivRem() gives.
LEMMA SignedParts ==
  ASSUME NEW x \in Doubles, NEW d \in Divisors
  PROVE  [q |-> SDiv(x, d).q, r |-> SRem(x, d).r, traps |-> SDiv(x, d).traps \/ SRem(x, d).traps]
           = SDivRem(x, d)
<1> DEFINE u == UDivRem(Magnitude(x), Magnitude(d))
           v == UDiv(Magnitude(x), Magnitude(d))
<1>1. v.q = u.q /\ v.traps = u.traps /\ u.traps = FALSE
  <2>1. d \in Doubles /\ d # 0
    BY Zenon DEF Divisors
  <2>2. Magnitude(x) \in Doubles /\ Magnitude(d) \in Divisors
    BY <2>1, MagnitudeIs, Zenon DEF Divisors
  <2>3. v = [q |-> u.q, traps |-> u.traps]
    BY <2>2, SameQuotient, Zenon
  <2>4. u = [q |-> Magnitude(x) \div Magnitude(d), r |-> Magnitude(x) % Magnitude(d), traps |-> FALSE]
    BY <2>2, UnsignedQuotient, Zenon
  <2> HIDE DEF u, v
  <2> QED BY ONLY <2>3, <2>4
<1> DEFINE q == IF Negative(x) # Negative(d) THEN Neg(u.q) ELSE u.q
           r == IF Negative(x) THEN Neg(u.r) ELSE u.r
<1>2. SDiv(x, d) = [q |-> IF Negative(x) # Negative(d) THEN Neg(v.q) ELSE v.q, traps |-> v.traps]
  BY Zenon DEF SDiv
<1>3. SRem(x, d) = [r |-> r, traps |-> u.traps]
  BY Zenon DEF SRem
<1>4. SDivRem(x, d) = [q |-> q, r |-> r, traps |-> u.traps]
  BY Zenon DEF SDivRem
<1> HIDE DEF u, v
<1>5. SDiv(x, d) = [q |-> q, traps |-> FALSE]
  BY <1>1, <1>2, Zenon
<1> HIDE DEF q, r
<1>6. SDiv(x, d).q = q /\ SDiv(x, d).traps = FALSE
  BY ONLY <1>5
<1>7. SRem(x, d).r = r /\ SRem(x, d).traps = FALSE
  BY ONLY <1>1, <1>3
<1>8. (SDiv(x, d).traps \/ SRem(x, d).traps) = FALSE
  BY <1>6, <1>7, Zenon
<1> QED BY <1>1, <1>4, <1>6, <1>7, <1>8, Zenon

\* The routines that return one result alone are right as well, for registers
\* of any width: UDiv() has the quotient of UDivRem(), and the quotient and the
\* remainder of the signed routines are those of one division.
THEOREM SingleResultsAreRight == single64 => SingleResultsAgree'
<1> SUFFICES ASSUME single64 PROVE SingleResultsAgree'
  BY Zenon
<1>1. PICK x \in Doubles :
        computed' = [call |-> "single", x |-> x, result |->
          [y \in Divisors |-> [udiv |-> UDiv(x, y), div |-> SDiv(x, y), rem |-> SRem(x, y)]]]
  BY Zenon DEF single64
<1>2. computed'.x = x /\ \A d \in Divisors : /\ computed'.result[d].udiv = UDiv(x, d)
                                             /\ computed'.result[d].div = SDiv(x, d)
                                             /\ computed'.result[d].rem = SRem(x, d)
  BY <1>1, Zenon
<1>3. \A d \in Divisors : UDiv(x, d) = [q |-> x \div d, traps |-> FALSE]
  <2> TAKE d \in Divisors
  <2>1. UDivRem(x, d) = [q |-> x \div d, r |-> x % d, traps |-> FALSE]
    BY UnsignedQuotient, Zenon
  <2>2. UDivRem(x, d).q = x \div d /\ UDivRem(x, d).traps = FALSE
    BY ONLY <2>1
  <2> QED BY <2>2, SameQuotient, Zenon
<1>4. \A d \in Divisors :
        TruncatesTo(x, d, [q |-> SDiv(x, d).q, r |-> SRem(x, d).r,
                           traps |-> SDiv(x, d).traps \/ SRem(x, d).traps])
  BY SignedQuotient, SignedParts, Zenon
<1> QED BY <1>2, <1>3, <1>4, Zenon DEF SingleResultsAgree

=============================================================================
