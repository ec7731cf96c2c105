-------------------------------- MODULE Copy --------------------------------
(***************************************************************************)
(* Copying with fault recovery, as one thread does it: the routines of     *)
(* ml/copy.s, which save T_LOFAULT, put their own error label there and    *)
(* restore it on every way out, and on_fault() and no_fault() of           *)
(* ml/i86_subr.s, which use the same field.  A fault can come with any     *)
(* access; the trap handler, which is outside the repository, continues at *)
(* T_LOFAULT, or panics when there is none.  What is copied is only        *)
(* counted.                                                                *)
(***************************************************************************)
EXTENDS Integers

CONSTANTS
  CopyCounts,      \* lengths of the copies
  XCOPY_MIN_SIZE,  \* the shortest copy that may bypass the caches
  CounterMod,      \* values of the register that counts in COPY_LOOP_BODY
  curthread        \* the address of the thread structure

ASSUME CopyAssumption ==
  /\ CopyCounts \subseteq Nat
  /\ XCOPY_MIN_SIZE \in Nat /\ XCOPY_MIN_SIZE >= 16
  /\ CounterMod \in Nat \ {0} /\ CounterMod % 2 = 0
  /\ curthread \in Nat /\ curthread > XCOPY_MIN_SIZE
  /\ \A n \in CopyCounts : n < 8 * CounterMod    \* a length is in a register

VARIABLES
  t_lofault,  \* "none", "catch_fault" or the routine whose error label it is
  t_onfault,  \* is there an on_fault() jump buffer?
  t_copyops,  \* has the thread its own copy operations?
  call,       \* the routine being executed
  ret         \* what the last one returned, and what it had done by then, until the next call

copyVars == <<t_lofault, t_onfault, t_copyops, call, ret>>

Kernel  == {"kcopy", "kzero"}
Xcopy   == {"xcopyin_nta", "xcopyout_nta"}
User    == {"copyin", "copyout"} \cup Xcopy
StrCopies == {"copyinstr", "copyoutstr"}
Words   == {"fuword", "suword"}
NoErr   == {"copyin_noerr", "copyout_noerr", "fuword_noerr", "suword_noerr", "ucopy", "uzero"}

\* The routines with an error label of their own.
Labelled == Kernel \cup User \cup StrCopies \cup Words
Routines == Labelled \cup NoErr \cup {"copystr"}

\* cnt is the counter of COPY_LOOP_BODY, left that of copystr_loop.
NoCall == [fn |-> "none", at |-> "caller", count |-> 0, done |-> 0, cnt |-> 0, left |-> 0,
           nta |-> FALSE, saved |-> "none", forced |-> FALSE]

\* A result; lencopied is -1 where no length is stored for the caller.
Reply(c, v) == [fn |-> c.fn, value |-> v, count |-> c.count, done |-> c.done, lencopied |-> -1]
NoRet == Reply(NoCall, "void")

CopyInit ==
  /\ t_lofault = "none" /\ t_onfault = FALSE /\ t_copyops \in BOOLEAN
  /\ call = NoCall
  /\ ret = NoRet

InCaller == call.fn = "none"

-----------------------------------------------------------------------------
(* on_fault(), no_fault() and the handler catch_fault                      *)

on_fault ==
  /\ InCaller
  /\ t_onfault' = TRUE /\ t_lofault' = "catch_fault"
  /\ UNCHANGED <<t_copyops, call, ret>>

no_fault ==
  /\ InCaller
  /\ t_onfault' = FALSE /\ t_lofault' = "none"
  /\ UNCHANGED <<t_copyops, call, ret>>

Return(c, v) == call' = NoCall /\ ret' = Reply(c, v)

catch_fault ==
  /\ t_onfault' = FALSE /\ t_lofault' = "none"
  /\ Return(call, "longjmp")
  /\ UNCHANGED t_copyops

-----------------------------------------------------------------------------
(* Entering the routines                                                   *)

\* COPY_LOOP_INIT: minus the number of eight-byte units, in a register.
COPY_LOOP_INIT(n) == (CounterMod - n \div 8) % CounterMod

Begin(fn, n, handler, nta, forced) ==
  /\ call' = [fn |-> fn, at |-> "copy", count |-> n, done |-> 0, cnt |-> COPY_LOOP_INIT(n),
              left |-> n, nta |-> nta, saved |-> t_lofault, forced |-> forced]
  /\ t_lofault' = handler
  /\ ret' = NoRet
  /\ UNCHANGED <<t_onfault, t_copyops>>

do_copy_fault(fn, n)     == Begin(fn, n, fn, FALSE, FALSE)
do_copy_fault_nta(fn, n) == Begin(fn, n, fn, TRUE, FALSE)
do_zero_fault(n)         == Begin("kzero", n, "kzero", FALSE, FALSE)

\* Mutant: the caller's handler stays in place.
do_copystr_bare(fn, n, h) == Begin(fn, n, t_lofault, FALSE, FALSE)

do_copystr(fn, n, h) == Begin(fn, n, h, FALSE, FALSE)

\* The error of a user access: the thread's own operations, if any, take over.
Fallback(c, error) == Return(c, IF t_copyops THEN "copyops" ELSE error)

Rejected(fn, n, error) ==
  /\ Fallback([NoCall EXCEPT !.fn = fn, !.count = n], error)
  /\ UNCHANGED <<t_lofault, t_onfault, t_copyops>>

kcopy(n) == InCaller /\ do_copy_fault("kcopy", n)
kzero(n) == InCaller /\ do_zero_fault(n)

\* "user" says whether the user address is below kernelbase.
copyin(n, user) ==
  /\ InCaller
  /\ IF user THEN do_copy_fault("copyin", n) ELSE Rejected("copyin", n, "-1")

copyout(n, user) ==
  /\ InCaller
  /\ IF user THEN do_copy_fault("copyout", n) ELSE Rejected("copyout", n, "-1")

\* "Make sure cnt is >= XCOPY_MIN_SIZE bytes"
xcopyin_large(n)  == n >= XCOPY_MIN_SIZE
xcopyout_large(n) == curthread >= XCOPY_MIN_SIZE

\* "hot": no SSE, or the caller wants the data cached.  When the user address
\* is not below kernelbase, %eax still holds the address of the error label.
xcopyin_nta(n, user, hot, aligned) ==
  /\ InCaller
  /\ IF ~user THEN Rejected("xcopyin_nta", n, "label")
     ELSE IF ~hot /\ xcopyin_large(n) /\ aligned /\ n % 16 = 0
          THEN do_copy_fault_nta("xcopyin_nta", n)
          ELSE do_copy_fault("xcopyin_nta", n)

xcopyout_nta(n, user, hot, aligned) ==
  /\ InCaller
  /\ IF ~user THEN Rejected("xcopyout_nta", n, "label")
     ELSE IF ~hot /\ xcopyout_large(n) /\ aligned /\ n % 16 = 0
          THEN do_copy_fault_nta("xcopyout_nta", n)
          ELSE do_copy_fault("xcopyout_nta", n)

\* copystr() keeps the handler that is there.
copystr(n) == InCaller /\ do_copystr("copystr", n, t_lofault)

copyinstr(n, user) ==
  /\ InCaller
  /\ IF user THEN do_copystr("copyinstr", n, "copyinstr") ELSE Rejected("copyinstr", n, "EFAULT")

copyoutstr(n, user) ==
  /\ InCaller
  /\ IF user THEN do_copystr("copyoutstr", n, "copyoutstr") ELSE Rejected("copyoutstr", n, "EFAULT")

\* FUWORD and SUWORD, of any width.  They leave no handler behind, so they
\* are for threads that have none.
FUWORD(user) ==
  /\ InCaller /\ ~t_onfault
  /\ IF user THEN Begin("fuword", 1, "fuword", FALSE, FALSE) ELSE Rejected("fuword", 1, "-1")

SUWORD(user) ==
  /\ InCaller /\ ~t_onfault
  /\ IF user THEN Begin("suword", 1, "suword", FALSE, FALSE) ELSE Rejected("suword", 1, "-1")

\* "No fault handler installed (to be called under on_fault())".  A kernel
\* address becomes kernelbase, where the access faults.
Noerr(fn, n, user) ==
  /\ InCaller /\ t_onfault
  /\ fn \in {"ucopy", "uzero"} => user
  /\ Begin(fn, n, t_lofault, FALSE, ~user /\ n > 0)

-----------------------------------------------------------------------------
(* Copying                                                                 *)

\* Mutant: the bytes left over are forgotten.
Finished_words(c) == IF c.nta THEN c.cnt = 0 /\ c.done > 0 ELSE c.count - c.done < 4

\* smovl and smovb have counted down to 0; COPY_LOOP_BODY tests after the add.
Finished(c) == IF c.nta THEN c.cnt = 0 /\ c.done > 0 ELSE c.done = c.count

Copying(fns) == call.fn \in fns /\ call.at = "copy"

\* One word or byte, or one round of COPY_LOOP_BODY.
Access ==
  /\ Copying(Kernel \cup User \cup NoErr) /\ ~Finished(call) /\ ~call.forced
  /\ call' = IF call.nta
             THEN [call EXCEPT !.done = @ + 16, !.cnt = (@ + 2) % CounterMod]
             ELSE [call EXCEPT !.done = @ + (IF call.count - @ >= 4 THEN 4 ELSE 1)]
  /\ UNCHANGED <<t_lofault, t_onfault, t_copyops, ret>>

\* Mutant: success leaves the routine's own handler in place.
Restore_not == UNCHANGED t_lofault

\* "restore the original lofault"
Restore == t_lofault' = call.saved

Success ==
  /\ Copying(Kernel \cup User) /\ Finished(call)
  /\ Restore
  /\ Return(call, "0")
  /\ UNCHANGED <<t_onfault, t_copyops>>

SuccessNoerr ==
  /\ Copying(NoErr) /\ Finished(call)
  /\ Return(call, "void")
  /\ UNCHANGED <<t_lofault, t_onfault, t_copyops>>

\* copystr_out, for a caller that wants the length.
copystr_out(c, v) ==
  Restore /\ call' = NoCall /\ ret' = [Reply(c, v) EXCEPT !.lencopied = c.count - c.left]

\* copystr_loop, to the null byte or the end of the buffer.
CopyStr ==
  LET moved == [call EXCEPT !.done = @ + 1, !.left = @ - 1] IN
  /\ Copying(StrCopies \cup {"copystr"})
  /\ \/ call.left # 0 /\ call' = moved /\ UNCHANGED <<t_lofault, ret>>
     \/ call.left # 0 /\ copystr_out(moved, "0")
     \/ call.left = 0 /\ copystr_out(call, "ENAMETOOLONG")
  /\ UNCHANGED <<t_onfault, t_copyops>>

\* The access, then T_LOFAULT = 0.
UserWord ==
  /\ Copying(Words)
  /\ t_lofault' = "none"
  /\ Return([call EXCEPT !.done = 1], "0")
  /\ UNCHANGED <<t_onfault, t_copyops>>

-----------------------------------------------------------------------------
(* Faults                                                                  *)

\* The trap handler: on to the address in T_LOFAULT, with an errno in %eax.
Trap ==
  \/ t_lofault = "catch_fault" /\ catch_fault
  \/ /\ t_lofault \notin {"none", "catch_fault"}
     /\ call' = [call EXCEPT !.at = IF t_lofault = call.fn THEN "err" ELSE "wild"]
     /\ UNCHANGED <<t_lofault, t_onfault, t_copyops, ret>>
  \/ /\ t_lofault = "none"
     /\ call' = [call EXCEPT !.at = "panic"]
     /\ UNCHANGED <<t_lofault, t_onfault, t_copyops, ret>>

\* Any access of the routines can fault, but copystr() is only called for
\* kernel strings, and the caller's own accesses are safe outside on_fault().
Fault ==
  /\ \/ Copying(Routines \ (StrCopies \cup {"copystr"})) /\ ~Finished(call)
     \/ Copying(StrCopies) /\ call.left # 0
     \/ Copying({"copystr"}) /\ call.left # 0 /\ t_onfault
     \/ InCaller /\ t_onfault
  /\ Trap

\* _kcopy_copyerr and _kzeroerr.
KernelError ==
  /\ call.at = "err" /\ call.fn \in Kernel
  /\ Restore
  /\ Return(call, "errno")
  /\ UNCHANGED <<t_onfault, t_copyops>>

\* _copyin_err, _copyout_err, _xcopyin_err, _xcopyout_err, _copyinstr_error
\* and _copyoutstr_error.
UserError ==
  /\ call.at = "err" /\ call.fn \in User \cup StrCopies
  /\ Restore
  /\ Fallback(call, IF call.fn \in Xcopy THEN "errno" ELSE IF call.fn \in StrCopies THEN "EFAULT" ELSE "-1")
  /\ UNCHANGED <<t_onfault, t_copyops>>

\* _flt_fuword and _flt_suword.
WordError ==
  /\ call.at = "err" /\ call.fn \in Words
  /\ t_lofault' = "none"
  /\ Fallback(call, "-1")
  /\ UNCHANGED <<t_onfault, t_copyops>>

CopyNext ==
  \/ on_fault \/ no_fault
  \/ \E n \in CopyCounts, user, hot, aligned \in BOOLEAN :
        \/ kcopy(n) \/ kzero(n) \/ copystr(n)
        \/ copyin(n, user) \/ copyout(n, user)
        \/ xcopyin_nta(n, user, hot, aligned) \/ xcopyout_nta(n, user, hot, aligned)
        \/ copyinstr(n, user) \/ copyoutstr(n, user)
        \/ FUWORD(user) \/ SUWORD(user)
        \/ \E fn \in NoErr : Noerr(fn, n, user)
  \/ Access \/ Success \/ SuccessNoerr \/ CopyStr \/ UserWord
  \/ Fault \/ KernelError \/ UserError \/ WordError

CopySpec == CopyInit /\ [][CopyNext]_copyVars

-----------------------------------------------------------------------------
\* No copy routine disturbs the protection of its caller: back in the caller,
\* after success, error or the thread's own copy operations, T_LOFAULT is
\* what on_fault() or no_fault() left there, so that a later fault in an
\* on_fault() region still finds catch_fault.  It needs that FUWORD and
\* SUWORD, which store 0 there, are called outside such regions.
ProtectionKept ==
  InCaller => t_lofault = IF t_onfault THEN "catch_fault" ELSE "none"

\* A fault in the middle of a copy continues in the routine that is copying,
\* whose frame is on top of the stack, or in the on_fault() caller: never at
\* the label of a routine that has returned, and never without a handler.
FaultsAreCaught == call.at \notin {"wild", "panic"}

\* A routine says 0 exactly when it has copied everything (a string: at least
\* its null byte), ENAMETOOLONG when the buffer is full without a null byte,
\* and an error of an access when something is left.  The length that
\* copystr() stores for its caller is the number of bytes it has written,
\* the null byte included, also when the string is cut off.
ResultIsTrue ==
  /\ ret.value = "0" /\ ret.fn \in Kernel \cup User =>
       ret.done = ret.count \/ (ret.fn = "xcopyout_nta" /\ ret.count = 0)
  /\ ret.value = "0" /\ ret.fn \in StrCopies \cup {"copystr"} =>
       ret.done \in 1 .. ret.count /\ ret.lencopied = ret.done
  /\ ret.value = "ENAMETOOLONG" => ret.done = ret.count /\ ret.lencopied = ret.done
  /\ ret.value \in {"errno", "-1", "EFAULT"} /\ ret.count > 0 => ret.done < ret.count

\* No copy goes past its length, except xcopyout_nta() of no bytes at all,
\* whose size test looks at the wrong register.
CopiesWithinCount ==
  call.done <= call.count \/ (call.fn = "xcopyout_nta" /\ call.count = 0)

\* copy.s:651, "xcopyin_nta() and xcopyout_nta() which return the errno that
\* we've faithfully computed": they return 0, an errno or what the thread's
\* own copy operations return, never the address of an error label.
XcopyReturnsErrno == ret.fn \in Xcopy => ret.value \in {"0", "errno", "copyops"}

\* copy.s:1141, "Make sure cnt is >= XCOPY_MIN_SIZE bytes", which the comment
\* on XCOPY_MIN_SIZE wants to be at least one round of the loop (copy.s:47):
\* the non-temporal loop never runs for a shorter copy.
XcopyMinSize == call.nta => call.count >= XCOPY_MIN_SIZE

=============================================================================
