------------------------------- MODULE OnTrap -------------------------------
(***************************************************************************)
(* The on_trap() protection of one thread (ml/i86_subr.s, sys/ontrap.h):   *)
(* functions that call each other, each with an on_trap_data of its own in *)
(* its frame, the stack t_ontrap of those that are protected, and the      *)
(* exceptions that jump back to the topmost.  on_trap_data number f is     *)
(* that of the function at depth f, and 0 is NULL.                         *)
(***************************************************************************)
EXTENDS FiniteSetsExt, Integers

CONSTANTS
  MaxFrame,  \* depth of the calls
  OtProt     \* the protection bits, OT_DATA_ACCESS and OT_DATA_EC

ASSUME OnTrapAssumption == MaxFrame \in Nat \ {0}

VARIABLES
  depth,      \* the running function
  t_ontrap,   \* top of the stack
  ot_prev,    \* ot_prev[f]
  ot_prot,    \* ot_prot[f]
  ot_trap,    \* ot_trap[f]
  protected   \* functions between their on_trap() and their no_trap()

onTrapVars == <<depth, t_ontrap, ot_prev, ot_prot, ot_trap, protected>>

Frame == 1 .. MaxFrame

OnTrapInit ==
  /\ depth = 1 /\ t_ontrap = 0 /\ protected = {}
  /\ ot_prev = [f \in Frame |-> 0]
  /\ ot_prot = [f \in Frame |-> {}]
  /\ ot_trap = [f \in Frame |-> {}]

\* Mutant: the same on_trap_data is pushed again.
OtPush_always(otp) ==
  /\ ot_prev' = [ot_prev EXCEPT ![otp] = t_ontrap]
  /\ t_ontrap' = otp

\* Push otp on the stack, unless it is the topmost element.
OtPush(otp) ==
  IF t_ontrap = otp
  THEN UNCHANGED <<ot_prev, t_ontrap>>
  ELSE /\ ot_prev' = [ot_prev EXCEPT ![otp] = t_ontrap]
       /\ t_ontrap' = otp

\* The last step is setjmp(): the jump buffer is of this function.
on_trap(prot) ==
  /\ ot_prot' = [ot_prot EXCEPT ![depth] = prot]
  /\ ot_trap' = [ot_trap EXCEPT ![depth] = {}]
  /\ OtPush(depth)
  /\ protected' = protected \cup {depth}
  /\ UNCHANGED depth

\* Called by every protected function before it returns.
no_trap ==
  /\ depth \in protected
  /\ t_ontrap' = IF t_ontrap = 0 THEN 0 ELSE ot_prev[t_ontrap]
  /\ protected' = protected \ {depth}
  /\ UNCHANGED <<depth, ot_prev, ot_prot, ot_trap>>

CallDown ==
  /\ depth < MaxFrame
  /\ depth' = depth + 1
  /\ UNCHANGED <<t_ontrap, ot_prev, ot_prot, ot_trap, protected>>

ReturnUp ==
  /\ depth > 1 /\ depth \notin protected
  /\ depth' = depth - 1
  /\ UNCHANGED <<t_ontrap, ot_prev, ot_prot, ot_trap, protected>>

\* longjmp() to the function whose on_trap_data is topmost.
on_trap_trampoline == depth' = t_ontrap

\* The trap handler: an exception that the topmost bits protect against
\* continues in the trampoline; for the others the thread is not protected.
TakeTrap(bit) ==
  /\ t_ontrap # 0 /\ bit \in ot_prot[t_ontrap]
  /\ ot_trap' = [ot_trap EXCEPT ![t_ontrap] = {bit}]
  /\ on_trap_trampoline
  /\ UNCHANGED <<t_ontrap, ot_prev, ot_prot, protected>>

OnTrapNext ==
  \/ \E prot \in SUBSET OtProt : on_trap(prot)
  \/ no_trap \/ CallDown \/ ReturnUp
  \/ \E bit \in OtProt : TakeTrap(bit)

OnTrapSpec == OnTrapInit /\ [][OnTrapNext]_onTrapVars

-----------------------------------------------------------------------------
\* The fields name functions and bits.
OnTrapTypeOK ==
  /\ depth \in Frame /\ t_ontrap \in Frame \cup {0}
  /\ ot_prev \in [Frame -> Frame \cup {0}]
  /\ ot_prot \in [Frame -> SUBSET OtProt] /\ ot_trap \in [Frame -> SUBSET OtProt]
  /\ protected \subseteq Frame

\* The topmost of the functions in S.
Innermost(S) == IF S = {} THEN 0 ELSE Max(S)

\* The t_ontrap list holds exactly the on_trap_data of the live functions
\* that are protected, each once, innermost first (sys/ontrap.h, "the same
\* on_trap_data is not pushed twice"): whatever order of loops, nested calls
\* and exceptions led here, no element is in a dead frame, the list ends, and
\* the next exception continues in the innermost protected function.
TrapStackIsLive ==
  /\ protected \subseteq 1 .. depth
  /\ t_ontrap = Innermost(protected)
  /\ \A f \in protected : ot_prev[f] = Innermost({g \in protected : g < f})

=============================================================================
