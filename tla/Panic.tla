-------------------------------- MODULE Panic --------------------------------
(***************************************************************************)
(* Entering a panic (ml/i86_subr.s): vpanic(), where the first processor   *)
(* to panic moves to panic_stack, dtrace_vpanic(), which joins it, and     *)
(* panic_trigger().  A processor can panic again on the way, from an       *)
(* interrupt or a trap.  panicsys() is outside the repository; it keeps    *)
(* the first processor and stops the others.                               *)
(***************************************************************************)
EXTENDS FiniteSets, Integers, Sequences

CONSTANTS
  PanicCPU,   \* the processors
  MaxPanics   \* bound: panics of one processor inside each other

ASSUME PanicAssumption == IsFiniteSet(PanicCPU) /\ MaxPanics \in Nat \ {0}

VARIABLES
  panic_quiesce,  \* the trigger word: 0 or 0xdefacedd
  panic_pc,       \* panic_pc[c]: "run", "trigger", "common", "panicsys", "stopped"
  panic_eax,      \* panic_eax[c]: what panic_trigger() returned
  panic_depth,    \* panic_depth[c]: how often c has entered vpanic()
  panic_stack     \* processors in the order in which they took the panic stack

panicVars == <<panic_quiesce, panic_pc, panic_eax, panic_depth, panic_stack>>

PanicInit ==
  /\ panic_quiesce = FALSE
  /\ panic_pc = [c \in PanicCPU |-> "run"]
  /\ panic_eax = [c \in PanicCPU |-> 0]
  /\ panic_depth = [c \in PanicCPU |-> 0]
  /\ panic_stack = << >>

PanicGoto(c, from, to) ==
  panic_pc[c] = from /\ panic_pc' = [panic_pc EXCEPT ![c] = to]

\* A panic: from anywhere, also from the panic code itself, whose state is
\* on the stack below.
vpanic(c) ==
  /\ panic_pc[c] # "stopped" /\ panic_depth[c] < MaxPanics
  /\ panic_pc' = [panic_pc EXCEPT ![c] = "trigger"]
  /\ panic_depth' = [panic_depth EXCEPT ![c] = @ + 1]
  /\ UNCHANGED <<panic_quiesce, panic_eax, panic_stack>>

\* Mutant: a test of the trigger, and then a store, where others come between.
panic_trigger_split(c) ==
  \/ /\ PanicGoto(c, "trigger", "store")
     /\ panic_eax' = [panic_eax EXCEPT ![c] = IF panic_quiesce THEN 0 ELSE 1]
     /\ UNCHANGED <<panic_quiesce, panic_depth, panic_stack>>
  \/ /\ PanicGoto(c, "store", "common")
     /\ panic_quiesce' = TRUE
     /\ UNCHANGED <<panic_eax, panic_depth, panic_stack>>

\* lock xchgl: 1 for the processor that finds 0.  dtrace_panic_trigger() is
\* the same code, on the same word.
panic_trigger(c) ==
  /\ PanicGoto(c, "trigger", "common")
  /\ panic_eax' = [panic_eax EXCEPT ![c] = IF panic_quiesce THEN 0 ELSE 1]
  /\ panic_quiesce' = TRUE
  /\ UNCHANGED <<panic_depth, panic_stack>>

\* "we now switch to the reserved panic_stack before continuing"
vpanic_common(c) ==
  /\ PanicGoto(c, "common", "panicsys")
  /\ panic_stack' = IF panic_eax[c] = 1 THEN Append(panic_stack, c) ELSE panic_stack
  /\ UNCHANGED <<panic_quiesce, panic_eax, panic_depth>>

\* panicsys() of a processor that is not the first to panic stops it once the
\* first has arrived.
panicsys(c) ==
  /\ panic_stack # << >> /\ panic_stack[1] # c
  /\ PanicGoto(c, "panicsys", "stopped")
  /\ UNCHANGED <<panic_quiesce, panic_eax, panic_depth, panic_stack>>

PanicStep(c) == panic_trigger(c) \/ vpanic_common(c) \/ panicsys(c)
PanicNext == \E c \in PanicCPU : vpanic(c) \/ PanicStep(c)

PanicSpec == PanicInit /\ [][PanicNext]_panicVars

-----------------------------------------------------------------------------
\* The words, places and counts of the panic code.
PanicTypeOK ==
  /\ panic_quiesce \in BOOLEAN
  /\ panic_pc \in [PanicCPU -> {"run", "trigger", "common", "panicsys", "stopped"}]
  /\ panic_eax \in [PanicCPU -> {0, 1}]
  /\ panic_depth \in [PanicCPU -> 0 .. MaxPanics]

\* However many processors panic, and however often, one panic alone starts
\* at the top of panic_stack: a later one, of another processor or of the
\* first one's own panic code, never overwrites the frames that are there.
OnePanicStack == Len(panic_stack) <= 1 /\ (panic_stack # << >> => panic_quiesce)

\* Once the trigger is pulled, some processor runs the panic on panic_stack
\* or is about to ("If panic_trigger() was successful, we are the first to
\* initiate a panic"), unless that processor panicked again in between: the
\* others may all stop.
PanicIsOwned ==
  panic_quiesce =>
    \/ panic_stack # << >>
    \/ \E c \in PanicCPU : panic_pc[c] = "common" /\ panic_eax[c] = 1
    \/ \E c \in PanicCPU : panic_depth[c] > 1

=============================================================================
