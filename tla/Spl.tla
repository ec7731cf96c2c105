--------------------------------- MODULE Spl ---------------------------------
(***************************************************************************)
(* The priority level routines of ml/i86_subr.s on one processor: spl0(),  *)
(* spl7(), spl8(), splzs(), splhi(), splr(), splx() and their common tail  *)
(* spl, which enters pending soft interrupts, and install_spl(), which     *)
(* patches the nop at their end to a sti.  Every step of the routines is   *)
(* an action; an interrupt comes between any two of them at which the      *)
(* processor has interrupts enabled.                                       *)
(***************************************************************************)
EXTENDS Integers, FiniteSets

CONSTANTS
  HwLevels,    \* levels at which devices interrupt
  SoftLevels,  \* levels of the soft interrupts
  SplLevels,   \* arguments of splr() and splx()
  LOCK_LEVEL,  \* interrupts up to this level run as threads, which can block
  DISP_LEVEL   \* the level of splhi()

ASSUME SplAssumption ==
  /\ HwLevels \subseteq 1 .. 15 /\ SoftLevels \subseteq 1 .. LOCK_LEVEL
  /\ SplLevels \subseteq 0 .. 15
  /\ LOCK_LEVEL \in 1 .. 15 /\ DISP_LEVEL \in LOCK_LEVEL .. 15

VARIABLES
  cpu_pri,       \* CPU_PRI: the current level
  pic,           \* the level that setspl() loaded into the interrupt controller
  intr_active,   \* levels of the interrupt threads that have blocked
  st_pending,    \* CPU_SOFTINFO: pending soft interrupts
  if_flag,       \* the interrupt flag of the processor
  installed,     \* has install_spl() put sti in place of the nops?
  pc,            \* where the running thread is
  routine,       \* the routine it called
  edx            \* the new level

vars == <<cpu_pri, pic, intr_active, st_pending, if_flag, installed, pc, routine, edx>>

MaxOf(S) == IF S = {} THEN 0 ELSE CHOOSE l \in S : \A k \in S : k <= l

\* CPU_BASE_SPL: the highest level of a blocked interrupt thread.
cpu_base_spl == MaxOf(intr_active)

\* RAISE, splhi() and splr() compare with the current level first.
Raising == {"RAISE", "splhi", "splr"}

Init ==
  /\ cpu_pri = 15 /\ pic = 15
  /\ intr_active = {} /\ st_pending = {}
  /\ if_flag = FALSE /\ installed = FALSE
  /\ pc = "rest" /\ routine = "splx" /\ edx = 0

Unmoved == UNCHANGED <<intr_active, st_pending, installed, routine>>

-----------------------------------------------------------------------------
(* The routines                                                            *)

cli == if_flag' = FALSE

Enter(c, level) ==
  /\ pc = "rest"
  /\ cli
  /\ routine' = c /\ edx' = level
  /\ pc' = IF c \in Raising THEN "raise" ELSE "spl"
  /\ UNCHANGED <<cpu_pri, pic, intr_active, st_pending, installed>>

spl8  == Enter("SETPRI", 15)
spl7  == Enter("RAISE", 13)
splzs == Enter("SETPRI", 12)
spl0  == Enter("SETPRI", 0)
splhi == Enter("splhi", DISP_LEVEL)
splr  == \E l \in SplLevels : Enter("splr", l)
splx  == \E l \in SplLevels : Enter("splx", l)

\* cmpl %eax, %edx; jg
raise_above == edx > cpu_pri

\* "if new level > current level then set ipl to new level"; splhi() goes
\* straight to the store.
Raise ==
  /\ pc = "raise"
  /\ pc' = IF ~raise_above THEN "sti" ELSE IF routine = "splhi" THEN "setpri" ELSE "spl"
  /\ UNCHANGED <<cpu_pri, pic, if_flag, edx>> /\ Unmoved

\* Mutant: the base level is not looked at.
spl_ignores_base ==
  /\ pc = "spl"
  /\ pc' = "setpri"
  /\ UNCHANGED <<cpu_pri, pic, if_flag, edx>> /\ Unmoved

\* spl, set_to_base_spl: "if (base spl > new ipl) then use base_spl"
spl ==
  /\ pc = "spl"
  /\ edx' = IF cpu_base_spl > edx THEN cpu_base_spl ELSE edx
  /\ pc' = "setpri"
  /\ UNCHANGED <<cpu_pri, pic, if_flag>> /\ Unmoved

\* setprilev: SETIPL_NOGS
setprilev ==
  /\ pc = "setpri"
  /\ cpu_pri' = edx
  /\ pc' = "setspl"
  /\ UNCHANGED <<pic, if_flag, edx>> /\ Unmoved

\* call *setspl; splhi() does not look for soft interrupts.
setspl ==
  /\ pc = "setspl"
  /\ pic' = edx
  /\ pc' = IF routine = "splhi" THEN "sti" ELSE "soft"
  /\ UNCHANGED <<cpu_pri, if_flag, edx>> /\ Unmoved

\* Mutant: the lowest instead of the highest pending bit (bsfl).
softint_due_lowest == st_pending # {} /\ \A s \in st_pending : s > edx

\* bsrl: the highest pending soft interrupt is above the new level.  The
\* test whether setsplsti is still a nop compares the four bytes there with
\* a one-byte opcode, which never agree, so it changes nothing.
softint_due == MaxOf(st_pending) > edx

Soft ==
  /\ pc = "soft"
  /\ pc' = IF softint_due THEN "fakesoftint" ELSE "sti"
  /\ UNCHANGED <<cpu_pri, pic, if_flag, edx>> /\ Unmoved

\* setsplsti, setsplhisti, splr_setsti: sti once it is patched in, and return.
setsplsti ==
  /\ pc = "sti"
  /\ if_flag' = (if_flag \/ installed)
  /\ pc' = "rest"
  /\ UNCHANGED <<cpu_pri, pic, edx>> /\ Unmoved

install_spl ==
  /\ pc = "rest" /\ ~installed
  /\ installed' = TRUE
  /\ UNCHANGED <<cpu_pri, pic, intr_active, st_pending, if_flag, pc, routine, edx>>

-----------------------------------------------------------------------------
(* Interrupts                                                              *)

\* An interrupt thread at level l finished, or blocked: then the interrupted
\* thread goes on at the new base level.
Serve(l, blocked) ==
  /\ intr_active' = IF blocked THEN intr_active \cup {l} ELSE intr_active
  /\ blocked => l <= LOCK_LEVEL

\* A device interrupts.  Its handler may request soft interrupts, and those
\* above the interrupted level are served before the return.
Interrupt ==
  \E l \in HwLevels, requested \in SUBSET SoftLevels, blocked \in BOOLEAN :
    /\ if_flag /\ l > pic
    /\ Serve(l, blocked)
    /\ cpu_pri' = IF blocked /\ l > cpu_pri THEN l ELSE cpu_pri
    /\ pic' = IF blocked THEN l ELSE pic
    /\ st_pending' = {s \in st_pending \cup requested : s <= cpu_pri'}
    /\ UNCHANGED <<if_flag, installed, pc, routine, edx>>

\* A blocked interrupt thread runs again, and is done.
IntrThreadDone ==
  /\ if_flag
  /\ \E l \in intr_active : intr_active' = intr_active \ {l}
  /\ UNCHANGED <<cpu_pri, pic, st_pending, if_flag, installed, pc, routine, edx>>

\* The thread requests a soft interrupt that its level holds off; one above
\* its level would be served at once.
Siron ==
  /\ pc = "rest"
  /\ \E s \in SoftLevels : /\ s <= cpu_pri
                           /\ st_pending' = st_pending \cup {s}
  /\ UNCHANGED <<cpu_pri, pic, intr_active, if_flag, installed, pc, routine, edx>>

\* fakesoftint serves the highest pending soft interrupt, and looks again.
fakesoftint ==
  /\ pc = "fakesoftint"
  /\ LET s == MaxOf(st_pending) IN
       /\ st_pending' = st_pending \ {s}
       /\ \E blocked \in BOOLEAN :
            /\ Serve(s, blocked)
            /\ edx' = IF blocked THEN s ELSE edx
            /\ cpu_pri' = edx' /\ pic' = edx'
            /\ pc' = IF MaxOf(st_pending') > edx' THEN "fakesoftint" ELSE "sti"
  /\ UNCHANGED <<if_flag, installed, routine>>

Routine == Raise \/ spl \/ setprilev \/ setspl \/ Soft \/ fakesoftint \/ setsplsti

Next ==
  \/ spl8 \/ spl7 \/ splzs \/ spl0 \/ splhi \/ splr \/ splx \/ Routine
  \/ install_spl \/ Interrupt \/ IntrThreadDone \/ Siron

Spec == Init /\ [][Next]_vars

-----------------------------------------------------------------------------
\* Levels are levels, pending soft interrupts are soft interrupt levels, and
\* interrupts are only enabled once install_spl() has patched the routines.
TypeOK ==
  /\ cpu_pri \in 0 .. 15 /\ pic \in 0 .. 15 /\ edx \in 0 .. 15
  /\ intr_active \subseteq 1 .. LOCK_LEVEL /\ st_pending \subseteq SoftLevels
  /\ if_flag \in BOOLEAN /\ installed \in BOOLEAN
  /\ pc \in {"rest", "raise", "spl", "setpri", "setspl", "soft", "fakesoftint", "sti"}
  /\ routine \in {"RAISE", "SETPRI", "splhi", "splr", "splx"}
  /\ if_flag => installed

\* No routine leaves the level below that of a blocked interrupt thread,
\* "even though it seems we're raising the priority, it could be set higher
\* at any time by an interrupt routine" (i86_subr.s, splx).
NeverBelowBase == pc = "rest" => cpu_pri >= cpu_base_spl

\* Whenever interrupts are enabled the interrupt controller is programmed
\* for the level in CPU_PRI.
PicMatchesLevel == if_flag => pic = cpu_pri

\* The level the processor runs at is right, in CPU_PRI and in the interrupt
\* controller.  A routine tests, stores and programs it in separate steps with
\* interrupts disabled, and interrupts that nest between its call and its cli,
\* and after its sti, change the base level and the pending soft interrupts it
\* has to take into account.
LevelIsRight == TypeOK /\ NeverBelowBase /\ PicMatchesLevel

\* Lowering the level serves what it uncovers: with interrupts enabled, no
\* pending soft interrupt is above the level of the running thread.
SoftintsServed == if_flag => \A s \in st_pending : s <= cpu_pri

\* "Before dashing off, check that setsplsti has been patched": soft
\* interrupts are not entered before install_spl() (i86_subr.s, spl).
SoftintsAfterInstall == [][(pc' = "fakesoftint") => installed]_vars

=============================================================================
