------------------------------- MODULE LockSpl -------------------------------
(***************************************************************************)
(* The spin locks of ml/lock_prim.s, shared by threads and interrupt       *)
(* handlers: lock_set_spl() and lock_clear_splx(), which raise and lower   *)
(* the priority level around the lock, and lock_set(), lock_try(),         *)
(* lock_spin_try() and lock_clear() for code that already runs at the      *)
(* lock's level.  Each processor runs a stack of frames: a thread and the  *)
(* handlers that interrupted it.  The routines of Spl are single steps     *)
(* here, since they run with interrupts disabled.                          *)
(***************************************************************************)
EXTENDS Integers, Sequences

CONSTANTS
  CPU,
  new_pil,     \* the level that the lock is taken at
  IntrLevels,  \* levels of the handlers that use the lock
  OtherLevel   \* a higher level at which a thread may be when it takes it

\* What the callers guarantee: a lock is taken at the level of the highest
\* handler that uses it, or above.
ASSUME LockSplAssumption ==
  /\ new_pil \in 1 .. 15 /\ OtherLevel \in new_pil .. 15
  /\ IntrLevels \subseteq 1 .. new_pil

VARIABLES
  lock,    \* lock_t: 0 or -1 (0xff, not zero)
  ipl,     \* CPU_PRI of each processor
  stack    \* the frames of each processor, the running one last

lockSplVars == <<lock, ipl, stack>>

\* ret: the level the frame interrupted; entry: the level at which it called
\* lock_set_spl(); old_pil: what that stored, or passes to its spin loop.
Frame(level) == [pc |-> "out", ret |-> level, entry |-> level, old_pil |-> level]

LockSplInit ==
  /\ lock = 0
  /\ ipl = [c \in CPU |-> 0]
  /\ stack = [c \in CPU |-> <<Frame(0)>>]

Depth(c) == Len(stack[c])
Top(c)   == stack[c][Depth(c)]
FrameAt(c, p) == Top(c).pc = p
SetTop(c, f) == stack' = [stack EXCEPT ![c][Depth(c)] = f]

\* splr() and splx() without the comparison with CPU_BASE_SPL (Spl has it): no
\* interrupt thread is blocked here, and the base level is 0.
splr(c, level) == ipl' = [ipl EXCEPT ![c] = IF level > @ THEN level ELSE @]
splx(c, level) == ipl' = [ipl EXCEPT ![c] = level]

\* Mutant: the value that xchgb returns is not tested.
xchg_untested(got) == got /\ lock' = -1

\* xchgb: set the lock, and see whether it was free.
xchg(got) == got = (lock = 0) /\ lock' = -1

-----------------------------------------------------------------------------
(* lock_set_spl, lock_set_spl_spin, lock_clear_splx                        *)

\* Mutant: the lock is tried before the level is raised.
lock_set_spl_late(c) ==
  /\ FrameAt(c, "out")
  /\ SetTop(c, [Top(c) EXCEPT !.pc = "try", !.entry = ipl[c], !.old_pil = ipl[c]])
  /\ UNCHANGED <<ipl, lock>>

\* call splr: the previous level stays in %eax.
lock_set_spl(c) ==
  /\ FrameAt(c, "out")
  /\ splr(c, new_pil)
  /\ SetTop(c, [Top(c) EXCEPT !.pc = "try", !.entry = ipl[c], !.old_pil = ipl[c]])
  /\ UNCHANGED lock

\* Mutant: .lss_miss passes the raised level as the original one.
lss_try_miss_new_pil(c) ==
  /\ FrameAt(c, "try")
  /\ \E got \in BOOLEAN :
       /\ xchg(got)
       /\ SetTop(c, IF got THEN [Top(c) EXCEPT !.pc = "held"]
                         ELSE [Top(c) EXCEPT !.pc = "miss", !.old_pil = ipl[c]])
  /\ UNCHANGED ipl

\* xchgb, and movw %ax, (%edx) or .lss_miss.
lss_try(c) ==
  /\ FrameAt(c, "try")
  /\ \E got \in BOOLEAN :
       /\ xchg(got)
       /\ SetTop(c, [Top(c) EXCEPT !.pc = IF got THEN "held" ELSE "miss"])
  /\ UNCHANGED ipl

\* lock_set_spl_spin() returns to the original level while the lock is held ...
SpinLower(c) ==
  /\ FrameAt(c, "miss")
  /\ splx(c, Top(c).old_pil)
  /\ SetTop(c, [Top(c) EXCEPT !.pc = "spin"])
  /\ UNCHANGED lock

\* ... and raises it again to try once the lock is seen free.
SpinRaise(c) ==
  /\ FrameAt(c, "spin") /\ lock = 0
  /\ splr(c, new_pil)
  /\ SetTop(c, [Top(c) EXCEPT !.pc = "try"])
  /\ UNCHANGED lock

\* Mutant: a lock that was taken above new_pil is not cleared.
lock_clear_splx_not_high(c) ==
  /\ FrameAt(c, "held")
  /\ lock' = IF ipl[c] > new_pil THEN lock ELSE 0
  /\ SetTop(c, [Top(c) EXCEPT !.pc = "cleared"])
  /\ UNCHANGED ipl

\* movb $0, (%eax)
lock_clear_splx(c) ==
  /\ FrameAt(c, "held")
  /\ lock' = 0
  /\ SetTop(c, [Top(c) EXCEPT !.pc = "cleared"])
  /\ UNCHANGED ipl

\* cli; call spl
lcs_spl(c) ==
  /\ FrameAt(c, "cleared")
  /\ splx(c, Top(c).old_pil)
  /\ SetTop(c, [Top(c) EXCEPT !.pc = "out"])
  /\ UNCHANGED lock

-----------------------------------------------------------------------------
(* lock_set, lock_try, lock_spin_try, lock_clear at the lock's level       *)

lock_set(c) ==
  /\ FrameAt(c, "out") /\ ipl[c] >= new_pil
  /\ \E got \in BOOLEAN :
       /\ xchg(got)
       /\ SetTop(c, [Top(c) EXCEPT !.pc = IF got THEN "set" ELSE "set_spin"])
  /\ UNCHANGED ipl

\* lock_set_spin() waits until the lock is seen free, and tries again.
lock_set_spin(c) ==
  /\ FrameAt(c, "set_spin") /\ lock = 0
  /\ \E got \in BOOLEAN :
       /\ xchg(got)
       /\ SetTop(c, [Top(c) EXCEPT !.pc = IF got THEN "set" ELSE "set_spin"])
  /\ UNCHANGED ipl

\* lock_try() and lock_spin_try() give up when the lock was held.
lock_try(c) ==
  /\ FrameAt(c, "out") /\ ipl[c] >= new_pil
  /\ \E got \in BOOLEAN :
       /\ xchg(got)
       /\ SetTop(c, [Top(c) EXCEPT !.pc = IF got THEN "set" ELSE "out"])
  /\ UNCHANGED ipl

lock_clear(c) ==
  /\ FrameAt(c, "set")
  /\ lock' = 0
  /\ SetTop(c, [Top(c) EXCEPT !.pc = "out"])
  /\ UNCHANGED ipl

-----------------------------------------------------------------------------
(* Interrupts and other changes of the level                               *)

Interrupt(c) ==
  /\ \E l \in IntrLevels :
       /\ l > ipl[c]
       /\ ipl' = [ipl EXCEPT ![c] = l]
       /\ stack' = [stack EXCEPT ![c] = Append(@, Frame(ipl[c]))]
  /\ UNCHANGED lock

InterruptReturn(c) ==
  /\ FrameAt(c, "out") /\ Depth(c) > 1
  /\ splx(c, Top(c).ret)
  /\ stack' = [stack EXCEPT ![c] = SubSeq(@, 1, Depth(c) - 1)]
  /\ UNCHANGED lock

\* The spin loops go round while the lock is held.
Spin(c) ==
  /\ FrameAt(c, "spin") \/ FrameAt(c, "set_spin")
  /\ lock # 0
  /\ UNCHANGED lockSplVars

\* A thread that goes to a higher level for reasons of its own, and back.
OtherSpl(c) ==
  /\ FrameAt(c, "out") /\ Depth(c) = 1
  /\ ipl' = [ipl EXCEPT ![c] = IF @ = 0 THEN OtherLevel ELSE 0]
  /\ UNCHANGED <<lock, stack>>

\* A frame inside the lock routines or holding the lock goes on.
Progress(c) ==
  \/ lss_try(c) \/ SpinLower(c) \/ SpinRaise(c) \/ lock_clear_splx(c) \/ lcs_spl(c)
  \/ lock_set_spin(c) \/ lock_clear(c)

Begin(c) ==
  \/ lock_set_spl(c) \/ lock_set(c) \/ lock_try(c)
  \/ Spin(c) \/ Interrupt(c) \/ InterruptReturn(c) \/ OtherSpl(c)

LockSplNext == \E c \in CPU : Progress(c) \/ Begin(c)

LockSplSpec == LockSplInit /\ [][LockSplNext]_lockSplVars

\* A processor executes: a frame that can go on does.
LockSplFairSpec == LockSplSpec /\ \A c \in CPU : WF_lockSplVars(Progress(c))

-----------------------------------------------------------------------------
Holds(c, i) == stack[c][i].pc \in {"held", "set"}
Waits(c, i) == stack[c][i].pc \in {"try", "miss", "spin", "set_spin"}

\* The lock byte is zero or -1, levels are levels, and a processor has at
\* most one frame for the thread and each level of IntrLevels.
LockSplTypeOK ==
  /\ lock \in {0, -1}
  /\ ipl \in [CPU -> 0 .. 15]
  /\ \A c \in CPU :
       /\ Depth(c) \in 1 .. new_pil + 1
       /\ \A i \in 1 .. Depth(c) :
            /\ stack[c][i].pc \in {"out", "try", "miss", "spin", "held", "cleared", "set", "set_spin"}
            /\ {stack[c][i].ret, stack[c][i].entry, stack[c][i].old_pil} \subseteq 0 .. 15

\* At most one frame of one processor holds the lock, and only a lock byte
\* of -1 says so.
OneHolder ==
  \A c, d \in CPU : \A i \in 1 .. Depth(c), j \in 1 .. Depth(d) :
    Holds(c, i) => /\ lock = -1
                   /\ Holds(d, j) => c = d /\ i = j

\* No handler waits for the lock on top of the frame that holds it on the
\* same processor, which could never run again to release it.  The order of
\* the steps in lock_set_spl() and lock_clear_splx() is there for this.
NoSelfDeadlock ==
  \A c \in CPU : \A i \in 1 .. Depth(c) - 1 :
    ~(Holds(c, i) /\ \E j \in i + 1 .. Depth(c) : Waits(c, j))

\* Taking the lock never lowers the level, so a thread that was above
\* new_pil stays protected from what it had masked.
HolderLevel ==
  \A c \in CPU : FrameAt(c, "held") => ipl[c] >= Top(c).entry

\* lock_clear_splx() returns to the level at which lock_set_spl() was
\* called, whether the lock was free or lock_set_spl_spin() waited for it.
LevelRestored ==
  [][\A c \in CPU : (FrameAt(c, "cleared") /\ stack'[c] # stack[c] /\ Len(stack'[c]) = Depth(c))
                      => ipl'[c] = Top(c).entry]_lockSplVars

\* A lock that is held is released again, whatever interrupts arrive.
LockIsReleased == (lock # 0) ~> (lock = 0)

=============================================================================
