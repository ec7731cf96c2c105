-------------------------------- MODULE Swtch --------------------------------
(***************************************************************************)
(* The context switch of the ia32 kernel: resume(), resume_from_zombie()   *)
(* and resume_from_intr() of ml/swtch.s, with the lazy floating point      *)
(* save and restore of ml/float.s and ml/exception.s (ndptrap) that runs   *)
(* inside it.  The dispatcher (which thread runs next), the interrupt      *)
(* entry code and the reaper are outside the repository; they are modelled *)
(* from how the switch code uses them.                                     *)
(***************************************************************************)
EXTENDS SwtchState

\* The step of processor c from one program point to the next.
Goto(c, from, to) ==
  /\ pc[c] = from
  /\ pc' = [pc EXCEPT ![c] = to]

LwpOf(t) == IF t \in User THEN t ELSE NoThread

\* The thread at the bottom of the chain of pinned threads of processor c.
Base(c) == IF pinned[c] = <<>> THEN cpu_thread[c] ELSE pinned[c][1]

-----------------------------------------------------------------------------
\* Every processor runs its idle thread; user threads are runnable, as
\* thread_create() leaves them: T_SP and T_PC set, the resume lock clear.
Init ==
  /\ pc = [c \in CPU |-> "run"]
  /\ cpu_thread = [c \in CPU |-> idle[c]]
  /\ stack = [c \in CPU |-> idle[c]]
  /\ old = [c \in CPU |-> NoThread]
  /\ new = [c \in CPU |-> NoThread]
  /\ t_lock = [t \in Thread |-> t \in Idle]
  /\ t_state = [t \in Thread |-> CASE t \in User -> "run"
                                   [] t \in Intr -> "free"
                                   [] t \in Idle -> "onproc"]
  /\ pinned = [c \in CPU |-> <<>>]
  /\ t_cpu \in [Thread -> CPU]
  /\ \A c \in CPU : t_cpu[idle[c]] = c
  /\ saved = [t \in Thread |-> t \in User]
  /\ reapq = {}
  /\ ldt = [c \in CPU |-> procp[idle[c]]]
  /\ hat = [c \in CPU |-> procp[idle[c]]]
  /\ esp0 = [c \in CPU |-> idle[c]]
  /\ cpu_lwp = [c \in CPU |-> NoThread]
  /\ ts = [c \in CPU |-> TRUE]
  /\ fpu = [c \in CPU |-> NoThread]
  /\ fpu_flags = [t \in Thread |-> {}]
  /\ pcb = [t \in Thread |-> "stale"]

-----------------------------------------------------------------------------
(* The dispatcher, as the switch code sees it.                             *)

\* The running thread stops running: it goes back on a dispatch queue, goes
\* to sleep, or (an idle thread) notices that something is runnable.  From
\* this step on another processor may dispatch it, while it still runs here.
GiveUp(c) ==
  LET t == cpu_thread[c] IN
  /\ Goto(c, "run", "swtch")
  /\ IF t \in Idle
     THEN /\ \E r \in Thread : t_state[r] = "run"
          /\ UNCHANGED t_state
     ELSE \E s \in (IF pinned[c] = <<>> THEN {"run", "sleep"} ELSE {"sleep"}) :
            t_state' = [t_state EXCEPT ![t] = s]
  /\ UNCHANGED <<cpu_thread, stack, old, new, pinned, t_lock, t_cpu, saved, reapq>>
  /\ UNCHANGED <<mmuVars, fpVars>>

\* A user thread returns from its start procedure: thread_start() calls
\* thread_exit(), which makes it a zombie and never returns.
Exit(c) ==
  LET t == cpu_thread[c] IN
  /\ t \in User
  /\ Goto(c, "run", "swtch")
  /\ t_state' = [t_state EXCEPT ![t] = "zomb"]
  /\ UNCHANGED <<cpu_thread, stack, old, new, pinned, t_lock, t_cpu, saved, reapq>>
  /\ UNCHANGED <<mmuVars, fpVars>>

\* An interrupt thread that was resumed by resume() has nobody left to
\* return to: it goes back to the free list and switches.
IntrDone(c) ==
  LET t == cpu_thread[c] IN
  /\ t \in Intr /\ pinned[c] = <<>>
  /\ Goto(c, "run", "swtch")
  /\ t_state' = [t_state EXCEPT ![t] = "free"]
  /\ UNCHANGED <<cpu_thread, stack, old, new, pinned, t_lock, t_cpu, saved, reapq>>
  /\ UNCHANGED <<mmuVars, fpVars>>

\* A sleeping thread is made runnable.
Wakeup(t) ==
  /\ t_state[t] = "sleep"
  /\ t_state' = [t_state EXCEPT ![t] = "run"]
  /\ UNCHANGED <<cpuVars, t_lock, t_cpu, saved, reapq, mmuVars, fpVars>>

\* The threads swtch() may choose on processor c: a runnable one, or the
\* idle thread when there is none.
Candidates(c) ==
  LET runnable == {t \in Thread : t_state[t] = "run"}
  IN  IF runnable # {} THEN runnable ELSE {idle[c]}

\* thread_onproc(): the chosen thread is no longer on a dispatch queue.
thread_onproc(t) == t_state' = [t_state EXCEPT ![t] = "onproc"]

\* swtch() chose the thread that is still current: resume() is not called.
SwtchSelf(c) ==
  LET t == cpu_thread[c] IN
  /\ t \in Candidates(c)
  /\ pinned[c] = <<>>
  /\ Goto(c, "swtch", "run")
  /\ thread_onproc(t)
  /\ UNCHANGED <<cpu_thread, stack, old, new, pinned, t_lock, t_cpu, saved, reapq>>
  /\ UNCHANGED <<mmuVars, fpVars>>

\* SAVE_REGS: the outgoing thread's registers, stack pointer and return
\* address go to its thread structure; t is the incoming thread.
SAVE_REGS(c, t) ==
  /\ saved' = [saved EXCEPT ![cpu_thread[c]] = TRUE]
  /\ old' = [old EXCEPT ![c] = cpu_thread[c]]
  /\ new' = [new EXCEPT ![c] = t]

-----------------------------------------------------------------------------
(* resume(t)                                                               *)

\* Entry: the current thread gives its registers away.
Resume(c, t) ==
  /\ t \in Candidates(c) \ {cpu_thread[c]}
  /\ t_state[cpu_thread[c]] # "zomb"
  /\ pinned[c] = <<>>
  /\ Goto(c, "swtch", "savectx")
  /\ SAVE_REGS(c, t)
  /\ thread_onproc(t)
  /\ UNCHANGED <<cpu_thread, stack, pinned, t_lock, t_cpu, reapq, mmuVars, fpVars>>

\* fpnsave_begin() / fpxsave_begin(): the context op of a thread with live
\* floating point state (flags exactly FPU_EN) starts an asynchronous save.
fpsave_begin(t) ==
  pcb' = IF fpu_flags[t] = {"EN"} THEN [pcb EXCEPT ![t] = "begun"] ELSE pcb

\* Mutant: the outgoing thread is unlocked while still on its stack.
SaveCtxUnlocks(c) ==
  /\ Goto(c, "savectx", "toidle")
  /\ fpsave_begin(old[c])
  /\ t_lock' = [t_lock EXCEPT ![old[c]] = FALSE]
  /\ UNCHANGED <<cpu_thread, stack, old, new, pinned, t_state, t_cpu, saved, reapq>>
  /\ UNCHANGED <<mmuVars, ts, fpu, fpu_flags>>

SaveCtx(c) ==
  /\ Goto(c, "savectx", "toidle")
  /\ fpsave_begin(old[c])
  /\ UNCHANGED <<cpu_thread, stack, old, new, pinned, thrVars, mmuVars>>
  /\ UNCHANGED <<ts, fpu, fpu_flags>>

\* "Setup LDT register": that of the incoming thread's process.
lldt(c) == ldt' = [ldt EXCEPT ![c] = procp[new[c]]]

\* Onto the idle thread's stack, with the idle thread current, then the
\* incoming thread's address space.
SwitchToIdle(c) ==
  /\ stack' = [stack EXCEPT ![c] = idle[c]]
  /\ cpu_thread' = [cpu_thread EXCEPT ![c] = idle[c]]
  /\ hat' = [hat EXCEPT ![c] = procp[new[c]]]

ToIdle(c) ==
  /\ Goto(c, "toidle", "fpu")
  /\ lldt(c)
  /\ SwitchToIdle(c)
  /\ UNCHANGED <<old, new, pinned, thrVars, esp0, cpu_lwp, fpVars>>

\* Mutant: CR0 is not written back after the save.
WaitForFpuSaveNoTs(c) ==
  /\ Goto(c, "fpu", "unlock")
  /\ IF old[c] \in User /\ fpu_flags[old[c]] = {"EN"}
     THEN /\ fpu_flags' = [fpu_flags EXCEPT ![old[c]] = {"VALID", "EN"}]
          /\ pcb' = [pcb EXCEPT ![old[c]] = "saved"]
          /\ fpu' = [fpu EXCEPT ![c] = NoThread]
          /\ UNCHANGED ts
     ELSE UNCHANGED fpVars
  /\ UNCHANGED <<cpu_thread, stack, old, new, pinned, thrVars, mmuVars>>

\* The outgoing thread's floating point save is completed before its resume
\* lock is dropped: fwait, the copy in the pcb is valid, TS is set.
WaitForFpuSave(c) ==
  /\ Goto(c, "fpu", "unlock")
  /\ IF old[c] \in User /\ fpu_flags[old[c]] = {"EN"}
     THEN /\ fpu_flags' = [fpu_flags EXCEPT ![old[c]] = {"VALID", "EN"}]
          /\ pcb' = [pcb EXCEPT ![old[c]] = IF @ = "begun" THEN "saved" ELSE @]
          /\ fpu' = [fpu EXCEPT ![c] = NoThread]
          /\ ts' = [ts EXCEPT ![c] = TRUE]
     ELSE UNCHANGED fpVars
  /\ UNCHANGED <<cpu_thread, stack, old, new, pinned, thrVars, mmuVars>>

\* Mutant: the outgoing thread stays locked until the incoming one is free.
UnlockOldLate(c) ==
  /\ Goto(c, "unlock", "lock")
  /\ ~t_lock[new[c]]
  /\ t_lock' = [t_lock EXCEPT ![old[c]] = FALSE]
  /\ UNCHANGED <<cpu_thread, stack, old, new, pinned, t_state, t_cpu, saved, reapq>>
  /\ UNCHANGED <<mmuVars, fpVars>>

\* "Clear and unlock previous thread's t_lock to allow it to be dispatched
\* by another processor."
UnlockOld(c) ==
  /\ Goto(c, "unlock", "lock")
  /\ t_lock' = [t_lock EXCEPT ![old[c]] = FALSE]
  /\ UNCHANGED <<cpu_thread, stack, old, new, pinned, t_state, t_cpu, saved, reapq>>
  /\ UNCHANGED <<mmuVars, fpVars>>

\* Mutant: the carry of btsl is not tested.
LockNewNoTest(c) ==
  /\ Goto(c, "lock", "setup")
  /\ t_lock' = [t_lock EXCEPT ![new[c]] = TRUE]
  /\ UNCHANGED <<cpu_thread, stack, old, new, pinned, t_state, t_cpu, saved, reapq>>
  /\ UNCHANGED <<mmuVars, fpVars>>

\* _resume_from_idle: spin (lock btsl) until the incoming thread's resume
\* lock is free, and take it.
LockNew(c) ==
  /\ Goto(c, "lock", "setup")
  /\ ~t_lock[new[c]]
  /\ t_lock' = [t_lock EXCEPT ![new[c]] = TRUE]
  /\ UNCHANGED <<cpu_thread, stack, old, new, pinned, t_state, t_cpu, saved, reapq>>
  /\ UNCHANGED <<mmuVars, fpVars>>

\* Mutant: the TSS keeps the kernel stack of a thread that migrates.
SetupCpuKeepsEsp0(c) ==
  /\ Goto(c, "setup", "restore")
  /\ t_cpu' = [t_cpu EXCEPT ![new[c]] = c]
  /\ esp0' = IF t_cpu[new[c]] = c THEN [esp0 EXCEPT ![c] = new[c]] ELSE esp0
  /\ cpu_thread' = [cpu_thread EXCEPT ![c] = new[c]]
  /\ cpu_lwp' = [cpu_lwp EXCEPT ![c] = LwpOf(new[c])]
  /\ stack' = [stack EXCEPT ![c] = new[c]]
  /\ UNCHANGED <<old, new, pinned, t_lock, t_state, saved, reapq, ldt, hat, fpVars>>

\* The incoming thread becomes the processor's thread: T_CPU, the kernel
\* stack in the TSS, CPU_THREAD, CPU_LWP, then its stack pointer.
SetupCpu(c) ==
  /\ Goto(c, "setup", "restore")
  /\ t_cpu' = [t_cpu EXCEPT ![new[c]] = c]
  /\ esp0' = [esp0 EXCEPT ![c] = new[c]]
  /\ cpu_thread' = [cpu_thread EXCEPT ![c] = new[c]]
  /\ cpu_lwp' = [cpu_lwp EXCEPT ![c] = LwpOf(new[c])]
  /\ stack' = [stack EXCEPT ![c] = new[c]]
  /\ UNCHANGED <<old, new, pinned, t_lock, t_state, saved, reapq, ldt, hat, fpVars>>

\* RESTORE_REGS and the jump to spl0: the thread runs and its saved
\* registers are history.
RESTORE_REGS(c) ==
  /\ Goto(c, "restore", "run")
  /\ saved' = [saved EXCEPT ![cpu_thread[c]] = FALSE]
  /\ old' = [old EXCEPT ![c] = NoThread]
  /\ new' = [new EXCEPT ![c] = NoThread]
  /\ UNCHANGED <<cpu_thread, stack, pinned, t_lock, t_state, t_cpu, reapq, mmuVars, fpVars>>

-----------------------------------------------------------------------------
(* resume_from_zombie(t)                                                   *)

ResumeFromZombie(c, t) ==
  /\ t \in Candidates(c)
  /\ t_state[cpu_thread[c]] = "zomb"
  /\ Goto(c, "swtch", "zfpu")
  /\ SAVE_REGS(c, t)
  /\ thread_onproc(t)
  /\ UNCHANGED <<cpu_thread, stack, pinned, t_lock, t_cpu, reapq, mmuVars, fpVars>>

\* Mutant: the zombie is on death-row before the processor left its stack.
ZombieFpuReaps(c) ==
  /\ Goto(c, "zfpu", "ztoidle")
  /\ lldt(c)
  /\ ts' = [ts EXCEPT ![c] = TRUE]
  /\ fpu' = [fpu EXCEPT ![c] = NoThread]
  /\ reapq' = reapq \cup {old[c]}
  /\ UNCHANGED <<cpu_thread, stack, old, new, pinned, t_lock, t_state, t_cpu, saved>>
  /\ UNCHANGED <<hat, esp0, cpu_lwp, fpu_flags, pcb>>

\* The LDT first, then "clean up the fp unit. It might be left enabled".
ZombieFpu(c) ==
  /\ Goto(c, "zfpu", "ztoidle")
  /\ lldt(c)
  /\ ts' = [ts EXCEPT ![c] = TRUE]
  /\ fpu' = [fpu EXCEPT ![c] = IF ts[c] THEN @ ELSE NoThread]
  /\ UNCHANGED <<cpu_thread, stack, old, new, pinned, thrVars, hat, esp0, cpu_lwp>>
  /\ UNCHANGED <<fpu_flags, pcb>>

ZombieToIdle(c) ==
  /\ Goto(c, "ztoidle", "reapq")
  /\ SwitchToIdle(c)
  /\ UNCHANGED <<old, new, pinned, thrVars, ldt, esp0, cpu_lwp, fpVars>>

\* "Put the zombie on death-row", its resume lock still held, and finish
\* with _resume_from_idle.
ReapqAdd(c) ==
  /\ Goto(c, "reapq", "lock")
  /\ reapq' = reapq \cup {old[c]}
  /\ UNCHANGED <<cpu_thread, stack, old, new, pinned, t_lock, t_state, t_cpu, saved>>
  /\ UNCHANGED <<mmuVars, fpVars>>

\* The reaper frees a thread on death-row; the structure is then used for a
\* new thread, runnable and ready to be resumed.
Reap(t) ==
  /\ t \in reapq
  /\ reapq' = reapq \ {t}
  /\ t_state' = [t_state EXCEPT ![t] = "run"]
  /\ t_lock' = [t_lock EXCEPT ![t] = FALSE]
  /\ saved' = [saved EXCEPT ![t] = TRUE]
  /\ fpu_flags' = [fpu_flags EXCEPT ![t] = {}]
  /\ pcb' = [pcb EXCEPT ![t] = "stale"]
  /\ UNCHANGED <<cpuVars, t_cpu, mmuVars, ts, fpu>>

-----------------------------------------------------------------------------
(* Interrupt threads and resume_from_intr(t)                               *)

\* The chain without the thread the current interrupt thread pinned.
Unpin(c) == pinned' = [pinned EXCEPT ![c] = SubSeq(@, 1, Len(@) - 1)]

\* An interrupt borrows the processor: interrupt thread i runs on its own
\* stack on top of the interrupted thread, whose resume lock stays held.
IntrEnter(c, i) ==
  LET t == cpu_thread[c] IN
  /\ pc[c] = "run"
  /\ t_state[i] = "free" /\ ~t_lock[i]
  /\ t_state' = [t_state EXCEPT ![i] = "onproc"]
  /\ t_lock' = [t_lock EXCEPT ![i] = TRUE]
  /\ pinned' = [pinned EXCEPT ![c] = Append(@, t)]
  /\ saved' = [saved EXCEPT ![t] = TRUE, ![i] = FALSE]
  /\ cpu_thread' = [cpu_thread EXCEPT ![c] = i]
  /\ stack' = [stack EXCEPT ![c] = i]
  /\ t_cpu' = [t_cpu EXCEPT ![i] = c]
  /\ UNCHANGED <<pc, old, new, reapq, mmuVars, fpVars>>

\* The interrupt thread returns to the thread it interrupted.
IntrReturn(c) ==
  LET i == cpu_thread[c]  t == t_intr(c) IN
  /\ pc[c] = "run" /\ pinned[c] # <<>>
  /\ t_state' = [t_state EXCEPT ![i] = "free"]
  /\ t_lock' = [t_lock EXCEPT ![i] = FALSE]
  /\ Unpin(c)
  /\ saved' = [saved EXCEPT ![t] = FALSE]
  /\ cpu_thread' = [cpu_thread EXCEPT ![c] = t]
  /\ stack' = [stack EXCEPT ![c] = t]
  /\ UNCHANGED <<pc, old, new, t_cpu, reapq, mmuVars, fpVars>>

\* The interrupt thread blocks: the pinned thread is resumed without taking
\* its resume lock, which the processor holds already.
ResumeFromIntr(c) ==
  /\ pinned[c] # <<>>
  /\ Goto(c, "swtch", "isetup")
  /\ SAVE_REGS(c, t_intr(c))
  /\ Unpin(c)
  /\ UNCHANGED <<cpu_thread, stack, t_lock, t_state, t_cpu, reapq, mmuVars, fpVars>>

IntrSetup(c) ==
  /\ Goto(c, "isetup", "iunlock")
  /\ cpu_thread' = [cpu_thread EXCEPT ![c] = new[c]]
  /\ stack' = [stack EXCEPT ![c] = new[c]]
  /\ UNCHANGED <<old, new, pinned, thrVars, mmuVars, fpVars>>

\* Only now, off its stack, is the interrupt thread unlocked.
IntrUnlock(c) ==
  /\ Goto(c, "iunlock", "restore")
  /\ t_lock' = [t_lock EXCEPT ![old[c]] = FALSE]
  /\ UNCHANGED <<cpu_thread, stack, old, new, pinned, t_state, t_cpu, saved, reapq>>
  /\ UNCHANGED <<mmuVars, fpVars>>

-----------------------------------------------------------------------------
(* Floating point use by the running user thread                           *)

\* An instruction changes the registers: a copy in the pcb is out of date.
FpUse(c) ==
  LET t == cpu_thread[c] IN
  /\ pc[c] = "run" /\ t \in User /\ ~ts[c]
  /\ pcb' = [pcb EXCEPT ![t] = "stale"]
  /\ UNCHANGED <<cpuVars, thrVars, mmuVars, ts, fpu, fpu_flags>>

\* fpinit(): clear TS and load the clean initial state.
fpinit(c) ==
  /\ ts' = [ts EXCEPT ![c] = FALSE]
  /\ fpu' = [fpu EXCEPT ![c] = cpu_thread[c]]

\* ndptrap() without FPU_EN: the trap handler enables floating point for
\* the thread and initialises the FPU.
NdpTrapFirst(c) ==
  LET t == cpu_thread[c] IN
  /\ pc[c] = "run" /\ t \in User /\ ts[c]
  /\ "EN" \notin fpu_flags[t]
  /\ fpinit(c)
  /\ fpu_flags' = [fpu_flags EXCEPT ![t] = {"EN"}]
  /\ pcb' = [pcb EXCEPT ![t] = "stale"]
  /\ UNCHANGED <<cpuVars, thrVars, mmuVars>>

\* frstor / fxrstor from the save area of t, which only loads the state of
\* t if the area holds it.
frstor(c, t) ==
  /\ ts' = [ts EXCEPT ![c] = FALSE]
  /\ fpu' = [fpu EXCEPT ![c] = IF pcb[t] = "saved" THEN t ELSE NoThread]

\* ndptrap() after a context switch: clts, clear FPU_VALID, restore.
ndptrap(c) ==
  LET t == cpu_thread[c] IN
  /\ pc[c] = "run" /\ t \in User /\ ts[c]
  /\ "EN" \in fpu_flags[t]
  /\ fpu_flags' = [fpu_flags EXCEPT ![t] = @ \ {"VALID"}]
  /\ frstor(c, t)
  /\ UNCHANGED <<cpuVars, thrVars, mmuVars, pcb>>

\* fpsave() / fpxsave(): a synchronous save of the running thread's state
\* (a signal frame, /proc); the FPU is disabled afterwards.
fpsave(c) ==
  LET t == cpu_thread[c] IN
  /\ pc[c] = "run" /\ t \in User
  /\ fpu_flags[t] = {"EN"}
  /\ pcb' = [pcb EXCEPT ![t] = IF fpu[c] = t THEN "saved" ELSE "stale"]
  /\ fpu_flags' = [fpu_flags EXCEPT ![t] = {"VALID", "EN"}]
  /\ fpu' = [fpu EXCEPT ![c] = NoThread]
  /\ ts' = [ts EXCEPT ![c] = TRUE]
  /\ UNCHANGED <<cpuVars, thrVars, mmuVars>>

\* fprestore() / fpxrestore(): the eager counterpart of ndptrap().
fprestore(c) ==
  LET t == cpu_thread[c] IN
  /\ pc[c] = "run" /\ t \in User
  /\ fpu_flags[t] = {"VALID", "EN"}
  /\ frstor(c, t)
  /\ fpu_flags' = [fpu_flags EXCEPT ![t] = {"EN"}]
  /\ UNCHANGED <<cpuVars, thrVars, mmuVars, pcb>>

\* fpdisable(): the thread gives its floating point context up (exec).
fpdisable(c) ==
  LET t == cpu_thread[c] IN
  /\ pc[c] = "run" /\ t \in User
  /\ "EN" \in fpu_flags[t]
  /\ fpu_flags' = [fpu_flags EXCEPT ![t] = {}]
  /\ pcb' = [pcb EXCEPT ![t] = "stale"]
  /\ fpu' = [fpu EXCEPT ![c] = NoThread]
  /\ ts' = [ts EXCEPT ![c] = TRUE]
  /\ UNCHANGED <<cpuVars, thrVars, mmuVars>>

-----------------------------------------------------------------------------
\* The steps of a switch that processor c has begun.
SwitchStep(c) ==
  \/ SwtchSelf(c) \/ SaveCtx(c) \/ ToIdle(c) \/ WaitForFpuSave(c)
  \/ UnlockOld(c) \/ LockNew(c) \/ SetupCpu(c) \/ RESTORE_REGS(c)
  \/ ZombieFpu(c) \/ ZombieToIdle(c) \/ ReapqAdd(c)
  \/ ResumeFromIntr(c) \/ IntrSetup(c) \/ IntrUnlock(c)
  \/ \E t \in Thread : Resume(c, t) \/ ResumeFromZombie(c, t)

\* What the running thread may do.
ThreadStep(c) ==
  \/ GiveUp(c) \/ Exit(c) \/ IntrDone(c) \/ IntrReturn(c)
  \/ \E i \in Intr : IntrEnter(c, i)
  \/ FpUse(c) \/ NdpTrapFirst(c) \/ ndptrap(c)
  \/ fpsave(c) \/ fprestore(c) \/ fpdisable(c)

Next ==
  \/ \E c \in CPU : SwitchStep(c) \/ ThreadStep(c)
  \/ \E t \in Thread : Wakeup(t) \/ Reap(t)

Spec == Init /\ [][Next]_vars

\* The switch code runs with interrupts blocked and never blocks itself, so
\* a processor that has begun a switch keeps executing it.
FairSpec == Spec /\ \A c \in CPU : WF_vars(SwitchStep(c))

-----------------------------------------------------------------------------
\* "a thread can only run on one processor at a time" (swtch.s:46): no two
\* processors ever execute on the same thread's kernel stack, although a
\* thread may be dispatched by a second one while the first still runs it.
OneCpuPerThread == \A c, d \in CPU : stack[c] = stack[d] => c = d

\* The registers and stack pointer a processor is about to load are the ones
\* the thread's last processor saved: no thread is resumed from a context
\* that is not saved yet or that has been consumed.
ResumedContextIsCurrent ==
  \A c \in CPU : pc[c] \in {"setup", "restore", "iunlock"} => saved[new[c]]

\* While user code runs with TS clear, the FPU registers are those of the
\* thread itself; and TS is never left clear for a thread that does not own
\* the FPU, also under interrupts and after an exit.
FpuBelongsToThread ==
  \A c \in CPU : pc[c] = "run" /\ ~ts[c]
                   => fpu[c] = Base(c) /\ fpu_flags[Base(c)] = {"EN"}

\* A thread with floating point context that any processor may dispatch has
\* its state complete in its pcb.
UnlockedFpuIsSaved ==
  \A t \in User : "EN" \in fpu_flags[t] /\ ~t_lock[t]
                   => fpu_flags[t] = {"EN", "VALID"} /\ pcb[t] = "saved"

\* Neither the lazy switch by TS nor the asynchronous save of savectx ever
\* shows a thread floating point state that is not its own and complete, on
\* the processor that has it or on the next one to dispatch it.
FpuStateIsSafe == FpuBelongsToThread /\ UnlockedFpuIsSaved

\* The LDT, address space, TSS stack and CPU_LWP of a running processor are
\* those of the thread under any interrupt threads: resume_from_intr() may
\* leave all of them alone.
MmuContextMatches ==
  \A c \in CPU : pc[c] = "run" =>
    LET b == Base(c) IN
    /\ ldt[c] = procp[b] /\ hat[c] = procp[b]
    /\ esp0[c] = b /\ cpu_lwp[c] = LwpOf(b) /\ t_cpu[b] = c

\* A zombie is on death-row only after the processor left its stack: the
\* reaper may free it at once.
ReapedStackUnused ==
  \A c \in CPU : stack[c] \notin reapq /\ cpu_thread[c] \notin reapq

\* A processor that begins a switch completes it: the spin on the incoming
\* thread's lock ends, whatever the other processors are switching between.
SwitchCompletes ==
  \A c \in CPU : pc[c] # "run" ~> pc[c] = "run"

=============================================================================
