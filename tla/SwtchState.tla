----------------------------- MODULE SwtchState -----------------------------
(***************************************************************************)
(* The state of the context switch of the ia32 kernel (ml/swtch.s) and     *)
(* the resume lock protocol: which threads a processor holds at each point *)
(* of the switch code, and what holding a thread means.  The steps of the  *)
(* code are in Swtch.                                                      *)
(*                                                                         *)
(* A CPU is a process with a program counter in the switch code.  Threads  *)
(* are data.                                                               *)
(***************************************************************************)
EXTENDS Naturals, Sequences

CONSTANTS
  CPU,        \* the processors
  User,       \* threads with an lwp: they may use floating point and exit
  Intr,       \* interrupt threads
  NoThread,   \* the null thread pointer
  idle,       \* idle[c]: cpu_idle_thread of processor c
  procp       \* procp[t]: t_procp, the process whose LDT and hat t needs

Idle == {idle[c] : c \in CPU}

Thread == User \cup Intr \cup Idle

ASSUME ThreadAssumption ==
  /\ User \cap Intr = {} /\ User \cap Idle = {} /\ Intr \cap Idle = {}
  /\ NoThread \notin Thread
  /\ \A c, d \in CPU : idle[c] = idle[d] => c = d

VARIABLES
  pc,          \* pc[c]: where processor c is in the switch code
  cpu_thread,  \* cpu_thread[c]: the thread pointer CPU_THREAD
  stack,       \* stack[c]: the thread whose kernel stack %esp points into
  old,         \* old[c]: outgoing thread (%esi)
  new,         \* new[c]: incoming thread (%edi)
  t_lock,      \* t_lock[t]: the resume lock is held
  t_state,     \* t_state[t]: dispatcher state
  pinned,      \* pinned[c]: the t_intr chain under the interrupt threads of
               \* processor c, the thread interrupted last at the end
  t_cpu,       \* t_cpu[t]: processor t last ran on
  saved,       \* saved[t]: T_SP, T_PC and the registers in t are current
  reapq,       \* zombies on the death-row list
  ldt, hat,    \* ldt[c], hat[c]: process whose LDT / address space is loaded
  esp0,        \* esp0[c]: thread whose stack TSS_ESP0 names
  cpu_lwp,     \* cpu_lwp[c]: thread whose lwp CPU_LWP points to
  ts,          \* ts[c]: CR0_TS, the next floating point instruction traps
  fpu,         \* fpu[c]: the thread whose state is in the FPU registers
  fpu_flags,   \* fpu_flags[t]: subset of {"EN", "VALID"} (PCB_FPU_FLAGS)
  pcb          \* pcb[t]: what the save area of t holds

cpuVars == <<pc, cpu_thread, stack, old, new, pinned>>
thrVars == <<t_lock, t_state, t_cpu, saved, reapq>>
mmuVars == <<ldt, hat, esp0, cpu_lwp>>
fpVars  == <<ts, fpu, fpu_flags, pcb>>
vars    == <<cpuVars, thrVars, mmuVars, fpVars>>

PC == {"run", "swtch", "savectx", "toidle", "fpu", "unlock", "lock",
       "setup", "restore", "zfpu", "ztoidle", "reapq", "isetup", "iunlock"}

SwitchTypeOK ==
  /\ pc \in [CPU -> PC]
  /\ cpu_thread \in [CPU -> Thread] /\ stack \in [CPU -> Thread]
  /\ old \in [CPU -> Thread \cup {NoThread}]
  /\ new \in [CPU -> Thread \cup {NoThread}]
  /\ t_lock \in [Thread -> BOOLEAN] /\ saved \in [Thread -> BOOLEAN]
  /\ t_state \in [Thread -> {"run", "sleep", "onproc", "zomb", "free"}]
  /\ reapq \subseteq User

FpTypeOK ==
  /\ ts \in [CPU -> BOOLEAN]
  /\ fpu \in [CPU -> User \cup {NoThread}]
  /\ fpu_flags \in [Thread -> SUBSET {"EN", "VALID"}]
  /\ pcb \in [Thread -> {"stale", "begun", "saved"}]

\* The switch code's registers name threads, and only user threads ever get
\* on death-row or into the FPU.
TypeOK ==
  /\ SwitchTypeOK /\ FpTypeOK
  /\ pinned \in [CPU -> Seq(Thread)]
  /\ t_cpu \in [Thread -> CPU]

-----------------------------------------------------------------------------
(* The conjuncts of ResumeLockProtocol, the inductive invariant behind     *)
(* OneCpuPerThread, ResumedContextIsCurrent and ReapedStackUnused.         *)

\* The t_intr of the current interrupt thread: the thread it pinned.
t_intr(c) == pinned[c][Len(pinned[c])]

IsPinned(c, t) == \E k \in 1..Len(pinned[c]) : pinned[c][k] = t

\* Processor c is on t's stack, has t pinned, has not finished saving t, or
\* has t's lock and is about to move to its stack.
Holds(c, t) ==
  \/ stack[c] = t
  \/ IsPinned(c, t)
  \/ pc[c] \in {"fpu", "unlock", "reapq", "iunlock"} /\ old[c] = t
  \/ pc[c] \in {"setup", "isetup"} /\ new[c] = t

\* Processor c has taken new[c] from the dispatcher and is not on its stack.
Dispatching(c) ==
  pc[c] \in {"savectx", "toidle", "fpu", "unlock", "lock", "setup",
              "zfpu", "ztoidle", "reapq"}

HeldOnce ==
  \A c, d \in CPU : \A t \in Thread : Holds(c, t) /\ Holds(d, t) => c = d

HeldLocked ==
  \A c \in CPU : \A t \in Thread : Holds(c, t) => t_lock[t] \/ t = idle[c]

PinnedOnce ==
  \A c \in CPU :
    /\ ~IsPinned(c, stack[c])
    /\ pc[c] = "isetup" => ~IsPinned(c, new[c])
    /\ pc[c] = "iunlock" => ~IsPinned(c, old[c])

\* The t_intr chain: no thread twice, and only its oldest thread is not an
\* interrupt thread.
IntrChain ==
  \A c \in CPU :
    /\ \A j, k \in 1..Len(pinned[c]) : pinned[c][j] = pinned[c][k] => j = k
    /\ \A k \in 1..Len(pinned[c]) : k > 1 => pinned[c][k] \in Intr
    /\ pinned[c] # <<>> =>
         stack[c] \in Intr /\ (pc[c] = "isetup" => new[c] \in Intr)
    /\ Dispatching(c) => pinned[c] = <<>>

CpuShape ==
  \A c \in CPU :
    /\ cpu_thread[c] = stack[c]
    /\ pc[c] \in {"fpu", "unlock", "reapq", "lock", "setup"} => stack[c] = idle[c]
    /\ pc[c] \in {"savectx", "toidle", "zfpu", "ztoidle", "isetup"} => old[c] = stack[c]
    /\ pc[c] \in {"iunlock", "restore"} => new[c] = stack[c]
    /\ pc[c] \in {"savectx", "toidle", "fpu", "unlock", "zfpu", "ztoidle", "reapq",
                    "isetup", "iunlock"} => old[c] \in Thread /\ old[c] # new[c]
    /\ pc[c] \notin {"run", "swtch"} => new[c] \in Thread
    /\ Dispatching(c) => \A t \in Thread : ~IsPinned(c, t)

\* The dispatcher state of the threads a processor is switching between.
StateShape ==
  /\ \A t \in Thread : t_state[t] = "zomb" => t \in User
  /\ \A c \in CPU :
       /\ pc[c] \notin {"run", "swtch"} => t_state[new[c]] = "onproc"
       /\ pc[c] \in {"zfpu", "ztoidle", "reapq"} => t_state[old[c]] = "zomb"
       /\ pc[c] = "run" => t_state[stack[c]] = "onproc"

IdleStays ==
  \A c, d \in CPU :
    /\ Holds(c, idle[d]) => c = d
    /\ Dispatching(c) /\ new[c] = idle[d] => c = d
    /\ t_state[idle[d]] = "onproc"

DispatchedOnce ==
  \A c, d \in CPU :
    /\ Dispatching(c) /\ Dispatching(d) /\ new[c] = new[d] => c = d
    /\ Dispatching(c) /\ stack[d] = new[c] => pc[d] \notin {"run", "restore", "iunlock"}
    /\ Dispatching(c) => ~IsPinned(d, new[c])
    /\ Dispatching(c) /\ pc[d] = "isetup" => new[c] # new[d]

PinnedOnproc ==
  \A c \in CPU : \A t \in Thread : IsPinned(c, t) => t_state[t] = "onproc"

DeathRow ==
  \A t \in reapq : t_state[t] = "zomb" /\ \A c \in CPU : ~Holds(c, t)

NotRunningIsSaved ==
  \A t \in Thread : \/ saved[t]
                     \/ t_state[t] = "free"
                     \/ \E c \in CPU : stack[c] = t /\ pc[c] \in {"run", "swtch"}

\* The resume lock protocol: at every point of the switch code a thread is
\* held by at most one processor, held threads are locked, and every thread
\* that is neither running nor free has its context saved.
ResumeLockProtocol ==
  /\ TypeOK
  /\ HeldOnce /\ HeldLocked /\ PinnedOnce /\ IntrChain /\ CpuShape
  /\ StateShape /\ IdleStays
  /\ DispatchedOnce /\ PinnedOnproc /\ DeathRow /\ NotRunningIsSaved

=============================================================================
