-------------------------------- MODULE Mutex --------------------------------
(***************************************************************************)
(* The adaptive mutex of ml/lock_prim.s: the fast paths mutex_enter(),     *)
(* mutex_tryenter() and mutex_exit(), which is restarted when it is        *)
(* interrupted between its test for waiters and its store, the macros of   *)
(* sys/mutex_impl.h, and the slow paths mutex_vector_enter() and           *)
(* mutex_vector_exit() that they punt to (outside the repository).         *)
(*                                                                         *)
(* mutex_exit() releases with a plain store, and a processor announces the *)
(* thread it runs with another (CPU_THREAD, swtch.s).  x86 keeps a plain   *)
(* store in a store buffer, in order, until it drains; a locked            *)
(* instruction or an iret waits for that.                                  *)
(***************************************************************************)
EXTENDS FiniteSets, Naturals

CONSTANTS
  Thread,        \* the threads that use the mutex
  NoThread,      \* a null owner
  NCPU,          \* number of processors
  ResumeDrains   \* is resume()'s store visible before the thread's mutex_exit()?

ASSUME MutexAssumption ==
  /\ NoThread \notin Thread
  /\ NCPU \in Nat \ {0}
  /\ ResumeDrains \in BOOLEAN

VARIABLES
  m_owner,    \* MUTEX_OWNER(lp)
  m_waiters,  \* MUTEX_HAS_WAITERS(lp)
  pc,         \* pc[t]: where t is in the mutex code
  owner,      \* owner[t]: the owner mutex_vector_enter() read and has to look at
  ts_lock,    \* the thread that has the turnstile locked
  running,    \* the threads on a processor
  resumed,    \* threads off a processor that resume() will bring back, not iret
  late,       \* running threads whose CPU_THREAD store is still buffered
  clearing    \* threads whose release of the mutex is still buffered

lockVars == <<m_owner, m_waiters>>
cpuVars  == <<running, resumed, late>>
vars == <<m_owner, m_waiters, pc, owner, ts_lock, running, resumed, late, clearing>>

\* The points of the code at which t holds the mutex.
Held == {"in", "exit", "clear", "vexit", "vclear"}

\* The points at which t has the turnstile locked, at a high priority level.
TsHeld == {"setw", "recheck", "block", "vclear"}

PC == Held \cup TsHeld \cup {"out", "spin", "test", "asleep"}

Init ==
  /\ m_owner = NoThread /\ m_waiters = FALSE
  /\ pc = [t \in Thread |-> "out"]
  /\ owner = [t \in Thread |-> NoThread]
  /\ ts_lock = NoThread
  /\ running = {} /\ resumed = {} /\ late = {} /\ clearing = {}

At(t, from) == t \in running /\ pc[t] = from
Goto(t, to) == pc' = [pc EXCEPT ![t] = to]

\* A locked instruction of t executes after its buffered stores.
Drained(t) == t \notin late /\ t \notin clearing

-----------------------------------------------------------------------------
(* lock cmpxchg                                                            *)

\* Mutant: the zero flag is not tested.
cmpxchg_untested(t) == m_owner' = t /\ UNCHANGED m_waiters

\* The lock word goes from 0 to the thread pointer.
cmpxchg(t) ==
  /\ m_owner = NoThread /\ ~m_waiters
  /\ m_owner' = t
  /\ UNCHANGED m_waiters

mutex_enter(t) ==
  /\ At(t, "out") /\ Drained(t)
  /\ \/ cmpxchg(t) /\ Goto(t, "in")
     \/ (m_owner # NoThread \/ m_waiters) /\ Goto(t, "spin") /\ UNCHANGED lockVars
  /\ UNCHANGED <<owner, ts_lock, cpuVars, clearing>>

\* mutex_tryenter() and mutex_adaptive_tryenter(): on failure they return 0
\* and change nothing.
mutex_tryenter(t) ==
  /\ At(t, "out") /\ Drained(t)
  /\ cmpxchg(t) /\ Goto(t, "in")
  /\ UNCHANGED <<owner, ts_lock, cpuVars, clearing>>

\* Mutant: with waiters, compare again instead of calling mutex_vector_exit().
mutex_exit_spins(t) ==
  /\ At(t, "in") \/ At(t, "exit")
  /\ ResumeDrains => t \notin late
  /\ Goto(t, IF m_owner = t /\ ~m_waiters THEN "clear" ELSE "exit")
  /\ UNCHANGED <<lockVars, owner, ts_lock, cpuVars, clearing>>

\* mutex_exit_critical_start: compare the word with the thread pointer,
\* that is, "held by me, no waiters".  Whether the way from resume() to here
\* has drained the store buffer is not decided by these files.
mutex_exit(t) ==
  /\ At(t, "in") \/ At(t, "exit")
  /\ ResumeDrains => t \notin late
  /\ Goto(t, IF m_owner = t /\ ~m_waiters THEN "clear" ELSE "vexit")
  /\ UNCHANGED <<lockVars, owner, ts_lock, cpuVars, clearing>>

\* "clear owner AND lock": a plain store, then return.
mutex_exit_clear(t) ==
  /\ At(t, "clear")
  /\ clearing' = clearing \cup {t}
  /\ Goto(t, "out")
  /\ UNCHANGED <<lockVars, owner, ts_lock, cpuVars>>

\* Mutant: only the waiters bit is cleared.
MUTEX_CLEAR_WAITERS_only ==
  m_owner' = m_owner /\ m_waiters' = FALSE

\* MUTEX_CLEAR_LOCK_AND_WAITERS: the word becomes 0.
MUTEX_CLEAR_LOCK_AND_WAITERS ==
  m_owner' = NoThread /\ m_waiters' = FALSE

\* The stores of t become visible in program order, CPU_THREAD first.
DrainThread(t) ==
  /\ t \in late
  /\ late' = late \ {t}
  /\ UNCHANGED <<lockVars, pc, owner, ts_lock, running, resumed, clearing>>

DrainClear(t) ==
  /\ t \in clearing /\ t \notin late
  /\ clearing' = clearing \ {t}
  /\ MUTEX_CLEAR_LOCK_AND_WAITERS
  /\ UNCHANGED <<pc, owner, ts_lock, cpuVars>>

Drain(t) == DrainThread(t) \/ DrainClear(t)

-----------------------------------------------------------------------------
(* mutex_vector_enter()                                                    *)

\* Is u the thread of some processor, as the other processors see it?
OnCpu(u) == u \in running \ late

\* The owner t has noted is not looked at again.
Forget(t) == owner' = [owner EXCEPT ![t] = NoThread]

\* The mutex is free, or its owner is noted.
VectorSpin(t) ==
  /\ At(t, "spin")
  /\ \/ Drained(t) /\ cmpxchg(t) /\ Goto(t, "in") /\ UNCHANGED owner
     \/ /\ m_owner # NoThread
        /\ owner' = [owner EXCEPT ![t] = m_owner]
        /\ Goto(t, "test")
        /\ UNCHANGED lockVars
  /\ UNCHANGED <<ts_lock, cpuVars, clearing>>

\* While the owner runs, spin; otherwise lock the turnstile to block.
VectorTest(t) ==
  /\ At(t, "test")
  /\ \/ OnCpu(owner[t]) /\ Goto(t, "spin") /\ UNCHANGED ts_lock
     \/ /\ ~OnCpu(owner[t]) /\ Drained(t)
        /\ ts_lock = NoThread /\ ts_lock' = t
        /\ Goto(t, "setw")
  /\ Forget(t)
  /\ UNCHANGED <<lockVars, cpuVars, clearing>>

\* MUTEX_SET_WAITERS: compare-and-swap until the bit is in or the mutex is
\* free.
MUTEX_SET_WAITERS(t) ==
  /\ m_waiters' = (m_owner # NoThread)
  /\ UNCHANGED m_owner

VectorSetWaiters(t) ==
  /\ At(t, "setw")
  /\ MUTEX_SET_WAITERS(t)
  /\ Goto(t, "recheck")
  /\ UNCHANGED <<owner, ts_lock, cpuVars, clearing>>

\* With the bit visible, look at the owner again: free or running, spin.
VectorRecheck(t) ==
  /\ At(t, "recheck")
  /\ IF m_owner = NoThread \/ OnCpu(m_owner)
     THEN Goto(t, "spin") /\ ts_lock' = NoThread /\ UNCHANGED owner
     ELSE Goto(t, "block") /\ UNCHANGED ts_lock /\ owner' = [owner EXCEPT ![t] = m_owner]
  /\ UNCHANGED <<lockVars, cpuVars, clearing>>

\* turnstile_block(), if the bit is still there and the owner the same.
VectorBlock(t) ==
  /\ At(t, "block")
  /\ ts_lock' = NoThread
  /\ IF m_waiters /\ m_owner = owner[t]
     THEN /\ Goto(t, "asleep")
          /\ running' = running \ {t} /\ resumed' = resumed \cup {t}
     ELSE Goto(t, "spin") /\ UNCHANGED <<running, resumed>>
  /\ Forget(t)
  /\ UNCHANGED <<lockVars, late, clearing>>

(* mutex_vector_exit()                                                     *)

\* turnstile_lookup(): wait for the turnstile lock.
VectorExit(t) ==
  /\ At(t, "vexit") /\ Drained(t)
  /\ ts_lock = NoThread /\ ts_lock' = t
  /\ Goto(t, "vclear")
  /\ UNCHANGED <<lockVars, owner, cpuVars, clearing>>

\* The word is cleared and turnstile_wakeup() wakes every waiter.
VectorClear(t) ==
  /\ At(t, "vclear")
  /\ MUTEX_CLEAR_LOCK_AND_WAITERS
  /\ pc' = [u \in Thread |-> IF u = t THEN "out"
                              ELSE IF pc[u] = "asleep" THEN "spin" ELSE pc[u]]
  /\ ts_lock' = NoThread
  /\ UNCHANGED <<owner, cpuVars, clearing>>

-----------------------------------------------------------------------------
(* Preemption and dispatch                                                 *)

LeaveCpu(t) ==
  /\ t \in running /\ Drained(t)
  /\ running' = running \ {t}
  /\ UNCHANGED <<lockVars, owner, ts_lock, late, clearing>>

\* Mutant: an interrupted mutex_exit() goes on where it was.
restart_pc_none(t) == pc[t]

\* cmnint(): a thread interrupted in the critical region of mutex_exit() is
\* sent back to its beginning.
restart_pc(t) == IF pc[t] = "clear" THEN "exit" ELSE pc[t]

Preempt(t) ==
  /\ LeaveCpu(t)
  /\ pc[t] \notin TsHeld
  /\ Goto(t, restart_pc(t))
  /\ UNCHANGED resumed

\* The holder waits for something else, and is woken some time later.
Block(t) ==
  /\ LeaveCpu(t)
  /\ pc[t] = "in"
  /\ resumed' = resumed \cup {t}
  /\ UNCHANGED pc

\* An interrupted thread continues with an iret, after the store to
\* CPU_THREAD; one that called swtch() just returns from resume().
Dispatch(t) ==
  /\ t \in Thread \ running
  /\ pc[t] # "asleep"
  /\ Cardinality(running) < NCPU
  /\ running' = running \cup {t}
  /\ late' = IF t \in resumed THEN late \cup {t} ELSE late
  /\ resumed' = resumed \ {t}
  /\ UNCHANGED <<lockVars, pc, owner, ts_lock, clearing>>

\* The steps of a thread that wants, holds or releases the mutex.
Step(t) ==
  \/ mutex_exit(t) \/ mutex_exit_clear(t) \/ VectorExit(t) \/ VectorClear(t)
  \/ VectorSpin(t) \/ VectorTest(t) \/ VectorSetWaiters(t)
  \/ VectorRecheck(t) \/ VectorBlock(t)

Moves(t) ==
  \/ mutex_enter(t) \/ mutex_tryenter(t) \/ Step(t)
  \/ Drain(t) \/ Preempt(t) \/ Block(t) \/ Dispatch(t)

Next == \E t \in Thread : Moves(t)

Spec == Init /\ [][Next]_vars

\* The dispatcher comes back to every runnable thread, a thread is not always
\* preempted before its next step of the mutex code (which includes that it
\* leaves its critical section some time), and store buffers drain (only a
\* running thread has something to drain, and it does not leave its processor
\* before, so one condition serves dispatch and drain).
FairSpec ==
  /\ Spec
  /\ \A t \in Thread : SF_vars(Dispatch(t) \/ Drain(t)) /\ SF_vars(Step(t))

-----------------------------------------------------------------------------
\* The registers of the mutex code name threads, only a running thread has
\* buffered stores, and the waiters bit is only ever set in a held mutex.
TypeOK ==
  /\ m_owner \in Thread \cup {NoThread} /\ m_waiters \in BOOLEAN
  /\ pc \in [Thread -> PC]
  /\ owner \in [Thread -> Thread \cup {NoThread}]
  /\ ts_lock \in Thread \cup {NoThread}
  /\ running \subseteq Thread /\ resumed \subseteq Thread
  /\ late \subseteq running /\ clearing \subseteq running
  /\ m_waiters => m_owner # NoThread

\* The mutex excludes: a thread between a successful mutex_enter() or
\* mutex_tryenter() and its release is the owner in the lock word, whatever
\* releases are still on their way to memory.
MutualExclusion ==
  \A t \in Thread : pc[t] \in Held => m_owner = t /\ t \notin clearing

\* mutex_exit() misses no wakeup: while a thread sleeps on the mutex, the
\* mutex is held with the waiters bit set and its holder is past no test
\* that missed the bit (lock_prim.s:515: "If mutex_exit() gets preempted in
\* the window between checking waiters and clearing the lock, we can miss
\* wakeups", and what cmnint() does about it).
NoMissedWakeup ==
  \A t \in Thread : pc[t] = "asleep" =>
    m_owner # NoThread /\ m_waiters /\ m_owner \notin clearing /\ pc[m_owner] # "clear"

\* The lock word and the turnstile lock say where the threads are: the owner
\* is in its critical section or its release is buffered, and a thread that
\* has the turnstile or is in mutex_exit()'s critical region is on a processor.
LockWordProtocol ==
  /\ MutualExclusion
  /\ m_owner # NoThread => pc[m_owner] \in Held \/ m_owner \in clearing
  /\ \A t \in clearing : m_owner = t /\ pc[t] = "out"
  /\ \A t \in late : pc[t] \notin TsHeld
  /\ \A t \in Thread : pc[t] \in TsHeld <=> ts_lock = t
  /\ \A t \in Thread : pc[t] \in TsHeld \cup {"clear"} => t \in running

\* Past its test for waiters, mutex_exit() runs on a processor whose CPU_THREAD
\* store is visible, and a thread about to block for an owner knows that this
\* owner has still to see the bit.
BlockProtocol ==
  /\ NoMissedWakeup
  /\ \A t \in late : pc[t] # "clear" /\ t \notin clearing
  /\ \A t \in Thread : pc[t] = "block" /\ m_waiters /\ m_owner = owner[t] =>
        m_owner \notin clearing /\ pc[m_owner] # "clear"

\* Any one of the threads: nothing in the specification tells them apart.
AThread == CHOOSE t \in Thread : TRUE

\* Whoever sleeps on the mutex is woken by the mutex_exit() of the thread that
\* holds it (said of one thread, which stands for all).
SleeperWakes == pc[AThread] = "asleep" ~> pc[AThread] # "asleep"

\* The mutex is a SleepLock: who holds it is the owner whose release is not
\* yet under way, and who sleeps is asleep in turnstile_block().  The store
\* of mutex_exit() is its release, although it becomes visible later.
SleepLock == INSTANCE SleepLock WITH
  holder <- IF m_owner \in clearing THEN NoThread ELSE m_owner,
  asleep <- {t \in Thread : pc[t] = "asleep"}

\* Every behaviour of the mutex code is one of a SleepLock.
ImplementsSleepLock == SleepLock!Spec

=============================================================================
