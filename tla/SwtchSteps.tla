---------------------------- MODULE SwtchSteps ----------------------------
(***************************************************************************)
(* The steps of swtch(), resume() and resume_from_zombie() keep the lock    *)
(* protocol of Swtch, for any sets of processors and threads.  A lemma     *)
(* speaks about what a step does to the variables of the protocol, so that *)
(* steps with the same effect share one; SwtchProofs applies them to the   *)
(* actions.  Each lemma shows the conjuncts of ResumeLockProtocol in turn. *)
(***************************************************************************)
EXTENDS SwtchState, TLAPS

\* The types of the state that the protocol does not speak about.
OtherTypesOK ==
  /\ FpTypeOK
  /\ pinned \in [CPU -> Seq(Thread)]
  /\ t_cpu \in [Thread -> CPU]

\* SubSeq(s, 1, Len(s) - 1), how Unpin shortens the t_intr chain.
LEMMA PopFacts ==
  ASSUME NEW S, NEW s \in Seq(S), s # <<>>
  PROVE  /\ s[Len(s)] \in S /\ Len(s) \in Nat /\ Len(s) > 0
         /\ SubSeq(s, 1, Len(s) - 1) \in Seq(S)
         /\ Len(SubSeq(s, 1, Len(s) - 1)) = Len(s) - 1
         /\ \A k \in 1..Len(s) - 1 : SubSeq(s, 1, Len(s) - 1)[k] = s[k]
BY SMT

\* Append, how IntrEnter lengthens it.
LEMMA PushFacts ==
  ASSUME NEW S, NEW s \in Seq(S), NEW t \in S
  PROVE  /\ Append(s, t) \in Seq(S)
         /\ Len(Append(s, t)) = Len(s) + 1 /\ Len(s) \in Nat
         /\ \A k \in 1..Len(s) : Append(s, t)[k] = s[k]
         /\ Append(s, t)[Len(s) + 1] = t
BY SMT

\* A step that leaves the chains alone pins and unpins nobody.
LEMMA PinnedSame ==
  ASSUME pinned' = pinned
  PROVE  \A c \in CPU : \A t : IsPinned(c, t)' <=> IsPinned(c, t)
BY Zenon DEF IsPinned

\* A step that leaves the t_intr chains alone keeps them well formed if the
\* processors with a chain stay on interrupt threads.
LEMMA ChainSame ==
  ASSUME IntrChain, pinned' = pinned,
         \A d \in CPU : pinned[d] # <<>> =>
           stack'[d] \in Intr /\ (pc'[d] = "isetup" => new'[d] \in Intr) /\ ~Dispatching(d)'
  PROVE  IntrChain'
BY Zenon DEF IntrChain

\* An empty chain pins nobody.
LEMMA EmptyNotPinned ==
  \A c \in CPU : pinned[c] = <<>> => \A t : ~IsPinned(c, t)
BY DEF IsPinned

\* What the assumption on the constants says of single threads.
LEMMA ThreadFacts ==
  /\ \A c \in CPU : idle[c] \in Thread /\ idle[c] \notin User /\ idle[c] \notin Intr
  /\ \A c, d \in CPU : idle[c] = idle[d] => c = d
  /\ \A t \in User : t \in Thread /\ t \notin Intr
  /\ \A t \in Intr : t \in Thread
  /\ NoThread \notin Thread
BY ThreadAssumption DEF Thread, Idle

\* A step that only moves on in the switch code (savectx, the wait for the
\* floating point save, the FPU clean-up) touches no lock and no stack.
LEMMA PcOnly ==
  ASSUME ResumeLockProtocol, SwitchTypeOK, OtherTypesOK', NEW c \in CPU,
         \/ pc[c] = "savectx" /\ pc' = [pc EXCEPT ![c] = "toidle"]
         \/ pc[c] = "fpu" /\ pc' = [pc EXCEPT ![c] = "unlock"]
         \/ pc[c] = "zfpu" /\ pc' = [pc EXCEPT ![c] = "ztoidle"],
         UNCHANGED <<cpu_thread, stack, old, new, pinned, t_lock, t_state, saved, reapq>>,
         \A d \in CPU : \A u : IsPinned(d, u)' <=> IsPinned(d, u)
  PROVE  ResumeLockProtocol'
<1>1. SwitchTypeOK'
  BY ThreadFacts DEF ResumeLockProtocol, SwitchTypeOK, PC, CpuShape, StateShape
<1>2. \A d \in CPU : pinned[d] # <<>> =>
         stack'[d] \in Intr /\ (pc'[d] = "isetup" => new'[d] \in Intr) /\ ~Dispatching(d)'
  <2>1. \A d \in CPU : pinned[d] # <<>> =>
           stack[d] \in Intr /\ (pc[d] = "isetup" => new[d] \in Intr) /\ ~Dispatching(d)
    BY Zenon DEF ResumeLockProtocol, IntrChain
  <2>. QED  BY <2>1 DEF Dispatching, SwitchTypeOK
<1>3. TypeOK' /\ IntrChain'
  BY <1>1, <1>2, ChainSame, Zenon DEF ResumeLockProtocol, TypeOK, OtherTypesOK
<1>4. HeldOnce'
  BY ThreadFacts DEF ResumeLockProtocol, HeldOnce, CpuShape, SwitchTypeOK, Holds, Dispatching
<1>5. HeldLocked'
  BY ThreadFacts DEF ResumeLockProtocol, HeldLocked, CpuShape, SwitchTypeOK, Holds, Dispatching
<1>6. PinnedOnce' /\ CpuShape'
  BY ThreadFacts DEF ResumeLockProtocol, PinnedOnce, CpuShape, SwitchTypeOK, Holds, Dispatching
<1>7. StateShape'
  BY ThreadFacts DEF ResumeLockProtocol, StateShape, CpuShape, SwitchTypeOK, Holds, Dispatching
<1>8. IdleStays'
  BY ThreadFacts DEF ResumeLockProtocol, IdleStays, CpuShape, SwitchTypeOK, Holds, Dispatching
<1>9. DispatchedOnce'
  BY ThreadFacts DEF ResumeLockProtocol, DispatchedOnce, CpuShape, SwitchTypeOK, Holds, Dispatching
<1>10. PinnedOnproc'
  BY ThreadFacts, Zenon DEF ResumeLockProtocol, PinnedOnproc, SwitchTypeOK, Holds, Dispatching
<1>11. DeathRow'
  BY ThreadFacts DEF ResumeLockProtocol, DeathRow, CpuShape, SwitchTypeOK, Holds, Dispatching
<1>12. NotRunningIsSaved'
  BY ThreadFacts DEF ResumeLockProtocol, NotRunningIsSaved, CpuShape, SwitchTypeOK, Holds, Dispatching
<1>. QED
  BY <1>3, <1>4, <1>5, <1>6, <1>7, <1>8, <1>9, <1>10, <1>11, <1>12, Zenon DEF ResumeLockProtocol

\* Entry of resume() and resume_from_zombie(): the dispatcher hands each
\* runnable thread to one processor, so no two dispatch the same thread.
LEMMA Entry ==
  ASSUME ResumeLockProtocol, SwitchTypeOK, OtherTypesOK', NEW c \in CPU, NEW t \in Thread,
         \/ pc[c] = "swtch" /\ pc' = [pc EXCEPT ![c] = "savectx"]
         \/ pc[c] = "swtch" /\ pc' = [pc EXCEPT ![c] = "zfpu"] /\ t_state[cpu_thread[c]] = "zomb",
         t # cpu_thread[c],
         t_state[t] = "run" \/ t = idle[c],
         pinned[c] = <<>>,
         \A u : ~IsPinned(c, u),
         saved' = [saved EXCEPT ![cpu_thread[c]] = TRUE],
         old' = [old EXCEPT ![c] = cpu_thread[c]],
         new' = [new EXCEPT ![c] = t],
         t_state' = [t_state EXCEPT ![t] = "onproc"],
         UNCHANGED <<cpu_thread, stack, pinned, t_lock, reapq>>,
         \A d \in CPU : \A u : IsPinned(d, u)' <=> IsPinned(d, u)
  PROVE  ResumeLockProtocol'
<1>1. SwitchTypeOK'
  BY ThreadFacts DEF ResumeLockProtocol, SwitchTypeOK, PC, CpuShape, StateShape
<1>2. \A d \in CPU : pinned[d] # <<>> =>
         stack'[d] \in Intr /\ (pc'[d] = "isetup" => new'[d] \in Intr) /\ ~Dispatching(d)'
  <2>1. \A d \in CPU : pinned[d] # <<>> =>
           stack[d] \in Intr /\ (pc[d] = "isetup" => new[d] \in Intr) /\ ~Dispatching(d)
    BY Zenon DEF ResumeLockProtocol, IntrChain
  <2>. QED  BY <2>1, Zenon DEF Dispatching, SwitchTypeOK
<1>3. TypeOK' /\ IntrChain'
  BY <1>1, <1>2, ChainSame, Zenon DEF ResumeLockProtocol, TypeOK, OtherTypesOK
<1>4. HeldOnce'
  BY ThreadFacts DEF ResumeLockProtocol, HeldOnce, CpuShape, SwitchTypeOK, Holds, Dispatching
<1>5. HeldLocked'
  BY ThreadFacts DEF ResumeLockProtocol, HeldLocked, CpuShape, SwitchTypeOK, Holds, Dispatching
<1>6. PinnedOnce' /\ CpuShape'
  BY ThreadFacts DEF ResumeLockProtocol, PinnedOnce, CpuShape, SwitchTypeOK, Holds, Dispatching
<1>7. StateShape'
  BY ThreadFacts DEF ResumeLockProtocol, StateShape, CpuShape, IdleStays, SwitchTypeOK, Holds, Dispatching
<1>8. IdleStays'
  BY ThreadFacts DEF ResumeLockProtocol, IdleStays, CpuShape, HeldOnce, SwitchTypeOK, Holds, Dispatching
<1>9. DispatchedOnce'
  BY ThreadFacts DEF ResumeLockProtocol, DispatchedOnce, CpuShape, StateShape, HeldOnce, PinnedOnproc, IdleStays, SwitchTypeOK, Holds, Dispatching
<1>10. PinnedOnproc'
  BY ThreadFacts DEF ResumeLockProtocol, PinnedOnproc, SwitchTypeOK, Holds, Dispatching
<1>11. DeathRow'
  BY ThreadFacts DEF ResumeLockProtocol, DeathRow, CpuShape, SwitchTypeOK, Holds, Dispatching
<1>12. NotRunningIsSaved'
  BY ThreadFacts DEF ResumeLockProtocol, NotRunningIsSaved, CpuShape, IdleStays, SwitchTypeOK, Holds, Dispatching
<1>. QED
  BY <1>3, <1>4, <1>5, <1>6, <1>7, <1>8, <1>9, <1>10, <1>11, <1>12, Zenon DEF ResumeLockProtocol

\* Moving to the idle stack: the outgoing thread stays held, as old.
LEMMA OntoIdleStack ==
  ASSUME ResumeLockProtocol, SwitchTypeOK, OtherTypesOK', NEW c \in CPU,
         \/ pc[c] = "toidle" /\ pc' = [pc EXCEPT ![c] = "fpu"]
         \/ pc[c] = "ztoidle" /\ pc' = [pc EXCEPT ![c] = "reapq"],
         stack' = [stack EXCEPT ![c] = idle[c]],
         cpu_thread' = [cpu_thread EXCEPT ![c] = idle[c]],
         UNCHANGED <<old, new, pinned, t_lock, t_state, saved, reapq>>,
         \A d \in CPU : \A u : IsPinned(d, u)' <=> IsPinned(d, u)
  PROVE  ResumeLockProtocol'
<1>1. SwitchTypeOK'
  BY ThreadFacts DEF ResumeLockProtocol, SwitchTypeOK, PC, CpuShape, StateShape
<1>2. \A d \in CPU : pinned[d] # <<>> =>
         stack'[d] \in Intr /\ (pc'[d] = "isetup" => new'[d] \in Intr) /\ ~Dispatching(d)'
  <2>1. \A d \in CPU : pinned[d] # <<>> =>
           stack[d] \in Intr /\ (pc[d] = "isetup" => new[d] \in Intr) /\ ~Dispatching(d)
    BY Zenon DEF ResumeLockProtocol, IntrChain
  <2>. QED  BY <2>1, Zenon DEF Dispatching, SwitchTypeOK
<1>3. TypeOK' /\ IntrChain'
  BY <1>1, <1>2, ChainSame, Zenon DEF ResumeLockProtocol, TypeOK, OtherTypesOK
<1>4. HeldOnce'
  BY ThreadFacts DEF ResumeLockProtocol, HeldOnce, CpuShape, IdleStays, SwitchTypeOK, Holds, Dispatching
<1>5. HeldLocked'
  BY ThreadFacts DEF ResumeLockProtocol, HeldLocked, CpuShape, SwitchTypeOK, Holds, Dispatching
<1>6. PinnedOnce' /\ CpuShape'
  BY ThreadFacts DEF ResumeLockProtocol, PinnedOnce, CpuShape, SwitchTypeOK, Holds, Dispatching
<1>7. StateShape'
  BY ThreadFacts DEF ResumeLockProtocol, StateShape, CpuShape, SwitchTypeOK, Holds, Dispatching
<1>8. IdleStays'
  BY ThreadFacts DEF ResumeLockProtocol, IdleStays, CpuShape, SwitchTypeOK, Holds, Dispatching
<1>9. DispatchedOnce'
  BY ThreadFacts DEF ResumeLockProtocol, DispatchedOnce, CpuShape, SwitchTypeOK, Holds, Dispatching
<1>10. PinnedOnproc'
  BY ThreadFacts, Zenon DEF ResumeLockProtocol, PinnedOnproc, SwitchTypeOK, Holds, Dispatching
<1>11. DeathRow'
  BY ThreadFacts DEF ResumeLockProtocol, DeathRow, CpuShape, SwitchTypeOK, Holds, Dispatching
<1>12. NotRunningIsSaved'
  BY ThreadFacts DEF ResumeLockProtocol, NotRunningIsSaved, CpuShape, SwitchTypeOK, Holds, Dispatching
<1>. QED
  BY <1>3, <1>4, <1>5, <1>6, <1>7, <1>8, <1>9, <1>10, <1>11, <1>12, Zenon DEF ResumeLockProtocol

\* Dropping the outgoing thread's lock: it is on no stack any more.
LEMMA UnlockOldStep ==
  ASSUME ResumeLockProtocol, SwitchTypeOK, OtherTypesOK', NEW c \in CPU,
         pc[c] = "unlock" /\ pc' = [pc EXCEPT ![c] = "lock"],
         t_lock' = [t_lock EXCEPT ![old[c]] = FALSE],
         UNCHANGED <<cpu_thread, stack, old, new, pinned, t_state, saved, reapq>>,
         \A d \in CPU : \A u : IsPinned(d, u)' <=> IsPinned(d, u)
  PROVE  ResumeLockProtocol'
<1>1. SwitchTypeOK'
  BY ThreadFacts, Zenon DEF ResumeLockProtocol, SwitchTypeOK, PC, CpuShape, StateShape
<1>2. \A d \in CPU : pinned[d] # <<>> =>
         stack'[d] \in Intr /\ (pc'[d] = "isetup" => new'[d] \in Intr) /\ ~Dispatching(d)'
  <2>1. \A d \in CPU : pinned[d] # <<>> =>
           stack[d] \in Intr /\ (pc[d] = "isetup" => new[d] \in Intr) /\ ~Dispatching(d)
    BY Zenon DEF ResumeLockProtocol, IntrChain
  <2>. QED  BY <2>1, Zenon DEF Dispatching, SwitchTypeOK
<1>3. TypeOK' /\ IntrChain'
  BY <1>1, <1>2, ChainSame, Zenon DEF ResumeLockProtocol, TypeOK, OtherTypesOK
<1>4. HeldOnce'
  BY ThreadFacts DEF ResumeLockProtocol, HeldOnce, CpuShape, SwitchTypeOK, Holds, Dispatching
<1>5. HeldLocked'
  BY ThreadFacts DEF ResumeLockProtocol, HeldLocked, HeldOnce, CpuShape, SwitchTypeOK, Holds, Dispatching
<1>6. PinnedOnce' /\ CpuShape'
  BY ThreadFacts DEF ResumeLockProtocol, PinnedOnce, CpuShape, SwitchTypeOK, Holds, Dispatching
<1>7. StateShape'
  BY ThreadFacts DEF ResumeLockProtocol, StateShape, CpuShape, SwitchTypeOK, Holds, Dispatching
<1>8. IdleStays'
  BY ThreadFacts DEF ResumeLockProtocol, IdleStays, CpuShape, SwitchTypeOK, Holds, Dispatching
<1>9. DispatchedOnce'
  BY ThreadFacts DEF ResumeLockProtocol, DispatchedOnce, CpuShape, SwitchTypeOK, Holds, Dispatching
<1>10. PinnedOnproc'
  BY ThreadFacts, Zenon DEF ResumeLockProtocol, PinnedOnproc, SwitchTypeOK, Holds, Dispatching
<1>11. DeathRow'
  BY ThreadFacts DEF ResumeLockProtocol, DeathRow, CpuShape, SwitchTypeOK, Holds, Dispatching
<1>12. NotRunningIsSaved'
  BY ThreadFacts DEF ResumeLockProtocol, NotRunningIsSaved, CpuShape, SwitchTypeOK, Holds, Dispatching
<1>. QED
  BY <1>3, <1>4, <1>5, <1>6, <1>7, <1>8, <1>9, <1>10, <1>11, <1>12, Zenon DEF ResumeLockProtocol

\* Taking the incoming thread's lock: nobody else holds the thread.
LEMMA LockNewStep ==
  ASSUME ResumeLockProtocol, SwitchTypeOK, OtherTypesOK', NEW c \in CPU,
         pc[c] = "lock" /\ pc' = [pc EXCEPT ![c] = "setup"],
         ~t_lock[new[c]],
         t_lock' = [t_lock EXCEPT ![new[c]] = TRUE],
         UNCHANGED <<cpu_thread, stack, old, new, pinned, t_state, saved, reapq>>,
         \A d \in CPU : \A u : IsPinned(d, u)' <=> IsPinned(d, u)
  PROVE  ResumeLockProtocol'
<1>1. SwitchTypeOK'
  BY ThreadFacts, Zenon DEF ResumeLockProtocol, SwitchTypeOK, PC, CpuShape, StateShape
<1>2. \A d \in CPU : pinned[d] # <<>> =>
         stack'[d] \in Intr /\ (pc'[d] = "isetup" => new'[d] \in Intr) /\ ~Dispatching(d)'
  <2>1. \A d \in CPU : pinned[d] # <<>> =>
           stack[d] \in Intr /\ (pc[d] = "isetup" => new[d] \in Intr) /\ ~Dispatching(d)
    BY Zenon DEF ResumeLockProtocol, IntrChain
  <2>. QED  BY <2>1, Zenon DEF Dispatching, SwitchTypeOK
<1>3. TypeOK' /\ IntrChain'
  BY <1>1, <1>2, ChainSame, Zenon DEF ResumeLockProtocol, TypeOK, OtherTypesOK
<1>4. HeldOnce'
  BY ThreadFacts DEF ResumeLockProtocol, HeldOnce, HeldLocked, CpuShape, IdleStays, SwitchTypeOK, Holds, Dispatching
<1>5. HeldLocked'
  BY ThreadFacts DEF ResumeLockProtocol, HeldLocked, CpuShape, SwitchTypeOK, Holds, Dispatching
<1>6. PinnedOnce' /\ CpuShape'
  BY ThreadFacts DEF ResumeLockProtocol, PinnedOnce, CpuShape, SwitchTypeOK, Holds, Dispatching
<1>7. StateShape'
  BY ThreadFacts, ZenonT(60) DEF ResumeLockProtocol, StateShape, CpuShape, SwitchTypeOK, Holds, Dispatching
<1>8. IdleStays'
  BY ThreadFacts DEF ResumeLockProtocol, IdleStays, CpuShape, SwitchTypeOK, Holds, Dispatching
<1>9. DispatchedOnce'
  BY ThreadFacts DEF ResumeLockProtocol, DispatchedOnce, CpuShape, SwitchTypeOK, Holds, Dispatching
<1>10. PinnedOnproc'
  BY ThreadFacts, Zenon DEF ResumeLockProtocol, PinnedOnproc, SwitchTypeOK, Holds, Dispatching
<1>11. DeathRow'
  BY ThreadFacts DEF ResumeLockProtocol, DeathRow, CpuShape, StateShape, SwitchTypeOK, Holds, Dispatching
<1>12. NotRunningIsSaved'
  BY ThreadFacts DEF ResumeLockProtocol, NotRunningIsSaved, CpuShape, SwitchTypeOK, Holds, Dispatching
<1>. QED
  BY <1>3, <1>4, <1>5, <1>6, <1>7, <1>8, <1>9, <1>10, <1>11, <1>12, Zenon DEF ResumeLockProtocol

\* Moving to the incoming thread's stack, with its lock held.
LEMMA SetupStep ==
  ASSUME ResumeLockProtocol, SwitchTypeOK, OtherTypesOK', NEW c \in CPU,
         pc[c] = "setup" /\ pc' = [pc EXCEPT ![c] = "restore"],
         stack' = [stack EXCEPT ![c] = new[c]],
         cpu_thread' = [cpu_thread EXCEPT ![c] = new[c]],
         UNCHANGED <<old, new, pinned, t_lock, t_state, saved, reapq>>,
         \A d \in CPU : \A u : IsPinned(d, u)' <=> IsPinned(d, u)
  PROVE  ResumeLockProtocol'
<1>1. SwitchTypeOK'
  BY ThreadFacts, Zenon DEF ResumeLockProtocol, SwitchTypeOK, PC, CpuShape, StateShape
<1>2. \A d \in CPU : pinned[d] # <<>> =>
         stack'[d] \in Intr /\ (pc'[d] = "isetup" => new'[d] \in Intr) /\ ~Dispatching(d)'
  <2>1. \A d \in CPU : pinned[d] # <<>> =>
           stack[d] \in Intr /\ (pc[d] = "isetup" => new[d] \in Intr) /\ ~Dispatching(d)
    BY Zenon DEF ResumeLockProtocol, IntrChain
  <2>. QED  BY <2>1, Zenon DEF Dispatching, SwitchTypeOK
<1>3. TypeOK' /\ IntrChain'
  BY <1>1, <1>2, ChainSame, Zenon DEF ResumeLockProtocol, TypeOK, OtherTypesOK
<1>4. HeldOnce'
  BY ThreadFacts DEF ResumeLockProtocol, HeldOnce, CpuShape, SwitchTypeOK, Holds, Dispatching
<1>5. HeldLocked'
  BY ThreadFacts DEF ResumeLockProtocol, HeldLocked, CpuShape, SwitchTypeOK, Holds, Dispatching
<1>6. PinnedOnce' /\ CpuShape'
  BY ThreadFacts DEF ResumeLockProtocol, PinnedOnce, CpuShape, SwitchTypeOK, Holds, Dispatching
<1>7. StateShape'
  BY ThreadFacts, ZenonT(60) DEF ResumeLockProtocol, StateShape, CpuShape, SwitchTypeOK, Holds, Dispatching
<1>8. IdleStays'
  BY ThreadFacts DEF ResumeLockProtocol, IdleStays, CpuShape, SwitchTypeOK, Holds, Dispatching
<1>9. DispatchedOnce'
  BY ThreadFacts DEF ResumeLockProtocol, DispatchedOnce, CpuShape, SwitchTypeOK, Holds, Dispatching
<1>10. PinnedOnproc'
  BY ThreadFacts, Zenon DEF ResumeLockProtocol, PinnedOnproc, SwitchTypeOK, Holds, Dispatching
<1>11. DeathRow'
  BY ThreadFacts DEF ResumeLockProtocol, DeathRow, CpuShape, SwitchTypeOK, Holds, Dispatching
<1>12. NotRunningIsSaved'
  BY ThreadFacts DEF ResumeLockProtocol, NotRunningIsSaved, CpuShape, SwitchTypeOK, Holds, Dispatching
<1>. QED
  BY <1>3, <1>4, <1>5, <1>6, <1>7, <1>8, <1>9, <1>10, <1>11, <1>12, Zenon DEF ResumeLockProtocol

\* Consuming the saved context: the processor is the one that runs it.
LEMMA RestoreStep ==
  ASSUME ResumeLockProtocol, SwitchTypeOK, OtherTypesOK', NEW c \in CPU,
         pc[c] = "restore" /\ pc' = [pc EXCEPT ![c] = "run"],
         saved' = [saved EXCEPT ![cpu_thread[c]] = FALSE],
         old' = [old EXCEPT ![c] = NoThread],
         new' = [new EXCEPT ![c] = NoThread],
         UNCHANGED <<cpu_thread, stack, pinned, t_lock, t_state, reapq>>,
         \A d \in CPU : \A u : IsPinned(d, u)' <=> IsPinned(d, u)
  PROVE  ResumeLockProtocol'
<1>1. SwitchTypeOK'
  BY ThreadFacts, Zenon DEF ResumeLockProtocol, SwitchTypeOK, PC, CpuShape, StateShape
<1>2. \A d \in CPU : pinned[d] # <<>> =>
         stack'[d] \in Intr /\ (pc'[d] = "isetup" => new'[d] \in Intr) /\ ~Dispatching(d)'
  <2>1. \A d \in CPU : pinned[d] # <<>> =>
           stack[d] \in Intr /\ (pc[d] = "isetup" => new[d] \in Intr) /\ ~Dispatching(d)
    BY Zenon DEF ResumeLockProtocol, IntrChain
  <2>. QED  BY <2>1, Zenon DEF Dispatching, SwitchTypeOK
<1>3. TypeOK' /\ IntrChain'
  BY <1>1, <1>2, ChainSame, Zenon DEF ResumeLockProtocol, TypeOK, OtherTypesOK
<1>4. HeldOnce'
  BY ThreadFacts DEF ResumeLockProtocol, HeldOnce, CpuShape, SwitchTypeOK, Holds, Dispatching
<1>5. HeldLocked'
  BY ThreadFacts DEF ResumeLockProtocol, HeldLocked, CpuShape, SwitchTypeOK, Holds, Dispatching
<1>6. PinnedOnce' /\ CpuShape'
  BY ThreadFacts DEF ResumeLockProtocol, PinnedOnce, CpuShape, SwitchTypeOK, Holds, Dispatching
<1>7. StateShape'
  BY ThreadFacts DEF ResumeLockProtocol, StateShape, CpuShape, SwitchTypeOK, Holds, Dispatching
<1>8. IdleStays'
  BY ThreadFacts DEF ResumeLockProtocol, IdleStays, CpuShape, SwitchTypeOK, Holds, Dispatching
<1>9. DispatchedOnce'
  BY ThreadFacts DEF ResumeLockProtocol, DispatchedOnce, CpuShape, SwitchTypeOK, Holds, Dispatching
<1>10. PinnedOnproc'
  BY ThreadFacts, Zenon DEF ResumeLockProtocol, PinnedOnproc, SwitchTypeOK, Holds, Dispatching
<1>11. DeathRow'
  BY ThreadFacts DEF ResumeLockProtocol, DeathRow, CpuShape, SwitchTypeOK, Holds, Dispatching
<1>12. NotRunningIsSaved'
  BY ThreadFacts DEF ResumeLockProtocol, NotRunningIsSaved, CpuShape, SwitchTypeOK, Holds, Dispatching
<1>. QED
  BY <1>3, <1>4, <1>5, <1>6, <1>7, <1>8, <1>9, <1>10, <1>11, <1>12, Zenon DEF ResumeLockProtocol

\* Death-row gets the zombie once nothing holds it.
LEMMA ReapqStep ==
  ASSUME ResumeLockProtocol, SwitchTypeOK, OtherTypesOK', NEW c \in CPU,
         pc[c] = "reapq" /\ pc' = [pc EXCEPT ![c] = "lock"],
         reapq' = reapq \cup {old[c]},
         UNCHANGED <<cpu_thread, stack, old, new, pinned, t_lock, t_state, saved>>,
         \A d \in CPU : \A u : IsPinned(d, u)' <=> IsPinned(d, u)
  PROVE  ResumeLockProtocol'
<1>1. SwitchTypeOK'
  BY ThreadFacts DEF ResumeLockProtocol, SwitchTypeOK, PC, CpuShape, StateShape
<1>2. \A d \in CPU : pinned[d] # <<>> =>
         stack'[d] \in Intr /\ (pc'[d] = "isetup" => new'[d] \in Intr) /\ ~Dispatching(d)'
  <2>1. \A d \in CPU : pinned[d] # <<>> =>
           stack[d] \in Intr /\ (pc[d] = "isetup" => new[d] \in Intr) /\ ~Dispatching(d)
    BY Zenon DEF ResumeLockProtocol, IntrChain
  <2>. QED  BY <2>1, Zenon DEF Dispatching, SwitchTypeOK
<1>3. TypeOK' /\ IntrChain'
  BY <1>1, <1>2, ChainSame, Zenon DEF ResumeLockProtocol, TypeOK, OtherTypesOK
<1>4. HeldOnce'
  BY ThreadFacts DEF ResumeLockProtocol, HeldOnce, CpuShape, SwitchTypeOK, Holds, Dispatching
<1>5. HeldLocked'
  BY ThreadFacts DEF ResumeLockProtocol, HeldLocked, CpuShape, SwitchTypeOK, Holds, Dispatching
<1>6. PinnedOnce' /\ CpuShape'
  BY ThreadFacts DEF ResumeLockProtocol, PinnedOnce, CpuShape, SwitchTypeOK, Holds, Dispatching
<1>7. StateShape'
  BY ThreadFacts, ZenonT(60) DEF ResumeLockProtocol, StateShape, CpuShape, SwitchTypeOK, Holds, Dispatching
<1>8. IdleStays'
  BY ThreadFacts DEF ResumeLockProtocol, IdleStays, CpuShape, SwitchTypeOK, Holds, Dispatching
<1>9. DispatchedOnce'
  BY ThreadFacts DEF ResumeLockProtocol, DispatchedOnce, CpuShape, SwitchTypeOK, Holds, Dispatching
<1>10. PinnedOnproc'
  BY ThreadFacts, Zenon DEF ResumeLockProtocol, PinnedOnproc, SwitchTypeOK, Holds, Dispatching
<1>11. DeathRow'
  BY ThreadFacts DEF ResumeLockProtocol, DeathRow, CpuShape, StateShape, HeldOnce, SwitchTypeOK, Holds, Dispatching
<1>12. NotRunningIsSaved'
  BY ThreadFacts DEF ResumeLockProtocol, NotRunningIsSaved, CpuShape, SwitchTypeOK, Holds, Dispatching
<1>. QED
  BY <1>3, <1>4, <1>5, <1>6, <1>7, <1>8, <1>9, <1>10, <1>11, <1>12, Zenon DEF ResumeLockProtocol

\* The idle thread calls swtch().
LEMMA IdleLeaves ==
  ASSUME ResumeLockProtocol, SwitchTypeOK, OtherTypesOK', NEW c \in CPU,
         pc[c] = "run" /\ pc' = [pc EXCEPT ![c] = "swtch"],
         UNCHANGED <<cpu_thread, stack, old, new, pinned, t_lock, t_state, saved, reapq>>,
         \A d \in CPU : \A u : IsPinned(d, u)' <=> IsPinned(d, u)
  PROVE  ResumeLockProtocol'
<1>1. SwitchTypeOK'
  BY ThreadFacts, Zenon DEF ResumeLockProtocol, SwitchTypeOK, PC, CpuShape, StateShape
<1>2. \A d \in CPU : pinned[d] # <<>> =>
         stack'[d] \in Intr /\ (pc'[d] = "isetup" => new'[d] \in Intr) /\ ~Dispatching(d)'
  <2>1. \A d \in CPU : pinned[d] # <<>> =>
           stack[d] \in Intr /\ (pc[d] = "isetup" => new[d] \in Intr) /\ ~Dispatching(d)
    BY Zenon DEF ResumeLockProtocol, IntrChain
  <2>. QED  BY <2>1, Zenon DEF Dispatching, SwitchTypeOK
<1>3. TypeOK' /\ IntrChain'
  BY <1>1, <1>2, ChainSame, Zenon DEF ResumeLockProtocol, TypeOK, OtherTypesOK
<1>4. HeldOnce'
  BY ThreadFacts DEF ResumeLockProtocol, HeldOnce, CpuShape, SwitchTypeOK, Holds, Dispatching
<1>5. HeldLocked'
  BY ThreadFacts DEF ResumeLockProtocol, HeldLocked, CpuShape, SwitchTypeOK, Holds, Dispatching
<1>6. PinnedOnce' /\ CpuShape'
  BY ThreadFacts DEF ResumeLockProtocol, PinnedOnce, CpuShape, SwitchTypeOK, Holds, Dispatching
<1>7. StateShape'
  BY ThreadFacts, ZenonT(60) DEF ResumeLockProtocol, StateShape, CpuShape, SwitchTypeOK, Holds, Dispatching
<1>8. IdleStays'
  BY ThreadFacts DEF ResumeLockProtocol, IdleStays, CpuShape, SwitchTypeOK, Holds, Dispatching
<1>9. DispatchedOnce'
  BY ThreadFacts DEF ResumeLockProtocol, DispatchedOnce, CpuShape, SwitchTypeOK, Holds, Dispatching
<1>10. PinnedOnproc'
  BY ThreadFacts, Zenon DEF ResumeLockProtocol, PinnedOnproc, SwitchTypeOK, Holds, Dispatching
<1>11. DeathRow'
  BY ThreadFacts DEF ResumeLockProtocol, DeathRow, CpuShape, SwitchTypeOK, Holds, Dispatching
<1>12. NotRunningIsSaved'
  BY ThreadFacts DEF ResumeLockProtocol, NotRunningIsSaved, CpuShape, SwitchTypeOK, Holds, Dispatching
<1>. QED
  BY <1>3, <1>4, <1>5, <1>6, <1>7, <1>8, <1>9, <1>10, <1>11, <1>12, Zenon DEF ResumeLockProtocol

\* swtch() keeps the current thread.
LEMMA SwtchSelfStep ==
  ASSUME ResumeLockProtocol, SwitchTypeOK, OtherTypesOK', NEW c \in CPU,
         pc[c] = "swtch" /\ pc' = [pc EXCEPT ![c] = "run"],
         t_state[cpu_thread[c]] = "run" \/ cpu_thread[c] = idle[c],
         t_state' = [t_state EXCEPT ![cpu_thread[c]] = "onproc"],
         UNCHANGED <<cpu_thread, stack, old, new, pinned, t_lock, saved, reapq>>,
         \A d \in CPU : \A u : IsPinned(d, u)' <=> IsPinned(d, u)
  PROVE  ResumeLockProtocol'
<1>1. SwitchTypeOK'
  BY ThreadFacts, Zenon DEF ResumeLockProtocol, SwitchTypeOK, PC, CpuShape, StateShape
<1>2. \A d \in CPU : pinned[d] # <<>> =>
         stack'[d] \in Intr /\ (pc'[d] = "isetup" => new'[d] \in Intr) /\ ~Dispatching(d)'
  <2>1. \A d \in CPU : pinned[d] # <<>> =>
           stack[d] \in Intr /\ (pc[d] = "isetup" => new[d] \in Intr) /\ ~Dispatching(d)
    BY Zenon DEF ResumeLockProtocol, IntrChain
  <2>. QED  BY <2>1, Zenon DEF Dispatching, SwitchTypeOK
<1>3. TypeOK' /\ IntrChain'
  BY <1>1, <1>2, ChainSame, Zenon DEF ResumeLockProtocol, TypeOK, OtherTypesOK
<1>4. HeldOnce'
  BY ThreadFacts DEF ResumeLockProtocol, HeldOnce, CpuShape, SwitchTypeOK, Holds, Dispatching
<1>5. HeldLocked'
  BY ThreadFacts DEF ResumeLockProtocol, HeldLocked, CpuShape, SwitchTypeOK, Holds, Dispatching
<1>6. PinnedOnce' /\ CpuShape'
  BY ThreadFacts DEF ResumeLockProtocol, PinnedOnce, CpuShape, SwitchTypeOK, Holds, Dispatching
<1>7. StateShape'
  BY ThreadFacts DEF ResumeLockProtocol, StateShape, CpuShape, IdleStays, SwitchTypeOK, Holds, Dispatching
<1>8. IdleStays'
  BY ThreadFacts DEF ResumeLockProtocol, IdleStays, CpuShape, SwitchTypeOK, Holds, Dispatching
<1>9. DispatchedOnce'
  <2>1. \A d \in CPU : Dispatching(d) => new[d] # cpu_thread[c] /\ d # c
    BY ThreadFacts DEF ResumeLockProtocol, StateShape, IdleStays, SwitchTypeOK, Dispatching
  <2>. QED  BY <2>1, ThreadFacts DEF ResumeLockProtocol, DispatchedOnce, CpuShape, SwitchTypeOK, Dispatching
<1>10. PinnedOnproc'
  <2>1. \A d \in CPU : ~IsPinned(d, cpu_thread[c])
    BY DEF ResumeLockProtocol, CpuShape, HeldOnce, PinnedOnce, Holds, SwitchTypeOK
  <2>. QED  BY <2>1, Zenon DEF ResumeLockProtocol, PinnedOnproc, SwitchTypeOK
<1>11. DeathRow'
  BY ThreadFacts DEF ResumeLockProtocol, DeathRow, CpuShape, SwitchTypeOK, Holds, Dispatching
<1>12. NotRunningIsSaved'
  BY ThreadFacts DEF ResumeLockProtocol, NotRunningIsSaved, CpuShape, SwitchTypeOK, Holds, Dispatching
<1>. QED
  BY <1>3, <1>4, <1>5, <1>6, <1>7, <1>8, <1>9, <1>10, <1>11, <1>12, Zenon DEF ResumeLockProtocol

-----------------------------------------------------------------------------
(* Interrupt threads: IntrEnter, IntrReturn and the steps of               *)
(* resume_from_intr(), and those of the dispatcher.                        *)
-----------------------------------------------------------------------------
\* IntrEnter pins exactly the interrupted thread.
LEMMA PushPinned ==
  ASSUME pinned \in [CPU -> Seq(Thread)], NEW c \in CPU, NEW t \in Thread,
         pinned' = [pinned EXCEPT ![c] = Append(@, t)]
  PROVE  \A d \in CPU : \A u : IsPinned(d, u)' <=> IsPinned(d, u) \/ (d = c /\ u = t)
<1>. SUFFICES ASSUME NEW d \in CPU, NEW u
              PROVE  IsPinned(d, u)' <=> IsPinned(d, u) \/ (d = c /\ u = t)
  BY Zenon
<1>1. CASE d = c
  <2>1. pinned'[c] = Append(pinned[c], t)
    BY Zenon
  <2>. HIDE DEF IsPinned
  <2>2. IsPinned(c, u)' <=> \E k \in 1..Len(pinned[c]) + 1 : Append(pinned[c], t)[k] = u
    BY <2>1, PushFacts DEF IsPinned
  <2>3. (\E k \in 1..Len(pinned[c]) + 1 : Append(pinned[c], t)[k] = u)
           <=> (\E k \in 1..Len(pinned[c]) : pinned[c][k] = u) \/ u = t
    BY PushFacts
  <2>. QED  BY <1>1, <2>2, <2>3, Zenon DEF IsPinned
<1>2. CASE d # c
  BY <1>2, Zenon DEF IsPinned
<1>. QED  BY <1>1, <1>2, Zenon

\* Unpin releases exactly t_intr, which no chain holds twice.
LEMMA PopPinned ==
  ASSUME pinned \in [CPU -> Seq(Thread)], NEW c \in CPU, pinned[c] # <<>>, IntrChain,
         pinned' = [pinned EXCEPT ![c] = SubSeq(@, 1, Len(@) - 1)]
  PROVE  /\ t_intr(c) \in Thread /\ IsPinned(c, t_intr(c))
         /\ \A d \in CPU : \A u :
              IsPinned(d, u)' <=> IsPinned(d, u) /\ ~(d = c /\ u = t_intr(c))
<1>1. pinned[c] \in Seq(Thread) /\ pinned'[c] = SubSeq(pinned[c], 1, Len(pinned[c]) - 1)
  BY Zenon
<1>2. t_intr(c) \in Thread /\ IsPinned(c, t_intr(c))
  BY <1>1, PopFacts DEF t_intr, IsPinned
<1>3. ASSUME NEW u
      PROVE  IsPinned(c, u)' <=> IsPinned(c, u) /\ u # t_intr(c)
  <2>1. IsPinned(c, u)' <=> \E k \in 1..Len(pinned[c]) - 1 : pinned[c][k] = u
    BY <1>1, PopFacts DEF IsPinned
  <2>2. \A j, k \in 1..Len(pinned[c]) : pinned[c][j] = pinned[c][k] => j = k
    BY Zenon DEF IntrChain
  <2>3. Len(pinned[c]) \in Nat /\ Len(pinned[c]) > 0
    BY <1>1, PopFacts, Zenon
  <2>. QED  BY ONLY <2>1, <2>2, <2>3 DEF IsPinned, t_intr
<1>4. ASSUME NEW d \in CPU, NEW u, d # c
      PROVE  IsPinned(d, u)' <=> IsPinned(d, u)
  BY <1>4, Zenon DEF IsPinned
<1>. QED  BY <1>2, <1>3, <1>4, Zenon

\* resume_from_intr() moves to the pinned thread's stack.
LEMMA IntrSetupStep ==
  ASSUME ResumeLockProtocol, SwitchTypeOK, OtherTypesOK', NEW c \in CPU,
         pc[c] = "isetup" /\ pc' = [pc EXCEPT ![c] = "iunlock"],
         stack' = [stack EXCEPT ![c] = new[c]],
         cpu_thread' = [cpu_thread EXCEPT ![c] = new[c]],
         UNCHANGED <<old, new, pinned, t_lock, t_state, saved, reapq>>,
         \A d \in CPU : \A u : IsPinned(d, u)' <=> IsPinned(d, u)
  PROVE  ResumeLockProtocol'
<1>1. SwitchTypeOK'
  BY ThreadFacts, Zenon DEF ResumeLockProtocol, SwitchTypeOK, PC, CpuShape, StateShape
<1>2. \A d \in CPU : pinned[d] # <<>> =>
         stack'[d] \in Intr /\ (pc'[d] = "isetup" => new'[d] \in Intr) /\ ~Dispatching(d)'
  <2>1. \A d \in CPU : pinned[d] # <<>> =>
           stack[d] \in Intr /\ (pc[d] = "isetup" => new[d] \in Intr) /\ ~Dispatching(d)
    BY Zenon DEF ResumeLockProtocol, IntrChain
  <2>. QED  BY <2>1, Zenon DEF Dispatching, SwitchTypeOK
<1>3. TypeOK' /\ IntrChain'
  BY <1>1, <1>2, ChainSame, Zenon DEF ResumeLockProtocol, TypeOK, OtherTypesOK
<1>4. HeldOnce'
  BY ThreadFacts DEF ResumeLockProtocol, HeldOnce, CpuShape, SwitchTypeOK, Holds, Dispatching
<1>5. HeldLocked'
  BY ThreadFacts DEF ResumeLockProtocol, HeldLocked, CpuShape, SwitchTypeOK, Holds, Dispatching
<1>6. PinnedOnce' /\ CpuShape'
  BY ThreadFacts DEF ResumeLockProtocol, PinnedOnce, CpuShape, SwitchTypeOK, Holds, Dispatching
<1>7. StateShape'
  BY ThreadFacts, ZenonT(60) DEF ResumeLockProtocol, StateShape, CpuShape, SwitchTypeOK, Holds, Dispatching
<1>8. IdleStays'
  BY ThreadFacts DEF ResumeLockProtocol, IdleStays, CpuShape, SwitchTypeOK, Holds, Dispatching
<1>9. DispatchedOnce'
  BY ThreadFacts DEF ResumeLockProtocol, DispatchedOnce, CpuShape, SwitchTypeOK, Holds, Dispatching
<1>10. PinnedOnproc'
  BY ThreadFacts, Zenon DEF ResumeLockProtocol, PinnedOnproc, SwitchTypeOK, Holds, Dispatching
<1>11. DeathRow'
  BY ThreadFacts DEF ResumeLockProtocol, DeathRow, CpuShape, SwitchTypeOK, Holds, Dispatching
<1>12. NotRunningIsSaved'
  BY ThreadFacts DEF ResumeLockProtocol, NotRunningIsSaved, CpuShape, SwitchTypeOK, Holds, Dispatching
<1>. QED
  BY <1>3, <1>4, <1>5, <1>6, <1>7, <1>8, <1>9, <1>10, <1>11, <1>12, Zenon DEF ResumeLockProtocol

\* The interrupt thread is unlocked when its stack is free.
LEMMA IntrUnlockStep ==
  ASSUME ResumeLockProtocol, SwitchTypeOK, OtherTypesOK', NEW c \in CPU,
         pc[c] = "iunlock" /\ pc' = [pc EXCEPT ![c] = "restore"],
         t_lock' = [t_lock EXCEPT ![old[c]] = FALSE],
         UNCHANGED <<cpu_thread, stack, old, new, pinned, t_state, saved, reapq>>,
         \A d \in CPU : \A u : IsPinned(d, u)' <=> IsPinned(d, u)
  PROVE  ResumeLockProtocol'
<1>1. SwitchTypeOK'
  BY ThreadFacts, Zenon DEF ResumeLockProtocol, SwitchTypeOK, PC, CpuShape, StateShape
<1>2. \A d \in CPU : pinned[d] # <<>> =>
         stack'[d] \in Intr /\ (pc'[d] = "isetup" => new'[d] \in Intr) /\ ~Dispatching(d)'
  <2>1. \A d \in CPU : pinned[d] # <<>> =>
           stack[d] \in Intr /\ (pc[d] = "isetup" => new[d] \in Intr) /\ ~Dispatching(d)
    BY Zenon DEF ResumeLockProtocol, IntrChain
  <2>. QED  BY <2>1, Zenon DEF Dispatching, SwitchTypeOK
<1>3. TypeOK' /\ IntrChain'
  BY <1>1, <1>2, ChainSame, Zenon DEF ResumeLockProtocol, TypeOK, OtherTypesOK
<1>h. \A d \in CPU : \A u \in Thread : Holds(d, u)' => Holds(d, u)
  BY ZenonT(30) DEF Holds, SwitchTypeOK
<1>i. \A d \in CPU : Dispatching(d)' => Dispatching(d)
  BY ZenonT(30) DEF Dispatching, SwitchTypeOK
<1>4. HeldOnce'
  BY <1>h, Zenon DEF ResumeLockProtocol, HeldOnce
<1>5. HeldLocked'
  BY ThreadFacts DEF ResumeLockProtocol, HeldLocked, HeldOnce, PinnedOnce, CpuShape, SwitchTypeOK, Holds, Dispatching
<1>6. PinnedOnce' /\ CpuShape'
  BY ThreadFacts DEF ResumeLockProtocol, PinnedOnce, CpuShape, SwitchTypeOK, Holds, Dispatching
<1>7. StateShape'
  BY ThreadFacts, ZenonT(60) DEF ResumeLockProtocol, StateShape, CpuShape, SwitchTypeOK, Holds, Dispatching
<1>8. IdleStays'
  BY <1>h, <1>i, ThreadFacts, ZenonT(30) DEF ResumeLockProtocol, IdleStays
<1>9. DispatchedOnce'
  <2>1. \A d \in CPU : /\ Dispatching(d) => pc[d] \notin {"iunlock", "restore"}
                       /\ pc'[d] = "isetup" => pc[d] = "isetup"
                       /\ pc'[d] \in {"run", "restore", "iunlock"} => pc[d] \in {"run", "restore", "iunlock"}
    BY ZenonT(30) DEF Dispatching, SwitchTypeOK
  <2>. QED  BY <1>i, <2>1, ZenonT(30) DEF ResumeLockProtocol, DispatchedOnce
<1>10. PinnedOnproc'
  BY ThreadFacts, Zenon DEF ResumeLockProtocol, PinnedOnproc, SwitchTypeOK, Holds, Dispatching
<1>11. DeathRow'
  <2>1. \A u \in reapq : u \in Thread /\ t_state[u] = "zomb" /\ \A d \in CPU : ~Holds(d, u)
    BY ThreadFacts, Zenon DEF ResumeLockProtocol, DeathRow, SwitchTypeOK
  <2>. QED  BY <1>h, <2>1, ZenonT(30) DEF DeathRow
<1>12. NotRunningIsSaved'
  <2>1. \A d \in CPU : pc[d] \in {"run", "swtch"} => pc'[d] \in {"run", "swtch"}
    BY ZenonT(30) DEF SwitchTypeOK
  <2>. QED  BY <2>1, ZenonT(30) DEF ResumeLockProtocol, NotRunningIsSaved
<1>. QED
  BY <1>3, <1>4, <1>5, <1>6, <1>7, <1>8, <1>9, <1>10, <1>11, <1>12, Zenon DEF ResumeLockProtocol

\* The running thread goes back to the dispatcher, to sleep, to the free
\* list or to its end: it stays locked and on its processor's stack.
LEMMA LeaveRun ==
  ASSUME ResumeLockProtocol, SwitchTypeOK, OtherTypesOK', NEW c \in CPU, NEW s \in {"run", "sleep", "zomb", "free"},
         pc[c] = "run" /\ pc' = [pc EXCEPT ![c] = "swtch"],
         s = "zomb" => cpu_thread[c] \in User,
         \A d \in CPU : cpu_thread[c] # idle[d],
         t_state' = [t_state EXCEPT ![cpu_thread[c]] = s],
         UNCHANGED <<cpu_thread, stack, old, new, pinned, t_lock, saved, reapq>>,
         \A d \in CPU : \A u : IsPinned(d, u)' <=> IsPinned(d, u)
  PROVE  ResumeLockProtocol'
<1>h. cpu_thread[c] \in Thread /\ cpu_thread[c] = stack[c] /\ Holds(c, cpu_thread[c])
  BY Zenon DEF ResumeLockProtocol, CpuShape, SwitchTypeOK, Holds
<1>1. SwitchTypeOK'
  BY ThreadFacts, Zenon DEF ResumeLockProtocol, SwitchTypeOK, PC, CpuShape, StateShape
<1>2. \A d \in CPU : pinned[d] # <<>> =>
         stack'[d] \in Intr /\ (pc'[d] = "isetup" => new'[d] \in Intr) /\ ~Dispatching(d)'
  <2>1. \A d \in CPU : pinned[d] # <<>> =>
           stack[d] \in Intr /\ (pc[d] = "isetup" => new[d] \in Intr) /\ ~Dispatching(d)
    BY Zenon DEF ResumeLockProtocol, IntrChain
  <2>. QED  BY <2>1, Zenon DEF Dispatching, SwitchTypeOK
<1>3. TypeOK' /\ IntrChain'
  BY <1>1, <1>2, ChainSame, ZenonT(30) DEF ResumeLockProtocol, TypeOK, OtherTypesOK
<1>i. \A d \in CPU : \A u \in Thread : Holds(d, u)' => Holds(d, u)
  BY ZenonT(30) DEF Holds, SwitchTypeOK
<1>4. HeldOnce'
  BY <1>i, Zenon DEF ResumeLockProtocol, HeldOnce
<1>5. HeldLocked'
  <2>1. \A d \in CPU : \A u \in Thread : Holds(d, u) => t_lock[u] \/ u = idle[d]
    BY Zenon DEF ResumeLockProtocol, HeldLocked
  <2>. QED  BY <1>i, <2>1, Zenon DEF HeldLocked
<1>6. PinnedOnce' /\ CpuShape'
  BY ThreadFacts DEF ResumeLockProtocol, PinnedOnce, CpuShape, SwitchTypeOK, Holds, Dispatching
<1>7. StateShape'
  <2>1. \A d \in CPU : pc[d] \notin {"run", "swtch"} => new[d] # cpu_thread[c]
    <3>1. \A d \in CPU : pc[d] \in {"isetup", "iunlock", "restore"} => Holds(d, new[d])
      BY Zenon DEF ResumeLockProtocol, CpuShape, Holds
    <3>2. \A d \in CPU : Holds(d, cpu_thread[c]) => d = c
      BY <1>h, Zenon DEF ResumeLockProtocol, HeldOnce
    <3>. QED  BY <1>h, <3>1, <3>2, ZenonT(30) DEF ResumeLockProtocol, DispatchedOnce, SwitchTypeOK, PC,
                 Dispatching
  <2>2. \A d \in CPU : stack[d] = cpu_thread[c] => d = c
    BY <1>h, Zenon DEF ResumeLockProtocol, HeldOnce, Holds
  <2>3. \A u \in Thread : /\ u # cpu_thread[c] => t_state'[u] = t_state[u]
                          /\ u = cpu_thread[c] => t_state'[u] = s
    BY <1>h, Zenon DEF SwitchTypeOK
  <2>4. \A d \in CPU : /\ pc[d] \notin {"run", "swtch"} => new[d] \in Thread
                       /\ pc[d] \in {"zfpu", "ztoidle", "reapq"} => old[d] \in Thread
                       /\ stack[d] \in Thread
    BY ZenonT(30) DEF ResumeLockProtocol, CpuShape, SwitchTypeOK
  <2>5. \A d \in CPU : d # c => pc'[d] = pc[d]
    BY Zenon DEF SwitchTypeOK
  <2>6. /\ \A u \in Thread : t_state[u] = "zomb" => u \in User
        /\ \A d \in CPU :
             /\ pc[d] \notin {"run", "swtch"} => t_state[new[d]] = "onproc"
             /\ pc[d] \in {"zfpu", "ztoidle", "reapq"} => t_state[old[d]] = "zomb"
             /\ pc[d] = "run" => t_state[stack[d]] = "onproc"
    BY Zenon DEF ResumeLockProtocol, StateShape
  <2>7. t_state[cpu_thread[c]] = "onproc" /\ pc'[c] = "swtch"
    <3>1. pc'[c] = "swtch"
      BY Zenon DEF SwitchTypeOK
    <3>2. t_state[stack[c]] = "onproc"
      <4>1. pc[c] = "run"
        BY Zenon
      <4>. QED  BY ONLY <2>6, <4>1, c \in CPU, Zenon
    <3>. QED  BY ONLY <1>h, <3>1, <3>2, Zenon
  <2>8. \A u \in Thread : t_state'[u] = "zomb" => u \in User
    BY <2>3, <2>6, Zenon
  <2>9. \A d \in CPU :
          /\ pc'[d] \notin {"run", "swtch"} => t_state'[new'[d]] = "onproc"
          /\ pc'[d] \in {"zfpu", "ztoidle", "reapq"} => t_state'[old'[d]] = "zomb"
          /\ pc'[d] = "run" => t_state'[stack'[d]] = "onproc"
    <3>. SUFFICES ASSUME NEW d \in CPU
                  PROVE  /\ pc'[d] \notin {"run", "swtch"} => t_state'[new'[d]] = "onproc"
                         /\ pc'[d] \in {"zfpu", "ztoidle", "reapq"} => t_state'[old'[d]] = "zomb"
                         /\ pc'[d] = "run" => t_state'[stack'[d]] = "onproc"
      BY Zenon
    <3>1. CASE d = c
      BY <2>7, <3>1, Zenon
    <3>2. CASE d # c
      <4>1. pc'[d] = pc[d] /\ new'[d] = new[d] /\ old'[d] = old[d] /\ stack'[d] = stack[d]
        BY <2>5, <3>2, Zenon
      <4>2. pc[d] \notin {"run", "swtch"} => t_state'[new[d]] = "onproc"
        BY ONLY <2>1, <2>3, <2>4, <2>6, d \in CPU, Zenon
      <4>3. pc[d] \in {"zfpu", "ztoidle", "reapq"} => t_state'[old[d]] = "zomb"
        <5>1. SUFFICES ASSUME pc[d] \in {"zfpu", "ztoidle", "reapq"}
                       PROVE  t_state'[old[d]] = "zomb"
          BY Zenon
        <5>2. t_state[old[d]] = "zomb" /\ old[d] \in Thread
          BY <2>4, <2>6, <5>1, Zenon
        <5>3. old[d] # cpu_thread[c]
          BY ONLY <2>7, <5>2, Zenon
        <5>. QED  BY ONLY <2>3, <5>2, <5>3, Zenon
      <4>4. pc[d] = "run" => t_state'[stack[d]] = "onproc"
        <5>1. stack[d] # cpu_thread[c] /\ stack[d] \in Thread
          BY ONLY <2>2, <2>4, <3>2, d \in CPU, Zenon
        <5>2. t_state'[stack[d]] = t_state[stack[d]]
          BY ONLY <2>3, <5>1, Zenon
        <5>. QED  BY ONLY <2>6, <5>2, d \in CPU, Zenon
      <4>. QED  BY ONLY <4>1, <4>2, <4>3, <4>4, Zenon
    <3>. QED  BY <3>1, <3>2, Zenon
  <2>. QED  BY <2>8, <2>9, Zenon DEF StateShape
<1>j. \A d \in CPU : Dispatching(d)' => Dispatching(d)
  BY ZenonT(30) DEF Dispatching, SwitchTypeOK
<1>k. /\ t_state[cpu_thread[c]] = "onproc"
      /\ \A u \in Thread : u # cpu_thread[c] => t_state'[u] = t_state[u]
  <2>1. t_state[stack[c]] = "onproc"
    BY Zenon DEF ResumeLockProtocol, StateShape
  <2>. QED  BY <1>h, <2>1, Zenon DEF SwitchTypeOK
<1>8. IdleStays'
  BY <1>i, <1>j, <1>k, ThreadFacts, ZenonT(30) DEF ResumeLockProtocol, IdleStays
<1>9. DispatchedOnce'
  <2>1. \A d \in CPU : /\ pc'[d] = "isetup" => pc[d] = "isetup"
                       /\ pc'[d] \in {"run", "restore", "iunlock"} => pc[d] \in {"run", "restore", "iunlock"}
    BY ZenonT(30) DEF SwitchTypeOK
  <2>. QED  BY <1>j, <2>1, ZenonT(30) DEF ResumeLockProtocol, DispatchedOnce
<1>10. PinnedOnproc'
  <2>1. \A d \in CPU : ~IsPinned(d, cpu_thread[c])
    <3>1. \A d \in CPU : IsPinned(d, cpu_thread[c]) => d = c
      BY <1>h, Zenon DEF ResumeLockProtocol, HeldOnce, Holds
    <3>. QED  BY <1>h, <3>1, Zenon DEF ResumeLockProtocol, PinnedOnce
  <2>. QED  BY <2>1, Zenon DEF ResumeLockProtocol, PinnedOnproc, SwitchTypeOK
<1>11. DeathRow'
  <2>1. \A u \in reapq : u \in Thread /\ t_state[u] = "zomb" /\ \A d \in CPU : ~Holds(d, u)
    BY ThreadFacts, Zenon DEF ResumeLockProtocol, DeathRow, SwitchTypeOK
  <2>. QED  BY <1>i, <1>k, <2>1, ZenonT(30) DEF DeathRow
<1>12. NotRunningIsSaved'
  <2>1. \A d \in CPU : pc[d] \in {"run", "swtch"} => pc'[d] \in {"run", "swtch"}
    BY ZenonT(30) DEF SwitchTypeOK
  <2>2. stack[c] = cpu_thread[c] /\ pc'[c] \in {"run", "swtch"}
    <3>1. pc[c] \in {"run", "swtch"}
      BY Zenon
    <3>2. pc'[c] \in {"run", "swtch"}
      BY ONLY <2>1, <3>1, c \in CPU, Zenon
    <3>. QED  BY ONLY <1>h, <3>2, Zenon
  <2>3. \A u \in Thread : \/ saved[u]
                           \/ t_state[u] = "free"
                           \/ \E d \in CPU : stack[d] = u /\ pc[d] \in {"run", "swtch"}
    BY Zenon DEF ResumeLockProtocol, NotRunningIsSaved
  <2>4. stack' = stack /\ saved' = saved
    BY Zenon
  <2>5. \A u \in Thread : \/ saved'[u]
                           \/ t_state'[u] = "free"
                           \/ \E d \in CPU : stack'[d] = u /\ pc'[d] \in {"run", "swtch"}
    <3>1. ASSUME NEW u \in Thread, ~saved[u], t_state'[u] # "free"
          PROVE  \E d \in CPU : stack[d] = u /\ pc'[d] \in {"run", "swtch"}
      <4>1. CASE u = cpu_thread[c]
        BY ONLY <2>2, <4>1, c \in CPU, Zenon
      <4>2. CASE t_state[u] # "free"
        <5>1. PICK d \in CPU : stack[d] = u /\ pc[d] \in {"run", "swtch"}
          BY ONLY <2>3, <3>1, <4>2, Zenon
        <5>. QED  BY ONLY <2>1, <5>1, Zenon
      <4>. QED  BY ONLY <1>k, <3>1, <4>1, <4>2, Zenon
    <3>. QED  BY ONLY <2>4, <3>1, Zenon
  <2>. QED  BY <2>5, Zenon DEF NotRunningIsSaved
<1>. QED
  BY <1>3, <1>4, <1>5, <1>6, <1>7, <1>8, <1>9, <1>10, <1>11, <1>12, Zenon DEF ResumeLockProtocol

\* IntrEnter puts a thread that is not on the chain at its end, and only
\* an interrupt thread on a chain that was not empty.
LEMMA EnterChain ==
  ASSUME IntrChain, PinnedOnce, SwitchTypeOK, pinned \in [CPU -> Seq(Thread)],
         NEW c \in CPU, NEW i \in Intr, pc[c] = "run", UNCHANGED <<pc, new>>,
         stack' = [stack EXCEPT ![c] = i],
         pinned' = [pinned EXCEPT ![c] = Append(@, stack[c])]
  PROVE  IntrChain'
<1>1. /\ pinned[c] \in Seq(Thread) /\ pinned'[c] = Append(pinned[c], stack[c])
      /\ stack[c] \in Thread
  BY Zenon DEF SwitchTypeOK
<1>2. Len(pinned[c]) \in Nat /\ (Len(pinned[c]) > 0 => stack[c] \in Intr)
  BY <1>1 DEF IntrChain
<1>3. \A k \in 1..Len(pinned[c]) : pinned[c][k] # stack[c]
  BY Zenon DEF PinnedOnce, IsPinned
<1>4. /\ \A j, k \in 1..Len(pinned'[c]) : pinned'[c][j] = pinned'[c][k] => j = k
      /\ \A k \in 1..Len(pinned'[c]) : k > 1 => pinned'[c][k] \in Intr
  BY <1>1, <1>2, <1>3, PushFacts DEF IntrChain
<1>5. \A d \in CPU \ {c} : pinned'[d] = pinned[d] /\ stack'[d] = stack[d]
  BY Zenon DEF SwitchTypeOK
<1>6. stack'[c] = i
  BY Zenon DEF SwitchTypeOK
<1>. QED  BY <1>4, <1>5, <1>6 DEF IntrChain, Dispatching

\* A shortened chain is a chain again; what Unpin takes off a chain that
\* stays non-empty is an interrupt thread.
LEMMA PopIntrChain ==
  ASSUME pinned \in [CPU -> Seq(Thread)], NEW c \in CPU, pinned[c] # <<>>, IntrChain,
         pinned' = [pinned EXCEPT ![c] = SubSeq(@, 1, Len(@) - 1)]
  PROVE  /\ \A j, k \in 1..Len(pinned'[c]) : pinned'[c][j] = pinned'[c][k] => j = k
         /\ \A k \in 1..Len(pinned'[c]) : k > 1 => pinned'[c][k] \in Intr
         /\ pinned'[c] # <<>> => t_intr(c) \in Intr
<1>1. pinned[c] \in Seq(Thread) /\ pinned'[c] = SubSeq(pinned[c], 1, Len(pinned[c]) - 1)
  OBVIOUS
<1>2. /\ Len(pinned[c]) \in Nat /\ Len(pinned'[c]) = Len(pinned[c]) - 1
      /\ \A k \in 1..Len(pinned'[c]) : k \in 1..Len(pinned[c]) /\ pinned'[c][k] = pinned[c][k]
  BY <1>1, PopFacts
<1>3. pinned'[c] # <<>> => Len(pinned[c]) > 1
  BY <1>1, PopFacts
<1>. QED  BY <1>2, <1>3 DEF IntrChain, t_intr

\* Unpin: the processor goes back to, or is about to resume, the thread
\* that leaves the chain.
LEMMA UnpinChain ==
  ASSUME IntrChain, SwitchTypeOK, pinned \in [CPU -> Seq(Thread)],
         NEW c \in CPU, pinned[c] # <<>>,
         pinned' = [pinned EXCEPT ![c] = SubSeq(@, 1, Len(@) - 1)],
         \/ /\ pc[c] = "run" /\ UNCHANGED <<pc, new>>
            /\ stack' = [stack EXCEPT ![c] = t_intr(c)]
         \/ /\ pc' = [pc EXCEPT ![c] = "isetup"] /\ UNCHANGED stack
            /\ new' = [new EXCEPT ![c] = t_intr(c)]
  PROVE  IntrChain'
<1>1. /\ \A j, k \in 1..Len(pinned'[c]) : pinned'[c][j] = pinned'[c][k] => j = k
      /\ \A k \in 1..Len(pinned'[c]) : k > 1 => pinned'[c][k] \in Intr
      /\ pinned'[c] # <<>> => t_intr(c) \in Intr
  BY PopIntrChain, Zenon
<1>2. \A d \in CPU \ {c} : /\ pinned'[d] = pinned[d] /\ stack'[d] = stack[d]
                           /\ pc'[d] = pc[d] /\ new'[d] = new[d]
  BY ZenonT(30) DEF SwitchTypeOK
<1>3. stack[c] \in Intr
  BY Zenon DEF IntrChain
<1>4. \/ pc'[c] = "run" /\ stack'[c] = t_intr(c)
      \/ pc'[c] = "isetup" /\ stack'[c] = stack[c] /\ new'[c] = t_intr(c)
  BY Zenon DEF SwitchTypeOK
<1>. QED  BY <1>1, <1>2, <1>3, <1>4 DEF IntrChain, Dispatching

\* An interrupt thread starts on top of the interrupted thread.
LEMMA EnterStep ==
  ASSUME ResumeLockProtocol, SwitchTypeOK, OtherTypesOK', IntrChain',
         NEW c \in CPU, NEW i \in Intr, i \in Thread,
         cpu_thread[c] \in Thread, cpu_thread[c] = stack[c],
         pc[c] = "run", t_state[i] = "free", ~t_lock[i],
         t_state' = [t_state EXCEPT ![i] = "onproc"],
         t_lock' = [t_lock EXCEPT ![i] = TRUE],
         saved' = [saved EXCEPT ![cpu_thread[c]] = TRUE, ![i] = FALSE],
         cpu_thread' = [cpu_thread EXCEPT ![c] = i],
         stack' = [stack EXCEPT ![c] = i],
         UNCHANGED <<pc, old, new, reapq>>,
         \A d \in CPU : \A u : IsPinned(d, u)' <=> IsPinned(d, u) \/ (d = c /\ u = cpu_thread[c])
  PROVE  ResumeLockProtocol'
<1>1. \A d \in CPU : ~Holds(d, i) /\ ~IsPinned(d, i) /\ stack[d] # i
  BY ThreadFacts DEF ResumeLockProtocol, HeldLocked, Holds
<1>2. TypeOK'
  <2>1. SwitchTypeOK'
    BY Zenon DEF SwitchTypeOK
  <2>. QED  BY <2>1, Zenon DEF TypeOK, OtherTypesOK
<1>a. \A d \in CPU : \A u \in Thread : Holds(d, u)' => Holds(d, u) \/ (d = c /\ u = i)
  BY ZenonT(30) DEF Holds, SwitchTypeOK
<1>3. HeldOnce'
  <2>1. HeldOnce
    BY Zenon DEF ResumeLockProtocol
  <2>. QED  BY ONLY <1>1, <1>a, <2>1, Zenon DEF HeldOnce
<1>4. HeldLocked'
  <2>1. \A d \in CPU : \A u \in Thread : Holds(d, u) => t_lock[u] \/ u = idle[d]
    BY Zenon DEF ResumeLockProtocol, HeldLocked
  <2>2. t_lock'[i] /\ \A u \in Thread : u # i => (t_lock[u] => t_lock'[u])
    BY Zenon DEF SwitchTypeOK
  <2>3. \A d \in CPU : \A u \in Thread : Holds(d, u)' => t_lock'[u] \/ u = idle[d]
    BY ONLY <1>1, <1>a, <2>1, <2>2, Zenon
  <2>. QED  BY <2>3, Zenon DEF HeldLocked
<1>5. PinnedOnce'
  BY <1>1, Zenon DEF ResumeLockProtocol, PinnedOnce, SwitchTypeOK
<1>6. CpuShape'
  BY ZenonT(60) DEF ResumeLockProtocol, CpuShape, SwitchTypeOK, Dispatching
<1>7. StateShape'
  BY DEF ResumeLockProtocol, StateShape, SwitchTypeOK
<1>8. IdleStays'
  BY ThreadFacts DEF ResumeLockProtocol, IdleStays, SwitchTypeOK, Holds, Dispatching
<1>9. DispatchedOnce'
  <2>1. \A d \in CPU : Dispatching(d) => new[d] # i /\ new[d] # stack[c]
    BY ZenonT(30) DEF ResumeLockProtocol, StateShape, DispatchedOnce, Dispatching
  <2>2. \A d \in CPU : /\ (Dispatching(d)' <=> Dispatching(d)) /\ new'[d] = new[d] /\ pc'[d] = pc[d]
                       /\ stack'[d] = IF d = c THEN i ELSE stack[d]
    BY Zenon DEF SwitchTypeOK, Dispatching
  <2>. SUFFICES ASSUME NEW e \in CPU, NEW d \in CPU, Dispatching(e)'
                PROVE  /\ (Dispatching(d) /\ new[e] = new[d])' => e = d
                       /\ (stack[d] = new[e])' => pc'[d] \notin {"run", "restore", "iunlock"}
                       /\ ~IsPinned(d, new[e])'
                       /\ pc'[d] = "isetup" => new'[e] # new'[d]
    BY Zenon DEF DispatchedOnce
  <2>3. Dispatching(e) /\ new'[e] = new[e] /\ new[e] # i /\ new[e] # stack[c]
    BY <2>1, <2>2, Zenon
  <2>4. (Dispatching(d) /\ new[e] = new[d])' => e = d
    BY <2>2, <2>3, Zenon DEF ResumeLockProtocol, DispatchedOnce
  <2>5. (stack[d] = new[e])' => pc'[d] \notin {"run", "restore", "iunlock"}
    <3>1. CASE d = c
      BY <2>2, <2>3, <3>1, Zenon
    <3>2. CASE d # c
      <4>1. stack'[d] = stack[d] /\ pc'[d] = pc[d]
        BY <2>2, <3>2, Zenon
      <4>2. stack[d] = new[e] => pc[d] \notin {"run", "restore", "iunlock"}
        BY <2>3, Zenon DEF ResumeLockProtocol, DispatchedOnce
      <4>. QED  BY <2>3, <4>1, <4>2, ZenonT(30)
    <3>. QED  BY <3>1, <3>2, Zenon
  <2>6. ~IsPinned(d, new[e])'
    BY <2>3, Zenon DEF ResumeLockProtocol, DispatchedOnce
  <2>7. pc'[d] = "isetup" => new'[e] # new'[d]
    BY <2>2, <2>3, Zenon DEF ResumeLockProtocol, DispatchedOnce
  <2>. QED  BY <2>4, <2>5, <2>6, <2>7, Zenon
<1>10. PinnedOnproc'
  BY DEF ResumeLockProtocol, PinnedOnproc, StateShape, SwitchTypeOK
<1>11. DeathRow'
  BY DEF ResumeLockProtocol, DeathRow, Holds, SwitchTypeOK
<1>12. NotRunningIsSaved'
  BY DEF ResumeLockProtocol, NotRunningIsSaved, SwitchTypeOK
<1>. QED  BY <1>2, <1>3, <1>4, <1>5, <1>6, <1>7, <1>8, <1>9, <1>10, <1>11, <1>12, ZenonT(30)
          DEF ResumeLockProtocol

\* An interrupt thread returns to the thread it pinned.
LEMMA ReturnStep ==
  ASSUME ResumeLockProtocol, SwitchTypeOK, OtherTypesOK', IntrChain',
         NEW c \in CPU, NEW i \in Intr, i \in Thread, i = stack[c], i = cpu_thread[c],
         NEW t \in Thread, IsPinned(c, t),
         pc[c] = "run",
         t_state' = [t_state EXCEPT ![i] = "free"],
         t_lock' = [t_lock EXCEPT ![i] = FALSE],
         saved' = [saved EXCEPT ![t] = FALSE],
         cpu_thread' = [cpu_thread EXCEPT ![c] = t],
         stack' = [stack EXCEPT ![c] = t],
         UNCHANGED <<pc, old, new, reapq>>,
         \A d \in CPU : \A u : IsPinned(d, u)' <=> IsPinned(d, u) /\ ~(d = c /\ u = t)
  PROVE  ResumeLockProtocol'
<1>1. i # t /\ ~IsPinned(c, i)
  BY Zenon DEF ResumeLockProtocol, PinnedOnce
<1>2. TypeOK'
  <2>1. SwitchTypeOK'
    BY Zenon DEF SwitchTypeOK
  <2>. QED  BY <2>1, Zenon DEF TypeOK, OtherTypesOK
<1>3. \A d \in CPU : \A u \in Thread : Holds(d, u)' => Holds(d, u) /\ ~(d = c /\ u = i)
  BY <1>1, ZenonT(30) DEF Holds, SwitchTypeOK
<1>4. HeldOnce'
  BY <1>3, Zenon DEF ResumeLockProtocol, HeldOnce
<1>5. HeldLocked'
  <2>1. \A d \in CPU : Holds(d, i) => d = c
    BY Zenon DEF ResumeLockProtocol, HeldOnce, Holds
  <2>2. \A d \in CPU : \A u \in Thread : Holds(d, u)' => u # i
    BY <1>3, <2>1, Zenon
  <2>3. \A u \in Thread : u # i => (t_lock[u] => t_lock'[u])
    BY Zenon DEF SwitchTypeOK
  <2>4. \A d \in CPU : \A u \in Thread : Holds(d, u) => t_lock[u] \/ u = idle[d]
    BY Zenon DEF ResumeLockProtocol, HeldLocked
  <2>5. \A d \in CPU : \A u \in Thread : Holds(d, u)' => t_lock'[u] \/ u = idle[d]
    BY <1>3, <2>2, <2>3, <2>4, ZenonT(30)
  <2>. QED  BY <2>5, Zenon DEF HeldLocked
<1>6. PinnedOnce'
  BY ZenonT(30) DEF ResumeLockProtocol, PinnedOnce, SwitchTypeOK
<1>7. CpuShape'
  BY ZenonT(30) DEF ResumeLockProtocol, CpuShape, SwitchTypeOK, Dispatching
<1>8. StateShape'
  <2>1. \A d \in CPU : pc[d] \notin {"run", "swtch"} => new[d] # i
    <3>1. \A d \in CPU : pc[d] \in {"isetup", "iunlock", "restore"} => Holds(d, new[d])
      BY Zenon DEF ResumeLockProtocol, CpuShape, Holds
    <3>2. \A d \in CPU : Holds(d, i) => d = c
      BY Zenon DEF ResumeLockProtocol, HeldOnce, Holds
    <3>. QED  BY <3>1, <3>2, ZenonT(30) DEF ResumeLockProtocol, DispatchedOnce, SwitchTypeOK, PC, Dispatching
  <2>2. t_state[t] = "onproc" /\ \A d \in CPU : stack[d] = i => d = c
    BY ZenonT(30) DEF ResumeLockProtocol, PinnedOnproc, HeldOnce, Holds
  <2>3. \A d \in CPU : pc[d] \in {"zfpu", "ztoidle", "reapq"} => old[d] # i
    BY Zenon DEF ResumeLockProtocol, StateShape
  <2>4. \A d \in CPU : /\ pc'[d] \notin {"run", "swtch"} => t_state'[new'[d]] = "onproc"
                       /\ pc'[d] \in {"zfpu", "ztoidle", "reapq"} => t_state'[old'[d]] = "zomb"
    <3>1. \A d \in CPU : pc[d] \notin {"run", "swtch"} => new[d] \in Thread
      BY Zenon DEF ResumeLockProtocol, CpuShape
    <3>2. \A u \in Thread : u # i => t_state'[u] = t_state[u]
      BY Zenon DEF SwitchTypeOK
    <3>3. \A d \in CPU : pc[d] \in {"zfpu", "ztoidle", "reapq"} => old[d] \in Thread
      BY ZenonT(30) DEF ResumeLockProtocol, CpuShape
    <3>. QED  BY <2>1, <2>3, <3>1, <3>2, <3>3, ZenonT(30) DEF ResumeLockProtocol, StateShape
  <2>5. \A d \in CPU : pc'[d] = "run" => t_state'[stack'[d]] = "onproc"
    <3>1. \A u \in Thread : u # i => t_state'[u] = t_state[u]
      BY Zenon DEF SwitchTypeOK
    <3>2. \A d \in CPU : /\ pc'[d] = pc[d] /\ stack[d] \in Thread
                         /\ d # c => stack'[d] = stack[d]
      BY Zenon DEF SwitchTypeOK
    <3>3. stack'[c] = t
      BY Zenon DEF SwitchTypeOK
    <3>4. \A d \in CPU : pc[d] = "run" => t_state[stack[d]] = "onproc"
      BY Zenon DEF ResumeLockProtocol, StateShape
    <3>5. t_state'[t] = "onproc"
      BY <1>1, <2>2, <3>1, Zenon
    <3>6. ASSUME NEW d \in CPU, d # c, pc'[d] = "run"
          PROVE  t_state'[stack'[d]] = "onproc"
      <4>1. stack'[d] = stack[d] /\ pc[d] = "run" /\ stack[d] \in Thread /\ stack[d] # i
        BY ONLY <2>2, <3>2, <3>6, Zenon
      <4>. QED  BY ONLY <3>1, <3>4, <4>1, d \in CPU, Zenon
    <3>. QED  BY ONLY <3>3, <3>5, <3>6, Zenon
  <2>6. \A u \in Thread : t_state'[u] = "zomb" => u \in User
    BY Zenon DEF ResumeLockProtocol, StateShape, SwitchTypeOK
  <2>. QED  BY <2>4, <2>5, <2>6, Zenon DEF StateShape
<1>9. IdleStays'
  <2>1. \A d \in CPU : idle[d] \in Thread /\ idle[d] # i
    BY ThreadFacts, Zenon
  <2>2. \A d \in CPU : t_state'[idle[d]] = t_state[idle[d]]
    BY <2>1, Zenon DEF SwitchTypeOK
  <2>. SUFFICES ASSUME NEW e \in CPU, NEW d \in CPU
                PROVE  /\ Holds(e, idle[d])' => e = d
                       /\ (Dispatching(e) /\ new[e] = idle[d])' => e = d
                       /\ t_state'[idle[d]] = "onproc"
    BY Zenon DEF IdleStays
  <2>3. Holds(e, idle[d])' => e = d
    BY <1>3, <2>1, Zenon DEF ResumeLockProtocol, IdleStays
  <2>4. (Dispatching(e) /\ new[e] = idle[d])' => e = d
    BY Zenon DEF ResumeLockProtocol, IdleStays, Dispatching
  <2>5. t_state'[idle[d]] = "onproc"
    BY <2>2, ZenonT(30) DEF ResumeLockProtocol, IdleStays
  <2>. QED  BY <2>3, <2>4, <2>5, ZenonT(30)
<1>10. DispatchedOnce'
  BY DEF ResumeLockProtocol, DispatchedOnce, SwitchTypeOK, Dispatching
<1>11. PinnedOnproc'
  <2>1. \A d \in CPU : ~IsPinned(d, i)
    BY <1>1, ZenonT(30) DEF ResumeLockProtocol, HeldOnce, Holds
  <2>. QED
    BY <2>1 DEF ResumeLockProtocol, PinnedOnproc, SwitchTypeOK
<1>12. DeathRow'
  <2>1. reapq' = reapq /\ \A u \in reapq : u \in Thread /\ u # i
    BY ThreadFacts, Zenon DEF SwitchTypeOK
  <2>2. \A u \in Thread : u # i => t_state'[u] = t_state[u]
    BY Zenon DEF SwitchTypeOK
  <2>3. \A u \in reapq : t_state[u] = "zomb" /\ \A d \in CPU : ~Holds(d, u)
    BY Zenon DEF ResumeLockProtocol, DeathRow
  <2>. QED  BY <1>3, <2>1, <2>2, <2>3, Zenon DEF DeathRow
<1>13. NotRunningIsSaved'
  <2>1. \A u \in Thread \ {i, t} : /\ saved'[u] = saved[u] /\ t_state'[u] = t_state[u]
                                   /\ \A d \in CPU : stack[d] = u => stack'[d] = u /\ pc'[d] = pc[d]
    BY Zenon DEF SwitchTypeOK
  <2>2. t_state'[i] = "free" /\ stack'[c] = t /\ pc'[c] = "run"
    BY Zenon DEF SwitchTypeOK
  <2>3. \A u \in Thread \ {i, t} : \/ saved'[u] \/ t_state'[u] = "free"
                                   \/ \E d \in CPU : stack'[d] = u /\ pc'[d] \in {"run", "swtch"}
    <3>. TAKE u \in Thread \ {i, t}
    <3>1. saved[u] \/ t_state[u] = "free" \/ \E d \in CPU : stack[d] = u /\ pc[d] \in {"run", "swtch"}
      BY Zenon DEF ResumeLockProtocol, NotRunningIsSaved
    <3>2. CASE \E d \in CPU : stack[d] = u /\ pc[d] \in {"run", "swtch"}
      <4>1. PICK d \in CPU : stack[d] = u /\ pc[d] \in {"run", "swtch"}
        BY <3>2, Zenon
      <4>2. stack'[d] = u /\ pc'[d] \in {"run", "swtch"}
        BY <2>1, <4>1, Zenon
      <4>. QED  BY <4>2, Zenon
    <3>. QED  BY <2>1, <3>1, <3>2, Zenon
  <2>. QED  BY <2>2, <2>3, Zenon DEF NotRunningIsSaved
<1>. QED  BY <1>2, <1>4, <1>5, <1>6, <1>7, <1>8, <1>9, <1>10, <1>11, <1>12, <1>13, Zenon
          DEF ResumeLockProtocol

\* Entry of resume_from_intr(): the pinned thread stays held, as new.
LEMMA ResumeIntrStep ==
  ASSUME ResumeLockProtocol, SwitchTypeOK, OtherTypesOK', IntrChain',
         NEW c \in CPU, NEW i \in Intr, i \in Thread, i = stack[c], i = cpu_thread[c],
         NEW t \in Thread, IsPinned(c, t),
         pc[c] = "swtch", pc' = [pc EXCEPT ![c] = "isetup"],
         saved' = [saved EXCEPT ![i] = TRUE],
         old' = [old EXCEPT ![c] = i],
         new' = [new EXCEPT ![c] = t],
         UNCHANGED <<cpu_thread, stack, t_lock, t_state, reapq>>,
         \A d \in CPU : \A u : IsPinned(d, u)' <=> IsPinned(d, u) /\ ~(d = c /\ u = t)
  PROVE  ResumeLockProtocol'
<1>1. i # t /\ ~IsPinned(c, i) /\ t_state[t] = "onproc"
  BY Zenon DEF ResumeLockProtocol, PinnedOnce, PinnedOnproc
<1>2. TypeOK'
  <2>1. SwitchTypeOK'
    BY Zenon DEF SwitchTypeOK, PC
  <2>. QED  BY <2>1, Zenon DEF TypeOK, OtherTypesOK
<1>3. \A d \in CPU : \A u \in Thread : Holds(d, u)' <=> Holds(d, u)
  BY ZenonT(30) DEF Holds, SwitchTypeOK
<1>4. HeldOnce' /\ HeldLocked'
  BY <1>3, ZenonT(30) DEF ResumeLockProtocol, HeldOnce, HeldLocked
<1>5. PinnedOnce'
  BY Zenon DEF ResumeLockProtocol, PinnedOnce, SwitchTypeOK
<1>6. CpuShape'
  BY <1>1, ZenonT(60) DEF ResumeLockProtocol, CpuShape, SwitchTypeOK, Dispatching
<1>7. StateShape'
  BY <1>1, ZenonT(30) DEF ResumeLockProtocol, StateShape, SwitchTypeOK
<1>8. IdleStays'
  BY <1>3, ThreadFacts, ZenonT(30) DEF ResumeLockProtocol, IdleStays, SwitchTypeOK, Dispatching
<1>9. DispatchedOnce'
  BY DEF ResumeLockProtocol, DispatchedOnce, SwitchTypeOK, Dispatching
<1>10. PinnedOnproc'
  BY Zenon DEF ResumeLockProtocol, PinnedOnproc
<1>11. DeathRow'
  BY <1>3, ThreadFacts, Zenon DEF ResumeLockProtocol, DeathRow, SwitchTypeOK
<1>12. NotRunningIsSaved'
  <2>1. saved'[i] /\ \A u \in Thread \ {i} : saved'[u] = saved[u]
    BY Zenon DEF SwitchTypeOK
  <2>2. t_state' = t_state /\ \A d \in CPU : stack[d] # i => pc'[d] = pc[d] /\ stack'[d] = stack[d]
    BY Zenon DEF SwitchTypeOK
  <2>. SUFFICES ASSUME NEW u \in Thread, ~saved'[u], t_state'[u] # "free"
                PROVE  \E d \in CPU : stack'[d] = u /\ pc'[d] \in {"run", "swtch"}
    BY Zenon DEF NotRunningIsSaved
  <2>3. u # i /\ ~saved[u] /\ t_state[u] # "free"
    BY <2>1, <2>2, Zenon
  <2>4. PICK d \in CPU : stack[d] = u /\ pc[d] \in {"run", "swtch"}
    BY <2>3, Zenon DEF ResumeLockProtocol, NotRunningIsSaved
  <2>5. stack'[d] = u /\ pc'[d] \in {"run", "swtch"}
    BY <2>2, <2>3, <2>4, Zenon
  <2>. QED  BY <2>5, Zenon
<1>. QED  BY <1>2, <1>4, <1>5, <1>6, <1>7, <1>8, <1>9, <1>10, <1>11, <1>12, Zenon
          DEF ResumeLockProtocol

=============================================================================
