---------------------------- MODULE SwtchProofs ----------------------------
(***************************************************************************)
(* The switch code of Swtch keeps the resume lock protocol, for any sets   *)
(* of processors and threads, and the safety properties that follow.  The  *)
(* step lemmas of SwtchSteps are applied to the actions.                   *)
(*                                                                         *)
(* The second half is about the MMU and floating point context of the      *)
(* running thread.  swtch.s loads LDT, hat, the TSS stack and T_CPU for    *)
(* the thread it resumes, and interrupt threads borrow them from the       *)
(* thread they pin; the FPU keeps a thread's state until resume() saves it *)
(* or the thread exits.  The invariants name the thread to which a         *)
(* processor's state belongs at each point of the switch; they need        *)
(* ResumeLockProtocol, by which no two processors hold the same thread.    *)
(***************************************************************************)
EXTENDS Swtch, SwtchSteps

\* The protocol does not depend on the floating point and MMU state.
LEMMA FpPreserves ==
  ASSUME ResumeLockProtocol, UNCHANGED <<cpuVars, thrVars>>, FpTypeOK'
  PROVE  ResumeLockProtocol'
<1>1. UNCHANGED <<pc, cpu_thread, stack, old, new, pinned, t_lock, t_state, t_cpu, saved, reapq>>
  BY Zenon DEF cpuVars, thrVars
<1>2. \A d \in CPU : \A u : IsPinned(d, u)' <=> IsPinned(d, u)
  BY <1>1, PinnedSame, Zenon
<1>3. TypeOK' /\ IntrChain'
  BY <1>1, ZenonT(60) DEF ResumeLockProtocol, TypeOK, SwitchTypeOK, IntrChain, Dispatching
<1>4. HeldOnce' /\ HeldLocked' /\ PinnedOnce' /\ CpuShape' /\ DispatchedOnce'
  BY <1>1, <1>2 DEF ResumeLockProtocol, HeldOnce, HeldLocked, PinnedOnce, CpuShape,
     DispatchedOnce, Holds, Dispatching
<1>5. StateShape' /\ IdleStays' /\ PinnedOnproc' /\ DeathRow' /\ NotRunningIsSaved'
  BY <1>1, <1>2 DEF ResumeLockProtocol, StateShape, IdleStays, PinnedOnproc, DeathRow,
     NotRunningIsSaved, Holds, Dispatching
<1>. QED  BY <1>3, <1>4, <1>5, Zenon DEF ResumeLockProtocol

\* A wakeup changes a sleeping thread, which nobody dispatches.
LEMMA WakeupPreserves ==
  ASSUME ResumeLockProtocol, OtherTypesOK', NEW t \in Thread, Wakeup(t)
  PROVE  ResumeLockProtocol'
<1>1. /\ t_state[t] = "sleep" /\ t_state' = [t_state EXCEPT ![t] = "run"]
      /\ UNCHANGED <<pc, cpu_thread, stack, old, new, pinned, t_lock, saved, reapq>>
  BY Zenon DEF Wakeup, cpuVars
<1>2. SwitchTypeOK  BY Zenon DEF ResumeLockProtocol, TypeOK
<1>3. \A d \in CPU : \A u : IsPinned(d, u)' <=> IsPinned(d, u)
  BY <1>1, PinnedSame, Zenon
<1>4. TypeOK'
  <2>1. SwitchTypeOK'
    BY <1>1, <1>2, Zenon DEF SwitchTypeOK
  <2>. QED  BY <2>1, Zenon DEF TypeOK, OtherTypesOK
<1>5. HeldOnce' /\ HeldLocked' /\ PinnedOnce' /\ CpuShape' /\ DispatchedOnce'
  BY <1>1, <1>3 DEF ResumeLockProtocol, HeldOnce, HeldLocked, PinnedOnce, CpuShape,
     DispatchedOnce, Holds, Dispatching
<1>6. IntrChain'
  BY <1>1, ZenonT(60) DEF ResumeLockProtocol, IntrChain, Dispatching
<1>7. StateShape' /\ IdleStays'
  BY <1>1, <1>2, <1>3, ThreadFacts DEF ResumeLockProtocol, StateShape, CpuShape, IdleStays,
     SwitchTypeOK, Holds, Dispatching
<1>8. PinnedOnproc' /\ DeathRow' /\ NotRunningIsSaved'
  BY <1>1, <1>2, <1>3, ThreadFacts DEF ResumeLockProtocol, PinnedOnproc, DeathRow, NotRunningIsSaved,
     SwitchTypeOK, Holds
<1>. QED  BY <1>4, <1>5, <1>6, <1>7, <1>8, Zenon DEF ResumeLockProtocol

\* The reaper recycles a zombie that nobody holds.
LEMMA ReapPreserves ==
  ASSUME ResumeLockProtocol, OtherTypesOK', NEW t \in Thread, Reap(t)
  PROVE  ResumeLockProtocol'
<1>1. /\ t \in reapq /\ reapq' = reapq \ {t}
      /\ t_state' = [t_state EXCEPT ![t] = "run"]
      /\ t_lock' = [t_lock EXCEPT ![t] = FALSE]
      /\ saved' = [saved EXCEPT ![t] = TRUE]
      /\ UNCHANGED <<pc, cpu_thread, stack, old, new, pinned>>
  BY Zenon DEF Reap, cpuVars
<1>2. SwitchTypeOK  BY DEF ResumeLockProtocol, TypeOK
<1>3. \A d \in CPU : \A u : IsPinned(d, u)' <=> IsPinned(d, u)
  BY <1>1, PinnedSame, Zenon
<1>4. t_state[t] = "zomb" /\ \A d \in CPU : ~Holds(d, t)
  BY <1>1, Zenon DEF ResumeLockProtocol, DeathRow
<1>5. TypeOK'
  <2>1. SwitchTypeOK'
    BY <1>1, <1>2, ZenonT(30) DEF SwitchTypeOK
  <2>. QED  BY <2>1 DEF TypeOK, OtherTypesOK
<1>6. HeldOnce' /\ HeldLocked' /\ PinnedOnce' /\ CpuShape' /\ DispatchedOnce'
  <2>1. HeldOnce' /\ HeldLocked'
    BY <1>1, <1>2, <1>3, <1>4 DEF ResumeLockProtocol, HeldOnce, HeldLocked, SwitchTypeOK, Holds
  <2>2. PinnedOnce' /\ DispatchedOnce'
    BY <1>1, <1>2, <1>3, <1>4 DEF ResumeLockProtocol, PinnedOnce, DispatchedOnce, SwitchTypeOK,
       Holds, Dispatching
  <2>3. CpuShape'
    BY <1>1, <1>2, <1>3, <1>4 DEF ResumeLockProtocol, CpuShape, SwitchTypeOK, Holds, Dispatching
  <2>. QED  BY <2>1, <2>2, <2>3, Zenon
<1>7. IntrChain'
  BY <1>1, ZenonT(60) DEF ResumeLockProtocol, IntrChain, Dispatching
<1>8. StateShape' /\ IdleStays'
  BY <1>1, <1>2, <1>3, <1>4, ThreadFacts DEF ResumeLockProtocol, StateShape, CpuShape, IdleStays,
     SwitchTypeOK, Holds, Dispatching
<1>9. PinnedOnproc' /\ DeathRow' /\ NotRunningIsSaved'
  <2>1. PinnedOnproc' /\ DeathRow'
    BY <1>1, <1>2, <1>3, <1>4, ThreadFacts DEF ResumeLockProtocol, PinnedOnproc, DeathRow, SwitchTypeOK,
       Holds
  <2>2. NotRunningIsSaved'
    BY <1>1, <1>2, <1>4, ZenonT(30) DEF ResumeLockProtocol, NotRunningIsSaved, SwitchTypeOK
  <2>. QED  BY <2>1, <2>2, Zenon
<1>. QED  BY <1>5, <1>6, <1>7, <1>8, <1>9 DEF ResumeLockProtocol

\* The floating point operations of a running thread keep the protocol.
LEMMA FpStepsPreserve ==
  ASSUME ResumeLockProtocol, NEW c \in CPU,
         \/ FpUse(c) \/ NdpTrapFirst(c) \/ ndptrap(c)
         \/ fpsave(c) \/ fprestore(c) \/ fpdisable(c)
  PROVE  ResumeLockProtocol'
<1>1. FpTypeOK /\ cpu_thread \in [CPU -> Thread]
  BY Zenon DEF ResumeLockProtocol, TypeOK, SwitchTypeOK
<1>2. CASE FpUse(c)
  BY <1>1, <1>2, FpPreserves, Zenon DEF FpUse, FpTypeOK
<1>3. CASE NdpTrapFirst(c)
  BY <1>1, <1>3, FpPreserves, Zenon DEF NdpTrapFirst, fpinit, FpTypeOK
<1>4. CASE ndptrap(c)
  BY <1>1, <1>4, FpPreserves, Zenon DEF ndptrap, frstor, FpTypeOK
<1>5. CASE fpsave(c)
  BY <1>1, <1>5, FpPreserves, Zenon DEF fpsave, FpTypeOK
<1>6. CASE fprestore(c)
  BY <1>1, <1>6, FpPreserves, Zenon DEF fprestore, frstor, FpTypeOK
<1>7. CASE fpdisable(c)
  BY <1>1, <1>7, FpPreserves, Zenon DEF fpdisable, FpTypeOK
<1>. QED  BY <1>2, <1>3, <1>4, <1>5, <1>6, <1>7, Zenon

\* No step of the switch code leaves the types of the floating point state,
\* of the t_intr chains and of T_CPU.
LEMMA SwitchOtherTypes ==
  ASSUME ResumeLockProtocol, NEW c \in CPU, SwitchStep(c)
  PROVE  OtherTypesOK'
<1>1. FpTypeOK /\ pinned \in [CPU -> Seq(Thread)] /\ t_cpu \in [Thread -> CPU]
  BY Zenon DEF ResumeLockProtocol, TypeOK
<1>2. CASE SaveCtx(c)
  BY <1>1, <1>2, Zenon DEF SaveCtx, fpsave_begin, thrVars, OtherTypesOK, FpTypeOK
<1>3. CASE WaitForFpuSave(c)
  <2>1. CASE old[c] \in User /\ fpu_flags[old[c]] = {"EN"}
    <3>1. fpu_flags' = [fpu_flags EXCEPT ![old[c]] = {"VALID", "EN"}]
      BY <1>3, <2>1, Zenon DEF WaitForFpuSave
    <3>2. \E x \in {"saved", pcb[old[c]]} : pcb' = [pcb EXCEPT ![old[c]] = x]
      BY <1>3, <2>1, Zenon DEF WaitForFpuSave
    <3>3. ts' = [ts EXCEPT ![c] = TRUE] /\ fpu' = [fpu EXCEPT ![c] = NoThread]
      BY <1>3, <2>1, Zenon DEF WaitForFpuSave
    <3>4. old[c] \in Thread
      BY <2>1, ThreadFacts, Zenon
    <3>5. FpTypeOK'
      BY <1>1, <3>1, <3>2, <3>3, <3>4, Zenon DEF FpTypeOK
    <3>. QED  BY <1>1, <1>3, <3>5, Zenon DEF WaitForFpuSave, thrVars, OtherTypesOK
  <2>2. CASE ~(old[c] \in User /\ fpu_flags[old[c]] = {"EN"})
    BY <1>1, <1>3, <2>2, Zenon DEF WaitForFpuSave, fpVars, thrVars, OtherTypesOK, FpTypeOK
  <2>. QED  BY <2>1, <2>2, Zenon
<1>4. CASE ZombieFpu(c)
  BY <1>1, <1>4, Zenon DEF ZombieFpu, thrVars, OtherTypesOK, FpTypeOK
<1>5. CASE ResumeFromIntr(c)
  <2>1. pinned'[c] \in Seq(Thread)
    BY <1>1, <1>5, PopFacts, Zenon DEF ResumeFromIntr, Unpin
  <2>2. pinned' \in [CPU -> Seq(Thread)]
    BY <1>1, <1>5, <2>1, Zenon DEF ResumeFromIntr, Unpin
  <2>. QED  BY <1>1, <1>5, <2>2, Zenon DEF ResumeFromIntr, fpVars, OtherTypesOK, FpTypeOK
<1>6. CASE SwtchSelf(c) \/ ToIdle(c) \/ UnlockOld(c) \/ LockNew(c)
  BY <1>1, <1>6, Zenon DEF SwtchSelf, ToIdle, UnlockOld, LockNew, thrVars, fpVars, OtherTypesOK, FpTypeOK
<1>7. CASE SetupCpu(c) \/ RESTORE_REGS(c) \/ ZombieToIdle(c) \/ ReapqAdd(c)
  BY <1>1, <1>7, ZenonT(30) DEF SetupCpu, RESTORE_REGS, ZombieToIdle, ReapqAdd, thrVars, fpVars,
     OtherTypesOK, FpTypeOK
<1>8. CASE IntrSetup(c) \/ IntrUnlock(c) \/ \E t \in Thread : Resume(c, t) \/ ResumeFromZombie(c, t)
  BY <1>1, <1>8, Zenon DEF IntrSetup, IntrUnlock, Resume, ResumeFromZombie, thrVars, fpVars,
     OtherTypesOK, FpTypeOK
<1>. QED  BY <1>2, <1>3, <1>4, <1>5, <1>6, <1>7, <1>8, Zenon DEF SwitchStep

\* Every step of resume(), resume_from_zombie() and resume_from_intr() keeps
\* the protocol.
LEMMA SwitchStepPreserves ==
  ASSUME ResumeLockProtocol, NEW c \in CPU, SwitchStep(c)
  PROVE  ResumeLockProtocol'
<1>1. SwitchTypeOK /\ OtherTypesOK'
  BY SwitchOtherTypes, Zenon DEF ResumeLockProtocol, TypeOK
<1>2. pinned' = pinned => \A d \in CPU : \A u : IsPinned(d, u)' <=> IsPinned(d, u)
  BY PinnedSame, Zenon
<1>3. pinned[c] = <<>> => \A u : ~IsPinned(c, u)
  BY EmptyNotPinned, Zenon
<1>4. CASE SaveCtx(c)
  BY <1>1, <1>2, <1>4, PcOnly, Zenon DEF SaveCtx, Goto, thrVars
<1>5. CASE WaitForFpuSave(c)
  BY <1>1, <1>2, <1>5, PcOnly, Zenon DEF WaitForFpuSave, Goto, thrVars
<1>6. CASE ZombieFpu(c)
  BY <1>1, <1>2, <1>6, PcOnly, Zenon DEF ZombieFpu, Goto, thrVars
<1>7. CASE ToIdle(c)
  BY <1>1, <1>2, <1>7, OntoIdleStack, Zenon DEF ToIdle, SwitchToIdle, Goto, thrVars
<1>8. CASE ZombieToIdle(c)
  BY <1>1, <1>2, <1>8, OntoIdleStack, Zenon DEF ZombieToIdle, SwitchToIdle, Goto, thrVars
<1>9. CASE UnlockOld(c)
  BY <1>1, <1>2, <1>9, UnlockOldStep, Zenon DEF UnlockOld, Goto
<1>10. CASE LockNew(c)
  BY <1>1, <1>2, <1>10, LockNewStep, Zenon DEF LockNew, Goto
<1>11. CASE SetupCpu(c)
  BY <1>1, <1>2, <1>11, SetupStep, Zenon DEF SetupCpu, Goto
<1>12. CASE RESTORE_REGS(c)
  BY <1>1, <1>2, <1>12, RestoreStep, Zenon DEF RESTORE_REGS, Goto
<1>13. CASE ReapqAdd(c)
  BY <1>1, <1>2, <1>13, ReapqStep, Zenon DEF ReapqAdd, Goto
<1>14. CASE IntrSetup(c)
  BY <1>1, <1>2, <1>14, IntrSetupStep, Zenon DEF IntrSetup, Goto, thrVars
<1>15. CASE IntrUnlock(c)
  BY <1>1, <1>2, <1>15, IntrUnlockStep, Zenon DEF IntrUnlock, Goto
<1>16. CASE SwtchSelf(c)
  <2>1. t_state[cpu_thread[c]] = "run" \/ cpu_thread[c] = idle[c]
    BY <1>16, Zenon DEF SwtchSelf, Candidates
  <2>. QED  BY <1>1, <1>2, <1>16, <2>1, SwtchSelfStep, Zenon DEF SwtchSelf, thread_onproc, Goto
<1>17. ASSUME NEW t \in Thread, Resume(c, t)
      PROVE  ResumeLockProtocol'
  <2>1. t # cpu_thread[c] /\ (t_state[t] = "run" \/ t = idle[c]) /\ pinned[c] = <<>>
    BY <1>17, Zenon DEF Resume, Candidates
  <2>. QED  BY <1>1, <1>2, <1>3, <1>17, <2>1, Entry, Zenon DEF Resume, SAVE_REGS, thread_onproc, Goto
<1>18. ASSUME NEW t \in Thread, ResumeFromZombie(c, t)
      PROVE  ResumeLockProtocol'
  <2>1. t_state[t] = "run" \/ t = idle[c]
    BY <1>18, Zenon DEF ResumeFromZombie, Candidates
  <2>2. t_state[cpu_thread[c]] = "zomb" /\ cpu_thread[c] \in User /\ stack[c] = cpu_thread[c]
    BY <1>1, <1>18, Zenon DEF ResumeFromZombie, ResumeLockProtocol, StateShape, CpuShape, SwitchTypeOK
  <2>3. pinned[c] = <<>>
    BY <2>2, ThreadFacts, Zenon DEF ResumeLockProtocol, IntrChain
  <2>4. t # cpu_thread[c]
    BY <2>1, <2>2, ThreadFacts, Zenon
  <2>. QED  BY <1>1, <1>2, <1>3, <1>18, <2>1, <2>2, <2>3, <2>4, Entry, Zenon
            DEF ResumeFromZombie, SAVE_REGS, thread_onproc, Goto
<1>19. CASE ResumeFromIntr(c)
  <2>1. pinned \in [CPU -> Seq(Thread)] /\ IntrChain /\ PinnedOnce /\ CpuShape
    BY Zenon DEF ResumeLockProtocol, TypeOK
  <2>2. pinned[c] # <<>> /\ pinned' = [pinned EXCEPT ![c] = SubSeq(@, 1, Len(@) - 1)]
    BY <1>19, Zenon DEF ResumeFromIntr, Unpin
  <2>3. /\ t_intr(c) \in Thread /\ IsPinned(c, t_intr(c))
        /\ \A d \in CPU : \A u : IsPinned(d, u)' <=> IsPinned(d, u) /\ ~(d = c /\ u = t_intr(c))
    BY <2>1, <2>2, PopPinned, Zenon
  <2>4. IntrChain'
    BY <1>1, <1>19, <2>1, <2>2, UnpinChain, Zenon DEF ResumeFromIntr, SAVE_REGS, Goto
  <2>5. stack[c] \in Intr /\ stack[c] \in Thread /\ stack[c] = cpu_thread[c]
    BY <2>1, <2>2, ThreadFacts, Zenon DEF IntrChain, CpuShape
  <2>. QED  BY <1>1, <1>19, <2>3, <2>4, <2>5, ResumeIntrStep, Zenon DEF ResumeFromIntr, SAVE_REGS, Goto
<1>. QED
  BY <1>4, <1>5, <1>6, <1>7, <1>8, <1>9, <1>10, <1>11, <1>12, <1>13, <1>14, <1>15, <1>16, <1>17, <1>18, <1>19, Zenon DEF SwitchStep

\* The running thread stops, exits, is interrupted or uses floating point.
LEMMA ThreadStepPreserves ==
  ASSUME ResumeLockProtocol, NEW c \in CPU, ThreadStep(c)
  PROVE  ResumeLockProtocol'
<1>1. SwitchTypeOK /\ FpTypeOK /\ pinned \in [CPU -> Seq(Thread)] /\ t_cpu \in [Thread -> CPU]
  BY Zenon DEF ResumeLockProtocol, TypeOK
<1>2. pinned' = pinned => \A d \in CPU : \A u : IsPinned(d, u)' <=> IsPinned(d, u)
  BY PinnedSame
<1>3. cpu_thread[c] \in Thread /\ cpu_thread[c] = stack[c] /\ IntrChain /\ PinnedOnce
  BY <1>1, Zenon DEF ResumeLockProtocol, SwitchTypeOK, CpuShape
<1>4. cpu_thread[c] \notin Idle => \A d \in CPU : cpu_thread[c] # idle[d]
  BY Zenon DEF Idle
<1>5. CASE GiveUp(c)
  <2>1. OtherTypesOK'
    BY <1>1, <1>5, Zenon DEF GiveUp, fpVars, OtherTypesOK, FpTypeOK
  <2>2. CASE cpu_thread[c] \in Idle
    BY <1>1, <1>2, <1>5, <2>1, <2>2, IdleLeaves, Zenon DEF GiveUp, Goto
  <2>3. CASE cpu_thread[c] \notin Idle
    <3>1. PICK s \in {"run", "sleep"} : t_state' = [t_state EXCEPT ![cpu_thread[c]] = s]
      BY <1>5, <2>3, Zenon DEF GiveUp
    <3>. QED  BY <1>1, <1>2, <1>4, <1>5, <2>1, <2>3, <3>1, LeaveRun, Zenon DEF GiveUp, Goto
  <2>. QED  BY <2>2, <2>3, Zenon
<1>6. CASE Exit(c)
  <2>1. OtherTypesOK'
    BY <1>1, <1>6, Zenon DEF Exit, fpVars, OtherTypesOK, FpTypeOK
  <2>2. cpu_thread[c] \in User /\ cpu_thread[c] \notin Idle
    BY <1>6, ThreadAssumption, Zenon DEF Exit
  <2>. QED  BY <1>1, <1>2, <1>4, <1>6, <2>1, <2>2, LeaveRun, Zenon DEF Exit, Goto
<1>7. CASE IntrDone(c)
  <2>1. OtherTypesOK'
    BY <1>1, <1>7, Zenon DEF IntrDone, fpVars, OtherTypesOK, FpTypeOK
  <2>2. cpu_thread[c] \notin Idle
    BY <1>7, ThreadAssumption, Zenon DEF IntrDone
  <2>. QED  BY <1>1, <1>2, <1>4, <1>7, <2>1, <2>2, LeaveRun, Zenon DEF IntrDone, Goto
<1>8. CASE IntrReturn(c)
  <2>1. pinned[c] # <<>> /\ pinned' = [pinned EXCEPT ![c] = SubSeq(@, 1, Len(@) - 1)]
    BY <1>8, Zenon DEF IntrReturn, Unpin
  <2>2. OtherTypesOK'
    <3>1. pinned'[c] \in Seq(Thread)
      BY <1>1, <2>1, PopFacts, Zenon
    <3>. QED  BY <1>1, <1>8, <2>1, <3>1, Zenon DEF IntrReturn, fpVars, OtherTypesOK, FpTypeOK
  <2>3. /\ t_intr(c) \in Thread /\ IsPinned(c, t_intr(c))
        /\ \A d \in CPU : \A u : IsPinned(d, u)' <=> IsPinned(d, u) /\ ~(d = c /\ u = t_intr(c))
    BY <1>1, <1>3, <2>1, PopPinned, Zenon
  <2>4. IntrChain'
    BY <1>1, <1>3, <1>8, <2>1, UnpinChain, Zenon DEF IntrReturn
  <2>5. cpu_thread[c] \in Intr
    BY <1>3, <2>1, Zenon DEF IntrChain
  <2>. QED  BY <1>1, <1>3, <1>8, <2>2, <2>3, <2>4, <2>5, ReturnStep, Zenon DEF IntrReturn
<1>9. ASSUME NEW i \in Intr, IntrEnter(c, i)
      PROVE  ResumeLockProtocol'
  <2>1. pinned' = [pinned EXCEPT ![c] = Append(@, cpu_thread[c])] /\ i \in Thread
    BY <1>9, ThreadFacts, Zenon DEF IntrEnter
  <2>2. OtherTypesOK'
    <3>1. pinned'[c] \in Seq(Thread)
      BY <1>1, <1>3, <2>1, PushFacts, Zenon
    <3>. QED  BY <1>1, <1>9, <2>1, <3>1, Zenon DEF IntrEnter, fpVars, OtherTypesOK, FpTypeOK
  <2>3. \A d \in CPU : \A u : IsPinned(d, u)' <=> IsPinned(d, u) \/ (d = c /\ u = cpu_thread[c])
    BY <1>1, <1>3, <2>1, PushPinned, ZenonT(30)
  <2>4. IntrChain'
    BY <1>1, <1>3, <1>9, <2>1, EnterChain, Zenon DEF IntrEnter
  <2>. QED  BY <1>1, <1>3, <1>9, <2>1, <2>2, <2>3, <2>4, EnterStep, Zenon DEF IntrEnter
<1>10. CASE \/ FpUse(c) \/ NdpTrapFirst(c) \/ ndptrap(c)
             \/ fpsave(c) \/ fprestore(c) \/ fpdisable(c)
  BY <1>10, FpStepsPreserve, Zenon
<1>. QED  BY <1>5, <1>6, <1>7, <1>8, <1>9, <1>10, Zenon DEF ThreadStep

\* At boot every processor holds its idle thread and nothing else.
LEMMA InitEstablishes ==
  ASSUME Init
  PROVE  ResumeLockProtocol
<1>1. TypeOK
  <2>1. SwitchTypeOK
    BY ThreadFacts DEF Init, SwitchTypeOK, PC, Thread
  <2>2. FpTypeOK
    BY Zenon DEF Init, FpTypeOK
  <2>3. pinned \in [CPU -> Seq(Thread)] /\ t_cpu \in [Thread -> CPU]
    BY DEF Init
  <2>. QED  BY <2>1, <2>2, <2>3, Zenon DEF TypeOK
<1>2. \A c \in CPU : \A t : ~IsPinned(c, t)
  BY EmptyNotPinned, Zenon DEF Init
<1>3. \A c \in CPU : pc[c] = "run" /\ stack[c] = idle[c] /\ cpu_thread[c] = idle[c]
  BY Zenon DEF Init
<1>4. \A c \in CPU : \A t \in Thread : Holds(c, t) <=> t = idle[c]
  BY <1>2, <1>3, Zenon DEF Holds
<1>5. \A c \in CPU : t_lock[idle[c]] /\ t_state[idle[c]] = "onproc"
  BY ThreadFacts, ThreadAssumption, Zenon DEF Init, Idle
<1>6. \A t \in Thread : t_state[t] # "zomb"
  BY ThreadFacts, Zenon DEF Init, Thread
<1>7. \A t \in Thread : saved[t] \/ t_state[t] = "free" \/ \E c \in CPU : t = idle[c]
  BY Zenon DEF Init, Thread, Idle
<1>8. HeldOnce /\ HeldLocked /\ PinnedOnce
  BY <1>2, <1>3, <1>4, <1>5, ThreadFacts DEF HeldOnce, HeldLocked, PinnedOnce
<1>9. IntrChain
  <2>1. \A c \in CPU : pinned[c] = <<>>
    BY Zenon DEF Init
  <2>2. Len(<<>>) = 0
    BY Zenon
  <2>3. \A c \in CPU : \A k \in 1..Len(pinned[c]) : FALSE
    BY <2>1, <2>2
  <2>. QED  BY <2>1, <2>3, Zenon DEF IntrChain
<1>10. CpuShape /\ StateShape
  BY <1>2, <1>3, <1>5, <1>6, Zenon DEF CpuShape, StateShape, Dispatching
<1>11. IdleStays /\ DispatchedOnce /\ PinnedOnproc
  BY <1>2, <1>3, <1>4, <1>5, ThreadFacts, Zenon DEF IdleStays, DispatchedOnce, PinnedOnproc, Dispatching
<1>12. DeathRow /\ NotRunningIsSaved
  BY <1>3, <1>7, Zenon DEF Init, DeathRow, NotRunningIsSaved
<1>. QED  BY <1>1, <1>8, <1>9, <1>10, <1>11, <1>12, Zenon DEF ResumeLockProtocol

-----------------------------------------------------------------------------
\* Every step keeps the protocol.
LEMMA NextPreserves ==
  ASSUME ResumeLockProtocol, [Next]_vars
  PROVE  ResumeLockProtocol'
<1>1. CASE UNCHANGED vars
  BY <1>1, FpPreserves, Zenon DEF vars, fpVars, ResumeLockProtocol, TypeOK, FpTypeOK
<1>2. ASSUME NEW t \in Thread, Wakeup(t)
      PROVE  ResumeLockProtocol'
  <2>1. OtherTypesOK'
    BY <1>2, Zenon DEF ResumeLockProtocol, TypeOK, Wakeup, cpuVars, fpVars, OtherTypesOK, FpTypeOK
  <2>. QED  BY <1>2, <2>1, WakeupPreserves, Zenon
<1>3. ASSUME NEW t \in Thread, Reap(t)
      PROVE  ResumeLockProtocol'
  <2>1. OtherTypesOK'
    BY <1>3, Zenon DEF ResumeLockProtocol, TypeOK, Reap, cpuVars, OtherTypesOK, FpTypeOK
  <2>. QED  BY <1>3, <2>1, ReapPreserves
<1>. QED  BY <1>1, <1>2, <1>3, SwitchStepPreserves, ThreadStepPreserves, Zenon DEF Next

\* The resume lock protocol of swtch.s holds in every reachable state, for
\* any number of processors, user threads and interrupt threads.
THEOREM ProtocolHolds == Spec => []ResumeLockProtocol
<1>1. Init => ResumeLockProtocol
  BY InitEstablishes, Zenon
<1>2. ResumeLockProtocol /\ [Next]_vars => ResumeLockProtocol'
  BY NextPreserves, Zenon
<1>. QED  BY <1>1, <1>2, PTL DEF Spec

\* The switch code's registers always name threads, and only user threads
\* reach death-row or own the FPU.
THEOREM TypeCorrect == Spec => []TypeOK
<1>1. ResumeLockProtocol => TypeOK
  BY Zenon DEF ResumeLockProtocol
<1>. QED  BY <1>1, ProtocolHolds, PTL

\* No two processors ever execute on the same kernel stack, although resume()
\* lets another processor dispatch the outgoing thread before it has left it.
THEOREM ThreadOnOneProcessor == Spec => []OneCpuPerThread
<1>1. ResumeLockProtocol => OneCpuPerThread
  BY Zenon DEF ResumeLockProtocol, HeldOnce, Holds, OneCpuPerThread, TypeOK, SwitchTypeOK
<1>. QED  BY <1>1, ProtocolHolds, PTL

\* _resume_from_idle and resume_from_intr() only load contexts that were
\* saved by SAVE_REGS since the thread last ran.
THEOREM ContextIsCurrent == Spec => []ResumedContextIsCurrent
<1>1. ASSUME ResumeLockProtocol
      PROVE  ResumedContextIsCurrent
  <2>. SUFFICES ASSUME NEW c \in CPU, pc[c] \in {"setup", "restore", "iunlock"}
                PROVE  saved[new[c]]
    BY Zenon DEF ResumedContextIsCurrent
  <2>1. Holds(c, new[c]) /\ new[c] \in Thread /\ t_state[new[c]] = "onproc"
    BY <1>1, Zenon DEF ResumeLockProtocol, CpuShape, StateShape, Holds
  <2>2. \A d \in CPU : stack[d] = new[c] => d = c
    BY <1>1, <2>1, Zenon DEF ResumeLockProtocol, HeldOnce, Holds
  <2>. QED  BY <1>1, <2>1, <2>2, Zenon DEF ResumeLockProtocol, NotRunningIsSaved
<1>. QED  BY <1>1, ProtocolHolds, PTL

\* reapq_add() is only reached once the processor has left the zombie's
\* stack: the reaper never frees a stack in use.
THEOREM ReapedIsUnused == Spec => []ReapedStackUnused
<1>1. ResumeLockProtocol => ReapedStackUnused
  BY Zenon DEF ResumeLockProtocol, DeathRow, CpuShape, Holds, ReapedStackUnused
<1>. QED  BY <1>1, ProtocolHolds, PTL

-----------------------------------------------------------------------------
(* The MMU and floating point context                                      *)
-----------------------------------------------------------------------------
\* The thread whose MMU state processor c has: the oldest of the chain, the
\* pinned thread that resume_from_intr() goes back to, or the current thread.
Bottom(c) == IF pinned[c] # <<>> THEN pinned[c][1]
             ELSE IF pc[c] = "isetup" THEN new[c] ELSE cpu_thread[c]

\* LDT, hat, TSS stack, CPU_LWP and T_CPU, outside and inside the switch.
MmuAt(c) ==
  /\ pc[c] \in {"run", "swtch", "isetup", "iunlock", "restore"} =>
       /\ ldt[c] = procp[Bottom(c)] /\ hat[c] = procp[Bottom(c)]
       /\ esp0[c] = Bottom(c) /\ cpu_lwp[c] = LwpOf(Bottom(c)) /\ t_cpu[Bottom(c)] = c
  /\ pc[c] \in {"ztoidle", "fpu", "unlock", "lock", "setup", "reapq"} => ldt[c] = procp[new[c]]
  /\ pc[c] \in {"fpu", "unlock", "lock", "setup", "reapq"} => hat[c] = procp[new[c]]

\* The thread whose floating point state processor c may have.
FpuOwner(c) == IF pc[c] \in {"savectx", "toidle", "fpu", "zfpu"} THEN old[c] ELSE Bottom(c)

\* The FPU of processor c: TS is clear only while its owner's state is in it,
\* outside the part of the switch where that state has been saved; a save that
\* resume() has begun is of the outgoing thread, which is no zombie.
FpuAt(c) ==
  /\ ~ts[c] => /\ pc[c] \notin {"unlock", "lock", "setup", "ztoidle", "reapq"}
               /\ FpuOwner(c) \in User /\ fpu[c] = FpuOwner(c) /\ fpu_flags[FpuOwner(c)] = {"EN"}
  /\ pc[c] \in {"toidle", "fpu"} /\ old[c] \in User /\ fpu_flags[old[c]] = {"EN"} => pcb[old[c]] = "begun"
  /\ pc[c] \in {"savectx", "toidle", "fpu", "unlock", "isetup", "iunlock"} => t_state[old[c]] # "zomb"

\* The floating point state of user thread t: not in use, in the save area, or
\* in the FPU of the one processor that t owns it on, unless t has exited.
FpuOf(t) ==
  /\ fpu_flags[t] = {} \/ fpu_flags[t] = {"EN"} \/ (fpu_flags[t] = {"EN", "VALID"} /\ pcb[t] = "saved")
  /\ fpu_flags[t] = {"EN"} => t_state[t] = "zomb" \/ \E c \in CPU : ~ts[c] /\ FpuOwner(c) = t
  /\ t_state[t] = "zomb" => t_lock[t]

\* The registers of the MMU and of the TSS hold what some thread needs.
MmuTypes ==
  /\ ldt \in [CPU -> {procp[t] : t \in Thread}] /\ hat \in [CPU -> {procp[t] : t \in Thread}]
  /\ esp0 \in [CPU -> Thread] /\ cpu_lwp \in [CPU -> Thread \cup {NoThread}]

\* The inductive invariants for MmuContextMatches and for FpuStateIsSafe, each
\* next to ResumeLockProtocol.
MmuFollows == MmuTypes /\ \A c \in CPU : MmuAt(c)
FpuFollows == (\A c \in CPU : FpuAt(c)) /\ \A t \in User : FpuOf(t)

-----------------------------------------------------------------------------
\* Nothing that another processor's Bottom and FpuOwner depend on changes.
OthersStay(c) ==
  \A d \in CPU \ {c} : /\ pc'[d] = pc[d] /\ pinned'[d] = pinned[d] /\ cpu_thread'[d] = cpu_thread[d]
                       /\ old'[d] = old[d] /\ new'[d] = new[d]

\* Such a step keeps the owners of the MMU and FPU state of the others.
LEMMA OthersSame ==
  ASSUME NEW c \in CPU, OthersStay(c)
  PROVE  \A d \in CPU \ {c} : Bottom(d)' = Bottom(d) /\ FpuOwner(d)' = FpuOwner(d)
BY Zenon DEF OthersStay, Bottom, FpuOwner

\* The thread at the bottom is held, and so is the one whose floating point
\* state is in the FPU.
LEMMA BottomHeld ==
  ASSUME ResumeLockProtocol, NEW c \in CPU
  PROVE  /\ Bottom(c) \in Thread /\ Holds(c, Bottom(c))
         /\ pc[c] \in {"savectx", "toidle", "fpu", "zfpu", "unlock", "isetup", "iunlock"} =>
              old[c] \in Thread /\ Holds(c, old[c])
         /\ FpuOwner(c) \in Thread /\ Holds(c, FpuOwner(c))
         /\ cpu_thread[c] = stack[c] /\ cpu_thread[c] \in Thread
<1>1. /\ pinned[c] \in Seq(Thread) /\ stack[c] \in Thread /\ cpu_thread[c] = stack[c]
      /\ pc[c] = "isetup" => new[c] \in Thread
  BY Zenon DEF ResumeLockProtocol, TypeOK, SwitchTypeOK, CpuShape
<1>2. CASE pinned[c] # <<>>
  <2>1. 1 \in 1 .. Len(pinned[c]) /\ pinned[c][1] \in Thread
    BY <1>1, <1>2
  <2> QED BY <1>1, <1>2, <2>1, Zenon DEF ResumeLockProtocol, CpuShape, Bottom, FpuOwner, Holds, IsPinned
<1>3. CASE pinned[c] = <<>>
  BY <1>1, <1>3, ZenonT(30) DEF ResumeLockProtocol, CpuShape, Bottom, FpuOwner, Holds
<1> QED BY <1>2, <1>3, Zenon

\* The MMU state of the other processors is kept by a step of processor c that
\* does not write it and leaves T_CPU of the threads they hold.
LEMMA MmuKept ==
  ASSUME ResumeLockProtocol, MmuFollows, NEW c \in CPU, OthersStay(c), MmuAt(c)',
         \A d \in CPU \ {c} : ldt'[d] = ldt[d] /\ hat'[d] = hat[d] /\ esp0'[d] = esp0[d] /\ cpu_lwp'[d] = cpu_lwp[d],
         \A d \in CPU \ {c} : \A t \in Thread : Holds(d, t) => t_cpu'[t] = t_cpu[t], MmuTypes'
  PROVE  MmuFollows'
<1> SUFFICES ASSUME NEW d \in CPU, d # c PROVE MmuAt(d)'
  BY Zenon DEF MmuFollows
<1>1. Bottom(d)' = Bottom(d) /\ t_cpu'[Bottom(d)] = t_cpu[Bottom(d)]
  BY OthersSame, BottomHeld, Zenon
<1>2. pc'[d] = pc[d] /\ new'[d] = new[d]
  BY Zenon DEF OthersStay
<1> QED BY <1>1, <1>2 DEF MmuFollows, MmuAt

\* A step that keeps the bottom and the MMU state.
LEMMA MmuSame ==
  ASSUME ResumeLockProtocol, MmuFollows, NEW c \in CPU, OthersStay(c),
         UNCHANGED <<ldt, hat, esp0, cpu_lwp>>,
         \A d \in CPU : \A t \in Thread : Holds(d, t) => t_cpu'[t] = t_cpu[t],
         \/ /\ pc[c] \in {"run", "swtch", "isetup", "iunlock", "restore"}
            /\ pc'[c] \in {"run", "swtch", "isetup", "iunlock", "restore"}
            /\ Bottom(c)' = Bottom(c)
         \/ /\ pc[c] \in {"fpu", "unlock", "lock", "setup", "reapq"}
            /\ pc'[c] \in {"unlock", "lock", "setup"} /\ new'[c] = new[c]
         \/ pc'[c] \in {"savectx", "toidle", "zfpu"}
  PROVE  MmuFollows'
<1>1. t_cpu'[Bottom(c)] = t_cpu[Bottom(c)]
  BY BottomHeld, Zenon
<1>2. MmuAt(c)'
  BY <1>1 DEF MmuFollows, MmuAt
<1>3. MmuTypes'
  BY Zenon DEF MmuFollows, MmuTypes
<1> QED BY <1>2, <1>3, MmuKept, Zenon

\* The FPU state of the other processors is kept by a step of processor c that
\* does not write it and leaves the threads they hold alone.
LEMMA FpuKept ==
  ASSUME ResumeLockProtocol, FpuFollows, NEW c \in CPU, OthersStay(c), FpuAt(c)',
         \A t \in User : FpuOf(t)',
         \A d \in CPU \ {c} : ts'[d] = ts[d] /\ fpu'[d] = fpu[d],
         \A d \in CPU \ {c} : \A t \in Thread : Holds(d, t) =>
           fpu_flags'[t] = fpu_flags[t] /\ pcb'[t] = pcb[t] /\ (t_state'[t] = "zomb" => t_state[t] = "zomb")
  PROVE  FpuFollows'
<1> SUFFICES ASSUME NEW d \in CPU, d # c PROVE FpuAt(d)'
  BY Zenon DEF FpuFollows
<1>1. /\ FpuOwner(d)' = FpuOwner(d) /\ pc'[d] = pc[d] /\ old'[d] = old[d] /\ ts'[d] = ts[d] /\ fpu'[d] = fpu[d]
      /\ fpu_flags'[FpuOwner(d)] = fpu_flags[FpuOwner(d)]
  BY OthersSame, BottomHeld, Zenon DEF OthersStay
<1>2. pc[d] \in {"savectx", "toidle", "fpu", "unlock", "isetup", "iunlock"} =>
        /\ fpu_flags'[old[d]] = fpu_flags[old[d]] /\ pcb'[old[d]] = pcb[old[d]]
        /\ t_state'[old[d]] = "zomb" => t_state[old[d]] = "zomb"
  BY BottomHeld, Zenon
<1> QED BY <1>1, <1>2 DEF FpuFollows, FpuAt

\* A step that leaves the floating point state alone.
LEMMA FpuSame ==
  ASSUME ResumeLockProtocol, FpuFollows, NEW c \in CPU, OthersStay(c), UNCHANGED <<ts, fpu, fpu_flags, pcb>>,
         ts[c] \/ (FpuOwner(c)' = FpuOwner(c) /\ pc'[c] \notin {"unlock", "lock", "setup", "ztoidle", "reapq"}),
         pc'[c] # "toidle",
         pc'[c] = "fpu" => pc[c] = "toidle" /\ old'[c] = old[c],
         pc'[c] \in {"savectx", "fpu", "unlock", "isetup", "iunlock"} => t_state'[old'[c]] # "zomb",
         \A t \in Thread : (t_state'[t] = "zomb" <=> t_state[t] = "zomb"),
         \A t \in User : t_state[t] = "zomb" /\ t_lock[t] => t_lock'[t]
  PROVE  FpuFollows'
<1>1. \A d \in CPU : ~ts[d] => FpuOwner(d)' = FpuOwner(d)
  BY OthersSame, Zenon
<1>2. \A t \in User : FpuOf(t)'
  <2> SUFFICES ASSUME NEW t \in User PROVE FpuOf(t)'
    BY Zenon
  <2>1. FpuOf(t) /\ t \in Thread
    BY ThreadFacts, Zenon DEF FpuFollows
  <2>2. fpu_flags[t] = {"EN"} => t_state'[t] = "zomb" \/ \E d \in CPU : ~ts'[d] /\ FpuOwner(d)' = t
    BY <1>1, <2>1, Zenon DEF FpuOf
  <2> QED BY <2>1, <2>2, Zenon DEF FpuOf
<1>3. FpuAt(c)'
  <2>1. FpuAt(c)
    BY Zenon DEF FpuFollows
  <2>2. /\ ~ts'[c] => /\ pc'[c] \notin {"unlock", "lock", "setup", "ztoidle", "reapq"}
                      /\ FpuOwner(c)' \in User /\ fpu'[c] = FpuOwner(c)' /\ fpu_flags'[FpuOwner(c)'] = {"EN"}
    BY <2>1, Zenon DEF FpuAt
  <2>3. pc'[c] \in {"toidle", "fpu"} /\ old'[c] \in User /\ fpu_flags'[old'[c]] = {"EN"} => pcb'[old'[c]] = "begun"
    BY <2>1, Zenon DEF FpuAt
  <2>4. pc'[c] \in {"savectx", "toidle", "fpu", "unlock", "isetup", "iunlock"} => t_state'[old'[c]] # "zomb"
    BY Zenon
  <2> QED BY <2>2, <2>3, <2>4, Zenon DEF FpuAt
<1> QED BY <1>2, <1>3, FpuKept, Zenon

-----------------------------------------------------------------------------
\* The chain grows and shrinks at its end: the bottom stays.
LEMMA BottomStays ==
  ASSUME ResumeLockProtocol, NEW c \in CPU,
         \/ IntrReturn(c) \/ ResumeFromIntr(c) \/ IntrSetup(c) \/ IntrUnlock(c) \/ RESTORE_REGS(c)
         \/ GiveUp(c) \/ Exit(c) \/ IntrDone(c) \/ SwtchSelf(c)
         \/ \E i \in Intr : IntrEnter(c, i)
  PROVE  Bottom(c)' = Bottom(c) /\ FpuOwner(c)' = FpuOwner(c) /\ OthersStay(c)
<1>0. /\ pc \in [CPU -> PC] /\ pinned \in [CPU -> Seq(Thread)] /\ cpu_thread \in [CPU -> Thread]
      /\ new \in [CPU -> Thread \cup {NoThread}] /\ old \in [CPU -> Thread \cup {NoThread}]
      /\ pc[c] \in {"iunlock", "restore"} => new[c] = cpu_thread[c]
  BY Zenon DEF ResumeLockProtocol, TypeOK, SwitchTypeOK, CpuShape
<1>1. CASE GiveUp(c) \/ Exit(c) \/ IntrDone(c) \/ SwtchSelf(c)
  BY <1>0, <1>1, Zenon DEF GiveUp, Exit, IntrDone, SwtchSelf, Goto, Bottom, FpuOwner, OthersStay
<1>2. CASE IntrSetup(c) \/ IntrUnlock(c) \/ RESTORE_REGS(c)
  BY <1>0, <1>2, ZenonT(60) DEF IntrSetup, IntrUnlock, RESTORE_REGS, Goto, Bottom, FpuOwner, OthersStay
<1>3. ASSUME pinned[c] # <<>>, pinned' = [pinned EXCEPT ![c] = SubSeq(@, 1, Len(@) - 1)]
      PROVE  /\ pinned'[c] # <<>> => pinned'[c][1] = pinned[c][1]
             /\ pinned'[c] = <<>> => t_intr(c) = pinned[c][1]
  <2>1. /\ Len(pinned[c]) \in Nat /\ Len(pinned[c]) > 0 /\ pinned'[c] \in Seq(Thread)
        /\ Len(pinned'[c]) = Len(pinned[c]) - 1
        /\ \A k \in 1..Len(pinned[c]) - 1 : pinned'[c][k] = pinned[c][k]
    BY <1>0, <1>3, PopFacts
  <2>2. pinned'[c] # <<>> => Len(pinned'[c]) > 0
    BY <2>1
  <2>3. pinned'[c] = <<>> => Len(pinned'[c]) = 0
    BY <2>1
  <2> QED BY <2>1, <2>2, <2>3 DEF t_intr
<1>4. CASE IntrReturn(c)
  BY <1>0, <1>3, <1>4, Zenon DEF IntrReturn, Unpin, Bottom, FpuOwner, OthersStay
<1>5. CASE ResumeFromIntr(c)
  BY <1>0, <1>3, <1>5, Zenon DEF ResumeFromIntr, Unpin, SAVE_REGS, Goto, Bottom, FpuOwner, OthersStay
<1>6. ASSUME NEW i \in Intr, IntrEnter(c, i)
      PROVE  Bottom(c)' = Bottom(c) /\ FpuOwner(c)' = FpuOwner(c) /\ OthersStay(c)
  <2>1. pinned'[c] = Append(pinned[c], cpu_thread[c])
    BY <1>0, <1>6, Zenon DEF IntrEnter
  <2>2. pinned'[c] # <<>> /\ pinned'[c][1] = IF pinned[c] # <<>> THEN pinned[c][1] ELSE cpu_thread[c]
    <3>1. CASE pinned[c] = <<>>
      BY <1>0, <2>1, <3>1
    <3>2. CASE pinned[c] # <<>>
      <4>1. Len(pinned[c]) \in Nat /\ Len(pinned[c]) > 0
        BY <1>0, <3>2
      <4>2. /\ pinned'[c] \in Seq(Thread) /\ Len(pinned'[c]) = Len(pinned[c]) + 1
            /\ pinned'[c][1] = pinned[c][1]
        BY <1>0, <2>1, <4>1, PushFacts
      <4> QED BY <3>2, <4>1, <4>2
    <3> QED BY <3>1, <3>2, ZenonT(30)
  <2> QED BY <1>0, <1>6, <2>2 DEF IntrEnter, Bottom, FpuOwner, OthersStay
<1> QED BY <1>1, <1>2, <1>4, <1>5, <1>6, Zenon

\* Every step of the switch keeps LDT, hat, TSS and T_CPU in step with the
\* thread at the bottom: Resume loads them, interrupt threads leave them.
LEMMA MmuStep ==
  ASSUME ResumeLockProtocol, MmuFollows, [Next]_vars
  PROVE  MmuFollows'
<1>0. /\ pc \in [CPU -> PC] /\ pinned \in [CPU -> Seq(Thread)] /\ cpu_thread \in [CPU -> Thread]
      /\ new \in [CPU -> Thread \cup {NoThread}] /\ old \in [CPU -> Thread \cup {NoThread}]
      /\ t_cpu \in [Thread -> CPU]
  BY ZenonT(30) DEF ResumeLockProtocol, TypeOK, SwitchTypeOK
<1>1. ASSUME UNCHANGED <<cpuVars, mmuVars, t_cpu>>
      PROVE  MmuFollows'
  BY <1>1 DEF cpuVars, mmuVars, MmuFollows, MmuTypes, MmuAt, Bottom
<1>2. CASE UNCHANGED vars
  BY <1>1, <1>2, Zenon DEF vars, thrVars
<1>3. ASSUME NEW t \in Thread, Wakeup(t) \/ Reap(t)
      PROVE  MmuFollows'
  BY <1>1, <1>3, Zenon DEF Wakeup, Reap
<1>4. ASSUME NEW c \in CPU, ThreadStep(c)
      PROVE  MmuFollows'
  <2>1. CASE GiveUp(c) \/ Exit(c) \/ IntrDone(c) \/ IntrReturn(c)
    <3>1. /\ pc[c] = "run" /\ pc'[c] \in {"run", "swtch"} /\ UNCHANGED <<ldt, hat, esp0, cpu_lwp, t_cpu>>
      BY <1>0, <2>1, Zenon DEF GiveUp, Exit, IntrDone, IntrReturn, Goto, mmuVars
    <3> QED BY <2>1, <3>1, BottomStays, MmuSame, Zenon
  <2>2. ASSUME NEW i \in Intr, IntrEnter(c, i)
        PROVE  MmuFollows'
    <3>1. /\ pc[c] = "run" /\ pc'[c] = "run" /\ UNCHANGED <<ldt, hat, esp0, cpu_lwp>>
          /\ t_cpu' = [t_cpu EXCEPT ![i] = c]
      BY <1>0, <2>2, Zenon DEF IntrEnter, mmuVars
    <3>2. \A d \in CPU : ~Holds(d, i)
      BY <2>2, ThreadFacts DEF IntrEnter, ResumeLockProtocol, HeldLocked
    <3> QED BY <1>0, <2>2, <3>1, <3>2, BottomStays, MmuSame, Zenon
  <2>3. CASE FpUse(c) \/ NdpTrapFirst(c) \/ ndptrap(c) \/ fpsave(c) \/ fprestore(c) \/ fpdisable(c)
    BY <1>1, <2>3, Zenon DEF FpUse, NdpTrapFirst, ndptrap, fpsave, fprestore, fpdisable, thrVars
  <2> QED BY <1>4, <2>1, <2>2, <2>3, Zenon DEF ThreadStep
<1>5. ASSUME NEW c \in CPU, SwitchStep(c)
      PROVE  MmuFollows'
  <2>1. CASE SwtchSelf(c) \/ RESTORE_REGS(c) \/ ResumeFromIntr(c) \/ IntrSetup(c) \/ IntrUnlock(c)
    <3>1. /\ pc[c] \in {"swtch", "isetup", "iunlock", "restore"}
          /\ pc'[c] \in {"run", "isetup", "iunlock", "restore"}
          /\ UNCHANGED <<ldt, hat, esp0, cpu_lwp, t_cpu>>
      BY <1>0, <2>1, Zenon DEF SwtchSelf, RESTORE_REGS, ResumeFromIntr, IntrSetup, IntrUnlock, Goto, mmuVars, thrVars
    <3> QED BY <2>1, <3>1, BottomStays, MmuSame, Zenon
  <2>2. CASE SaveCtx(c) \/ WaitForFpuSave(c) \/ UnlockOld(c) \/ LockNew(c) \/ ReapqAdd(c)
    <3>1. /\ OthersStay(c) /\ UNCHANGED <<ldt, hat, esp0, cpu_lwp, t_cpu>> /\ new'[c] = new[c]
          /\ \/ pc[c] \in {"fpu", "unlock", "lock", "reapq"} /\ pc'[c] \in {"unlock", "lock", "setup"}
             \/ pc'[c] = "toidle"
      BY <1>0, <2>2, Zenon DEF SaveCtx, WaitForFpuSave, UnlockOld, LockNew, ReapqAdd, Goto, OthersStay, mmuVars, thrVars
    <3> QED BY <3>1, MmuSame, Zenon
  <2>3. ASSUME NEW t \in Thread, Resume(c, t) \/ ResumeFromZombie(c, t)
        PROVE  MmuFollows'
    <3>1. OthersStay(c) /\ UNCHANGED <<ldt, hat, esp0, cpu_lwp, t_cpu>> /\ pc'[c] \in {"savectx", "zfpu"}
      BY <1>0, <2>3 DEF Resume, ResumeFromZombie, SAVE_REGS, Goto, OthersStay, mmuVars
    <3> QED BY <3>1, MmuSame, Zenon
  <2>4. CASE ToIdle(c)
    <3>1. OthersStay(c) /\ UNCHANGED t_cpu
      BY <1>0, <2>4, Zenon DEF ToIdle, SwitchToIdle, Goto, OthersStay, thrVars
    <3>2. MmuTypes' /\ pc'[c] = "fpu" /\ new'[c] = new[c] /\ new[c] \in Thread
      <4>1. pc[c] = "toidle" /\ pc'[c] = "fpu" /\ new' = new
        BY <1>0, <2>4, Zenon DEF ToIdle, Goto
      <4>2. new[c] \in Thread
        BY <4>1, Zenon DEF ResumeLockProtocol, CpuShape
      <4> QED BY <2>4, <4>1, <4>2, Zenon DEF ToIdle, SwitchToIdle, lldt, MmuFollows, MmuTypes
    <3>3. /\ \A d \in CPU \ {c} : ldt'[d] = ldt[d] /\ hat'[d] = hat[d] /\ esp0'[d] = esp0[d] /\ cpu_lwp'[d] = cpu_lwp[d]
          /\ MmuAt(c)'
      BY <2>4, <3>2, ZenonT(30) DEF ToIdle, SwitchToIdle, lldt, MmuFollows, MmuTypes, MmuAt
    <3> QED BY <3>1, <3>2, <3>3, MmuKept, Zenon
  <2>5. CASE ZombieFpu(c)
    <3>1. OthersStay(c) /\ UNCHANGED t_cpu
      BY <1>0, <2>5, Zenon DEF ZombieFpu, Goto, OthersStay, thrVars
    <3>2. MmuTypes' /\ pc'[c] = "ztoidle" /\ new'[c] = new[c] /\ new[c] \in Thread
      <4>1. pc[c] = "zfpu" /\ pc'[c] = "ztoidle" /\ new' = new
        BY <1>0, <2>5, Zenon DEF ZombieFpu, Goto
      <4>2. new[c] \in Thread
        BY <4>1, Zenon DEF ResumeLockProtocol, CpuShape
      <4> QED BY <2>5, <4>1, <4>2, Zenon DEF ZombieFpu, lldt, MmuFollows, MmuTypes
    <3>3. /\ \A d \in CPU \ {c} : ldt'[d] = ldt[d] /\ hat'[d] = hat[d] /\ esp0'[d] = esp0[d] /\ cpu_lwp'[d] = cpu_lwp[d]
          /\ MmuAt(c)'
      BY <2>5, <3>2, Zenon DEF ZombieFpu, lldt, MmuFollows, MmuTypes, MmuAt
    <3> QED BY <3>1, <3>2, <3>3, MmuKept, Zenon
  <2>6. CASE ZombieToIdle(c)
    <3>1. OthersStay(c) /\ UNCHANGED t_cpu
      BY <1>0, <2>6, Zenon DEF ZombieToIdle, SwitchToIdle, Goto, OthersStay, thrVars
    <3>2. MmuTypes' /\ pc[c] = "ztoidle" /\ pc'[c] = "reapq" /\ new'[c] = new[c] /\ new[c] \in Thread
      <4>1. pc[c] = "ztoidle" /\ pc'[c] = "reapq" /\ new' = new
        BY <1>0, <2>6, Zenon DEF ZombieToIdle, Goto
      <4>2. new[c] \in Thread
        BY <4>1, Zenon DEF ResumeLockProtocol, CpuShape
      <4> QED BY <2>6, <4>1, <4>2, Zenon DEF ZombieToIdle, SwitchToIdle, MmuFollows, MmuTypes
    <3>3. /\ \A d \in CPU \ {c} : ldt'[d] = ldt[d] /\ hat'[d] = hat[d] /\ esp0'[d] = esp0[d] /\ cpu_lwp'[d] = cpu_lwp[d]
          /\ MmuAt(c)'
      BY <2>6, <3>2, Zenon DEF ZombieToIdle, SwitchToIdle, MmuFollows, MmuTypes, MmuAt
    <3> QED BY <3>1, <3>2, <3>3, MmuKept, Zenon
  <2>7. CASE SetupCpu(c)
    <3>1. /\ OthersStay(c) /\ pc[c] = "setup" /\ pc'[c] = "restore" /\ t_cpu' = [t_cpu EXCEPT ![new[c]] = c]
      BY <1>0, <2>7, Zenon DEF SetupCpu, Goto, OthersStay
    <3>2. new[c] \in Thread /\ Holds(c, new[c]) /\ pinned[c] = <<>> /\ LwpOf(new[c]) \in Thread \cup {NoThread}
      BY <3>1, ThreadFacts, ZenonT(30) DEF ResumeLockProtocol, CpuShape, IntrChain, Dispatching, Holds, LwpOf
    <3>3. \A d \in CPU \ {c} : \A t \in Thread : Holds(d, t) => t_cpu'[t] = t_cpu[t]
      BY <1>0, <3>1, <3>2, Zenon DEF ResumeLockProtocol, HeldOnce
    <3>4. MmuTypes'
      BY <2>7, <3>2, Zenon DEF SetupCpu, MmuFollows, MmuTypes
    <3>5. \A d \in CPU \ {c} : ldt'[d] = ldt[d] /\ hat'[d] = hat[d] /\ esp0'[d] = esp0[d] /\ cpu_lwp'[d] = cpu_lwp[d]
      BY <2>7, <3>2, Zenon DEF SetupCpu, MmuFollows, MmuTypes
    <3>6. Bottom(c)' = new[c]
      BY <1>0, <2>7, <3>1, <3>2, Zenon DEF SetupCpu, Bottom
    <3>7. /\ ldt'[c] = procp[new[c]] /\ hat'[c] = procp[new[c]] /\ esp0'[c] = new[c]
          /\ cpu_lwp'[c] = LwpOf(new[c]) /\ t_cpu'[new[c]] = c
      BY <1>0, <2>7, <3>1, <3>2, ZenonT(30) DEF SetupCpu, MmuFollows, MmuTypes, MmuAt
    <3>8. MmuAt(c)'
      BY <3>1, <3>6, <3>7, Zenon DEF MmuAt
    <3> QED BY <3>1, <3>3, <3>4, <3>5, <3>8, MmuKept, Zenon
  <2> QED BY <1>5, <2>1, <2>2, <2>3, <2>4, <2>5, <2>6, <2>7, Zenon DEF SwitchStep
<1> QED BY <1>2, <1>3, <1>4, <1>5, Zenon DEF Next

-----------------------------------------------------------------------------
\* A step that changes the floating point state of one thread, the one whose
\* state processor c may have.
LEMMA FpuMoves ==
  ASSUME ResumeLockProtocol, FpuFollows, NEW c \in CPU, NEW t \in Thread, FpuOwner(c) = t, OthersStay(c), UNCHANGED <<t_state, t_lock>>,
         \A d \in CPU \ {c} : ts'[d] = ts[d] /\ fpu'[d] = fpu[d],
         \A u \in Thread \ {t} : fpu_flags'[u] = fpu_flags[u] /\ pcb'[u] = pcb[u],
         FpuAt(c)', t \in User => FpuOf(t)'
  PROVE  FpuFollows'
<1>1. Holds(c, t)
  BY BottomHeld, Zenon
<1>2. \A d \in CPU \ {c} : \A u \in Thread : Holds(d, u) =>
        fpu_flags'[u] = fpu_flags[u] /\ pcb'[u] = pcb[u] /\ (t_state'[u] = "zomb" => t_state[u] = "zomb")
  BY <1>1, Zenon DEF ResumeLockProtocol, HeldOnce
<1>3. ASSUME NEW u \in User, u # t
      PROVE  FpuOf(u)'
  <2>1. FpuOf(u) /\ u \in Thread
    BY ThreadFacts, Zenon DEF FpuFollows
  <2>2. \A d \in CPU : ~ts[d] /\ FpuOwner(d) = u => ~ts'[d] /\ FpuOwner(d)' = u
    BY <1>3, OthersSame, Zenon
  <2> QED BY <1>3, <2>1, <2>2, Zenon DEF FpuOf
<1>4. \A u \in User : FpuOf(u)'
  BY <1>3, Zenon
<1> QED BY <1>2, <1>4, FpuKept, Zenon

\* A user thread that runs is alone on its processor, is the one whose
\* floating point state the processor may have, and is not a zombie.
LEMMA UserRuns ==
  ASSUME ResumeLockProtocol, FpuFollows, NEW c \in CPU, pc[c] = "run", cpu_thread[c] \in User
  PROVE  /\ FpuOwner(c) = cpu_thread[c] /\ t_state[cpu_thread[c]] = "onproc"
         /\ FpuAt(c) /\ FpuOf(cpu_thread[c])
         /\ fpu_flags[cpu_thread[c]] = {"EN"} => ~ts[c]
<1>1. cpu_thread[c] = stack[c] /\ pinned[c] = <<>> /\ t_state[cpu_thread[c]] = "onproc"
  BY ThreadFacts DEF ResumeLockProtocol, CpuShape, IntrChain, StateShape
<1>2. FpuOwner(c) = cpu_thread[c]
  BY <1>1, Zenon DEF FpuOwner, Bottom
<1>3. FpuAt(c) /\ FpuOf(cpu_thread[c])
  BY Zenon DEF FpuFollows
<1>4. ASSUME fpu_flags[cpu_thread[c]] = {"EN"}
      PROVE  ~ts[c]
  <2>1. PICK d \in CPU : ~ts[d] /\ FpuOwner(d) = cpu_thread[c]
    BY <1>1, <1>3, <1>4, Zenon DEF FpuOf
  <2>2. d = c
    BY <1>2, <2>1, BottomHeld, Zenon DEF ResumeLockProtocol, HeldOnce
  <2> QED BY <2>1, <2>2, Zenon
<1> QED BY <1>1, <1>2, <1>3, <1>4, ZenonT(30)

\* The floating point operations of the running thread.
LEMMA FpuUseStep ==
  ASSUME ResumeLockProtocol, FpuFollows, NEW c \in CPU,
         FpUse(c) \/ NdpTrapFirst(c) \/ ndptrap(c) \/ fpsave(c) \/ fprestore(c) \/ fpdisable(c)
  PROVE  FpuFollows'
<1> PICK t \in Thread : t = cpu_thread[c]
  BY Zenon DEF ResumeLockProtocol, TypeOK, SwitchTypeOK
<1>0. /\ ts \in [CPU -> BOOLEAN] /\ fpu \in [CPU -> User \cup {NoThread}]
      /\ fpu_flags \in [Thread -> SUBSET {"EN", "VALID"}]
      /\ pcb \in [Thread -> {"stale", "begun", "saved"}]
  BY Zenon DEF ResumeLockProtocol, TypeOK, FpTypeOK
<1>1. /\ pc[c] = "run" /\ t \in User /\ t \in Thread /\ UNCHANGED <<cpuVars, thrVars>>
  BY ThreadFacts, Zenon DEF FpUse, NdpTrapFirst, ndptrap, fpsave, fprestore, fpdisable
<1>2. /\ FpuOwner(c) = t /\ t_state[t] = "onproc" /\ FpuAt(c) /\ FpuOf(t)
      /\ fpu_flags[t] = {"EN"} => ~ts[c]
  BY <1>1, UserRuns, Zenon
<1>3. OthersStay(c) /\ FpuOwner(c)' = t /\ UNCHANGED <<t_state, t_lock>> /\ pc'[c] = "run"
  BY <1>1, <1>2, ZenonT(30) DEF OthersStay, FpuOwner, Bottom, cpuVars, thrVars
<1>4. /\ \A d \in CPU \ {c} : ts'[d] = ts[d] /\ fpu'[d] = fpu[d]
      /\ \A u \in Thread \ {t} : fpu_flags'[u] = fpu_flags[u] /\ pcb'[u] = pcb[u]
  BY <1>0 DEF FpUse, NdpTrapFirst, ndptrap, fpsave, fprestore, fpdisable, fpinit, frstor
<1>5. \/ ts'[c] /\ fpu_flags'[t] = {}
      \/ ts'[c] /\ fpu_flags'[t] = {"EN", "VALID"} /\ pcb'[t] = "saved"
      \/ ~ts'[c] /\ fpu_flags'[t] = {"EN"} /\ fpu'[c] = t
  <2>1. CASE FpUse(c)
    BY <1>0, <1>1, <1>2, <2>1, Zenon DEF FpUse, FpuAt
  <2>2. CASE NdpTrapFirst(c)
    BY <1>0, <1>1, <2>2, Zenon DEF NdpTrapFirst, fpinit
  <2>3. CASE ndptrap(c)
    <3>1. fpu_flags[t] = {"EN", "VALID"} /\ pcb[t] = "saved"
      BY <1>2, <2>3, Zenon DEF ndptrap, FpuOf
    <3>2. fpu_flags'[t] = {"EN"}
      BY <1>0, <1>1, <2>3, <3>1, Zenon DEF ndptrap
    <3>3. ~ts'[c] /\ fpu'[c] = t
      BY <1>0, <1>1, <2>3, <3>1, Zenon DEF ndptrap, frstor
    <3> QED BY <3>2, <3>3, Zenon
  <2>4. CASE fpsave(c)
    <3>1. fpu[c] = t
      BY <1>2, <2>4, Zenon DEF fpsave, FpuAt
    <3> QED BY <1>0, <1>1, <2>4, <3>1, Zenon DEF fpsave
  <2>5. CASE fprestore(c)
    <3>1. pcb[t] = "saved"
      BY <1>2, <2>5, ZenonT(30) DEF fprestore, FpuOf
    <3> QED BY <1>0, <1>1, <2>5, <3>1, ZenonT(30) DEF fprestore, frstor
  <2>6. CASE fpdisable(c)
    BY <1>0, <1>1, <2>6, Zenon DEF fpdisable
  <2> QED BY <2>1, <2>2, <2>3, <2>4, <2>5, <2>6, Zenon
<1>6. FpuAt(c)'
  BY <1>1, <1>3, <1>5, Zenon DEF FpuAt
<1>7. FpuOf(t)'
  <2>1. fpu_flags'[t] = {"EN"} => ~ts'[c] /\ FpuOwner(c)' = t
    BY <1>3, <1>5, ZenonT(30)
  <2> QED BY <1>2, <1>3, <1>5, <2>1, ZenonT(30) DEF FpuOf
<1> QED BY <1>2, <1>3, <1>4, <1>6, <1>7, FpuMoves, Zenon

\* The steps of the switch that save a thread's floating point state, or
\* give it up with the thread.
LEMMA FpuSaveStep ==
  ASSUME ResumeLockProtocol, FpuFollows, NEW c \in CPU, SaveCtx(c) \/ WaitForFpuSave(c) \/ ZombieFpu(c)
  PROVE  FpuFollows'
<1>0. /\ pc \in [CPU -> PC] /\ ts \in [CPU -> BOOLEAN] /\ fpu \in [CPU -> User \cup {NoThread}]
      /\ fpu_flags \in [Thread -> SUBSET {"EN", "VALID"}]
      /\ pcb \in [Thread -> {"stale", "begun", "saved"}]
  BY Zenon DEF ResumeLockProtocol, TypeOK, SwitchTypeOK, FpTypeOK
<1>1. /\ pc[c] \in {"savectx", "fpu", "zfpu"} /\ UNCHANGED <<old, thrVars>> /\ OthersStay(c)
  BY <1>0, Zenon DEF SaveCtx, WaitForFpuSave, ZombieFpu, Goto, OthersStay
<1>2. PICK t \in Thread : t = old[c]
  BY <1>1, BottomHeld, Zenon
<1>3. FpuOwner(c) = t /\ old'[c] = t /\ FpuAt(c) /\ (t \in User => FpuOf(t))
  BY <1>1, <1>2, Zenon DEF FpuOwner, FpuFollows
<1>4. UNCHANGED <<t_state, t_lock>>
  BY <1>1, Zenon DEF thrVars
<1>5. CASE SaveCtx(c)
  <2>1. /\ pc[c] = "savectx" /\ pc'[c] = "toidle" /\ UNCHANGED <<ts, fpu, fpu_flags>> /\ FpuOwner(c)' = t
        /\ pcb' = IF fpu_flags[t] = {"EN"} THEN [pcb EXCEPT ![t] = "begun"] ELSE pcb
    BY <1>0, <1>2, <1>3, <1>5, Zenon DEF SaveCtx, Goto, fpsave_begin, FpuOwner
  <2>2. FpuAt(c)'
    <3>1. fpu_flags[t] = {"EN"} => pcb'[t] = "begun"
      BY <1>0, <1>2, <2>1, Zenon
    <3>2. /\ t_state[t] # "zomb"
          /\ ~ts[c] => t \in User /\ fpu[c] = t /\ fpu_flags[t] = {"EN"}
      BY <1>2, <1>3, <2>1, Zenon DEF FpuAt
    <3> QED BY <1>3, <1>4, <2>1, <3>1, <3>2, Zenon DEF FpuAt
  <2>3. t \in User => FpuOf(t)'
    <3>1. ASSUME NEW d \in CPU, ~ts[d], FpuOwner(d) = t
          PROVE  ~ts'[d] /\ FpuOwner(d)' = t
      BY <1>1, <2>1, <3>1, OthersSame, Zenon
    <3>2. fpu_flags[t] = {"EN"} \/ pcb' = pcb
      BY <2>1, Zenon
    <3> QED BY <1>3, <1>4, <2>1, <3>1, <3>2, Zenon DEF FpuOf
  <2>4. \A u \in Thread \ {t} : pcb'[u] = pcb[u]
    BY <1>0, <2>1, Zenon
  <2> QED BY <1>1, <1>3, <1>4, <2>1, <2>2, <2>3, <2>4, FpuMoves, Zenon
<1>6. CASE WaitForFpuSave(c) /\ t \in User /\ fpu_flags[t] = {"EN"}
  <2>1. /\ pc[c] = "fpu" /\ pc'[c] = "unlock"
        /\ fpu_flags' = [fpu_flags EXCEPT ![t] = {"VALID", "EN"}]
        /\ pcb' = [pcb EXCEPT ![t] = IF @ = "begun" THEN "saved" ELSE @]
        /\ fpu' = [fpu EXCEPT ![c] = NoThread] /\ ts' = [ts EXCEPT ![c] = TRUE]
    BY <1>0, <1>2, <1>6, Zenon DEF WaitForFpuSave, Goto
  <2>a. pcb[t] = "begun" /\ t_state[t] # "zomb"
    BY <1>2, <1>3, <1>6, <2>1, Zenon DEF FpuAt
  <2>b. fpu_flags'[t] = {"EN", "VALID"} /\ \A u \in Thread \ {t} : fpu_flags'[u] = fpu_flags[u]
    BY <1>0, <2>1, Zenon
  <2>c. pcb'[t] = "saved" /\ \A u \in Thread \ {t} : pcb'[u] = pcb[u]
    BY <1>0, <2>1, <2>a, Zenon
  <2>2. ts'[c] /\ \A d \in CPU \ {c} : ts'[d] = ts[d] /\ fpu'[d] = fpu[d]
    BY <1>0, <2>1, Zenon
  <2>3. FpuAt(c)'
    BY <1>3, <1>4, <2>1, <2>2, <2>a, Zenon DEF FpuAt
  <2>4. FpuOf(t)'
    <3>1. fpu_flags'[t] # {"EN"}
      BY <2>b
    <3>2. t_state'[t] # "zomb"
      BY <1>4, <2>a, Zenon
    <3> QED BY <2>b, <2>c, <3>1, <3>2, Zenon DEF FpuOf
  <2> QED BY <1>1, <1>3, <1>4, <2>b, <2>c, <2>2, <2>3, <2>4, FpuMoves, Zenon
<1>7. CASE WaitForFpuSave(c) /\ ~(t \in User /\ fpu_flags[t] = {"EN"})
  <2>1. pc[c] = "fpu" /\ pc'[c] = "unlock" /\ UNCHANGED <<ts, fpu, fpu_flags, pcb>>
    BY <1>0, <1>2, <1>7, Zenon DEF WaitForFpuSave, Goto, fpVars
  <2>2. ts[c] /\ t_state'[old'[c]] # "zomb"
    BY <1>2, <1>3, <1>4, <1>7, <2>1, Zenon DEF FpuAt
  <2> QED BY <1>1, <1>4, <2>1, <2>2, FpuSame, Zenon
<1>8. CASE ZombieFpu(c)
  <2>1. /\ pc[c] = "zfpu" /\ pc'[c] = "ztoidle" /\ UNCHANGED <<fpu_flags, pcb>>
        /\ ts'[c] /\ \A d \in CPU \ {c} : ts'[d] = ts[d] /\ fpu'[d] = fpu[d]
    BY <1>0, <1>8, Zenon DEF ZombieFpu, Goto
  <2>2. t_state[t] = "zomb"
    BY <1>2, <2>1, Zenon DEF ResumeLockProtocol, StateShape
  <2>3. FpuAt(c)'
    BY <2>1, Zenon DEF FpuAt
  <2>4. t \in User => FpuOf(t)'
    BY <1>3, <1>4, <2>1, <2>2, Zenon DEF FpuOf
  <2> QED BY <1>1, <1>3, <1>4, <2>1, <2>3, <2>4, FpuMoves, Zenon
<1> QED BY <1>5, <1>6, <1>7, <1>8, Zenon

\* The steps that change no floating point state.
LEMMA FpuQuietStep ==
  ASSUME ResumeLockProtocol, FpuFollows, NEW c \in CPU,
         \/ GiveUp(c) \/ IntrDone(c) \/ IntrReturn(c) \/ \E i \in Intr : IntrEnter(c, i)
         \/ SwtchSelf(c) \/ RESTORE_REGS(c) \/ ResumeFromIntr(c) \/ IntrSetup(c) \/ IntrUnlock(c)
         \/ ToIdle(c) \/ UnlockOld(c) \/ LockNew(c) \/ SetupCpu(c) \/ ZombieToIdle(c) \/ ReapqAdd(c)
         \/ \E t \in Thread : Resume(c, t) \/ ResumeFromZombie(c, t)
  PROVE  FpuFollows'
<1>0. /\ pc \in [CPU -> PC] /\ pinned \in [CPU -> Seq(Thread)] /\ cpu_thread \in [CPU -> Thread]
      /\ new \in [CPU -> Thread \cup {NoThread}] /\ old \in [CPU -> Thread \cup {NoThread}]
      /\ t_state \in [Thread -> {"run", "sleep", "onproc", "zomb", "free"}]
      /\ t_lock \in [Thread -> BOOLEAN]
      /\ cpu_thread[c] = stack[c]
  BY ZenonT(30) DEF ResumeLockProtocol, TypeOK, SwitchTypeOK, CpuShape
<1>1. /\ pc[c] = "run" => t_state[cpu_thread[c]] = "onproc"
      /\ \A t \in Thread : t_state[t] = "zomb" => t \in User
      /\ \A t \in Candidates(c) : t \in Thread /\ t_state[t] # "zomb"
  BY <1>0, ThreadFacts, ZenonT(30) DEF ResumeLockProtocol, StateShape, Candidates
<1>2. FpuAt(c)
  BY ZenonT(30) DEF FpuFollows
<1>3. CASE GiveUp(c) \/ IntrDone(c) \/ SwtchSelf(c)
  <2>1. /\ UNCHANGED <<ts, fpu, fpu_flags, pcb, t_lock>> /\ pc'[c] \in {"run", "swtch"}
        /\ \A t \in Thread : (t_state'[t] = "zomb" <=> t_state[t] = "zomb")
    BY <1>0, <1>1, <1>3, ZenonT(30) DEF GiveUp, IntrDone, SwtchSelf, thread_onproc, Goto, fpVars
  <2> QED BY <1>3, <2>1, BottomStays, FpuSame, ZenonT(30)
<1>4. CASE IntrReturn(c)
  <2>1. /\ UNCHANGED <<ts, fpu, fpu_flags, pcb>> /\ pc'[c] = "run"
        /\ \A t \in Thread : (t_state'[t] = "zomb" <=> t_state[t] = "zomb")
    BY <1>0, <1>1, <1>4, Zenon DEF IntrReturn, fpVars
  <2>2. \A t \in User : t_state[t] = "zomb" /\ t_lock[t] => t_lock'[t]
    BY <1>0, <1>1, <1>4, ThreadFacts, Zenon DEF IntrReturn
  <2> QED BY <1>4, <2>1, <2>2, BottomStays, FpuSame, Zenon
<1>5. ASSUME NEW i \in Intr, IntrEnter(c, i)
      PROVE  FpuFollows'
  <2>1. /\ UNCHANGED <<ts, fpu, fpu_flags, pcb>> /\ pc'[c] = "run"
        /\ \A t \in Thread : (t_state'[t] = "zomb" <=> t_state[t] = "zomb")
    BY <1>0, <1>5, Zenon DEF IntrEnter, fpVars
  <2>2. \A t \in User : t_state[t] = "zomb" /\ t_lock[t] => t_lock'[t]
    BY <1>0, <1>5, ThreadFacts, Zenon DEF IntrEnter
  <2> QED BY <1>5, <2>1, <2>2, BottomStays, FpuSame, Zenon
<1>6. CASE RESTORE_REGS(c) \/ IntrSetup(c)
  <2>1. /\ UNCHANGED <<ts, fpu, fpu_flags, pcb, t_lock, t_state>>
        /\ pc'[c] = "run" \/ (pc[c] = "isetup" /\ pc'[c] = "iunlock" /\ old' = old)
    BY <1>0, <1>6, Zenon DEF RESTORE_REGS, IntrSetup, Goto, fpVars, thrVars
  <2>2. pc'[c] = "iunlock" => t_state'[old'[c]] # "zomb"
    BY <1>2, <2>1, Zenon DEF FpuAt
  <2> QED BY <1>6, <2>1, <2>2, BottomStays, FpuSame, Zenon
<1>7. CASE ResumeFromIntr(c)
  <2>1. /\ UNCHANGED <<ts, fpu, fpu_flags, pcb, t_lock, t_state>>
        /\ pc'[c] = "isetup" /\ old'[c] = cpu_thread[c] /\ pinned[c] # <<>>
    BY <1>0, <1>7, Zenon DEF ResumeFromIntr, SAVE_REGS, Goto, fpVars
  <2>2. t_state'[old'[c]] # "zomb"
    BY <1>0, <1>1, <2>1, ThreadFacts, ZenonT(30) DEF ResumeLockProtocol, IntrChain
  <2> QED BY <1>7, <2>1, <2>2, BottomStays, FpuSame, Zenon
<1>8. CASE IntrUnlock(c)
  <2>1. /\ UNCHANGED <<ts, fpu, fpu_flags, pcb, t_state>>
        /\ pc[c] = "iunlock" /\ pc'[c] = "restore" /\ t_lock' = [t_lock EXCEPT ![old[c]] = FALSE]
    BY <1>0, <1>8, Zenon DEF IntrUnlock, Goto, fpVars
  <2>2. \A t \in User : t_state[t] = "zomb" /\ t_lock[t] => t_lock'[t]
    BY <1>0, <1>2, <2>1, ThreadFacts, Zenon DEF FpuAt
  <2> QED BY <1>8, <2>1, <2>2, BottomStays, FpuSame, Zenon
<1>9. CASE ToIdle(c)
  <2>1. /\ UNCHANGED <<ts, fpu, fpu_flags, pcb, t_lock, t_state, old>>
        /\ pc[c] = "toidle" /\ pc'[c] = "fpu" /\ OthersStay(c)
    BY <1>0, <1>9, Zenon DEF ToIdle, SwitchToIdle, Goto, OthersStay, fpVars, thrVars
  <2>2. FpuOwner(c)' = FpuOwner(c) /\ t_state'[old'[c]] # "zomb"
    BY <1>2, <2>1, Zenon DEF FpuAt, FpuOwner
  <2> QED BY <2>1, <2>2, FpuSame, Zenon
<1>10. CASE UnlockOld(c)
  <2>1. /\ UNCHANGED <<ts, fpu, fpu_flags, pcb, t_state>> /\ OthersStay(c)
        /\ pc[c] = "unlock" /\ pc'[c] = "lock" /\ t_lock' = [t_lock EXCEPT ![old[c]] = FALSE]
    BY <1>0, <1>10, Zenon DEF UnlockOld, Goto, OthersStay, fpVars
  <2>2. ts[c] /\ \A t \in User : t_state[t] = "zomb" /\ t_lock[t] => t_lock'[t]
    BY <1>0, <1>2, <2>1, ThreadFacts, Zenon DEF FpuAt
  <2> QED BY <2>1, <2>2, FpuSame, Zenon
<1>11. CASE LockNew(c) \/ SetupCpu(c) \/ ZombieToIdle(c) \/ ReapqAdd(c)
  <2>1. /\ UNCHANGED <<ts, fpu, fpu_flags, pcb, t_state>> /\ OthersStay(c)
        /\ pc[c] \in {"lock", "setup", "ztoidle", "reapq"} /\ pc'[c] \in {"setup", "restore", "reapq", "lock"}
    BY <1>0, <1>11, Zenon DEF LockNew, SetupCpu, ZombieToIdle, SwitchToIdle, ReapqAdd, Goto, OthersStay, fpVars, thrVars
  <2>2. \A t \in User : t_state[t] = "zomb" /\ t_lock[t] => t_lock'[t]
    BY <1>0, <1>11, ThreadFacts, Zenon DEF LockNew, SetupCpu, ZombieToIdle, ReapqAdd, thrVars
  <2>3. ts[c]
    BY <1>2, <2>1, Zenon DEF FpuAt
  <2> QED BY <2>1, <2>2, <2>3, FpuSame, Zenon
<1>12. ASSUME NEW t \in Thread, Resume(c, t) \/ ResumeFromZombie(c, t)
       PROVE  FpuFollows'
  <2>a. /\ UNCHANGED <<ts, fpu, fpu_flags, pcb, t_lock, pinned>> /\ OthersStay(c) /\ pc[c] = "swtch"
        /\ pc'[c] \in {"savectx", "zfpu"} /\ old'[c] = cpu_thread[c]
    BY <1>0, <1>12, ZenonT(30) DEF Resume, ResumeFromZombie, SAVE_REGS, Goto, OthersStay, fpVars
  <2>b. t_state' = [t_state EXCEPT ![t] = "onproc"] /\ t_state[t] # "zomb"
    BY <1>1, <1>12, ZenonT(30) DEF Resume, ResumeFromZombie, thread_onproc
  <2>1. /\ UNCHANGED <<ts, fpu, fpu_flags, pcb, t_lock, pinned>> /\ OthersStay(c) /\ pc[c] = "swtch"
        /\ pc'[c] \in {"savectx", "zfpu"} /\ old'[c] = cpu_thread[c]
        /\ t_state' = [t_state EXCEPT ![t] = "onproc"] /\ t_state[t] # "zomb"
    BY <2>a, <2>b, Zenon
  <2>2. pinned[c] = <<>>
    BY <1>0, <1>1, <1>12, ThreadFacts, Zenon DEF Resume, ResumeFromZombie, ResumeLockProtocol, IntrChain
  <2>3. FpuOwner(c)' = FpuOwner(c)
    BY <2>1, <2>2, Zenon DEF FpuOwner, Bottom
  <2>4. pc'[c] = "savectx" => t_state'[old'[c]] # "zomb"
    BY <1>0, <1>12, <2>1, Zenon DEF Resume, ResumeFromZombie, Goto
  <2>5. \A u \in Thread : (t_state'[u] = "zomb" <=> t_state[u] = "zomb")
    BY <1>0, <2>1, Zenon
  <2> QED BY <2>1, <2>3, <2>4, <2>5, FpuSame, Zenon
<1> QED BY <1>3, <1>4, <1>5, <1>6, <1>7, <1>8, <1>9, <1>10, <1>11, <1>12, Zenon

\* Every step keeps the floating point invariant.
LEMMA FpuStep ==
  ASSUME ResumeLockProtocol, FpuFollows, [Next]_vars
  PROVE  FpuFollows'
<1>0. /\ t_state \in [Thread -> {"run", "sleep", "onproc", "zomb", "free"}] /\ t_lock \in [Thread -> BOOLEAN]
      /\ fpu_flags \in [Thread -> SUBSET {"EN", "VALID"}] /\ pcb \in [Thread -> {"stale", "begun", "saved"}]
      /\ pc \in [CPU -> PC]
  BY Zenon DEF ResumeLockProtocol, TypeOK, SwitchTypeOK, FpTypeOK
<1>1. ASSUME UNCHANGED <<pc, cpu_thread, old, new, pinned, ts, fpu>>
      PROVE  \A c \in CPU : FpuOwner(c)' = FpuOwner(c)
  BY <1>1, Zenon DEF FpuOwner, Bottom
<1>2. ASSUME UNCHANGED <<pc, cpu_thread, old, new, pinned, ts, fpu, fpu_flags, pcb, t_lock>>,
             \A u \in Thread : (t_state'[u] = "zomb" <=> t_state[u] = "zomb")
      PROVE  FpuFollows'
  <2>1. \A c \in CPU : FpuOwner(c)' = FpuOwner(c)
    BY <1>1, <1>2, Zenon
  <2>2. ASSUME NEW c \in CPU
        PROVE  FpuAt(c)'
    <3>1. FpuAt(c) /\ FpuOwner(c)' = FpuOwner(c)
      BY <2>1, Zenon DEF FpuFollows
    <3>2. pc[c] \in {"savectx", "toidle", "fpu", "unlock", "isetup", "iunlock"} => t_state'[old[c]] # "zomb"
      BY <1>2, <3>1, BottomHeld, Zenon DEF FpuAt
    <3> QED BY <1>2, <3>1, <3>2, Zenon DEF FpuAt
  <2>3. ASSUME NEW u \in User
        PROVE  FpuOf(u)'
    <3>1. FpuOf(u) /\ u \in Thread
      BY ThreadFacts, Zenon DEF FpuFollows
    <3> QED BY <1>2, <2>1, <3>1, Zenon DEF FpuOf
  <2> QED BY <2>2, <2>3, Zenon DEF FpuFollows
<1>3. CASE UNCHANGED vars
  BY <1>2, <1>3, Zenon DEF vars, cpuVars, thrVars, fpVars
<1>a. ASSUME NEW t \in Thread, Wakeup(t)
      PROVE  FpuFollows'
  <2>1. /\ UNCHANGED <<pc, cpu_thread, old, new, pinned, ts, fpu, fpu_flags, pcb, t_lock>>
        /\ t_state[t] # "zomb" /\ t_state' = [t_state EXCEPT ![t] = "run"]
    BY <1>a, Zenon DEF Wakeup, cpuVars, fpVars
  <2>2. \A u \in Thread : (t_state'[u] = "zomb" <=> t_state[u] = "zomb")
    BY <1>0, <2>1, Zenon
  <2> QED BY <1>2, <2>1, <2>2, Zenon
<1>4. ASSUME NEW t \in Thread, Reap(t)
      PROVE  FpuFollows'
  <2>1. /\ UNCHANGED <<pc, cpu_thread, old, new, pinned, ts, fpu>>
        /\ t_state' = [t_state EXCEPT ![t] = "run"] /\ t_lock' = [t_lock EXCEPT ![t] = FALSE]
        /\ fpu_flags' = [fpu_flags EXCEPT ![t] = {}] /\ pcb' = [pcb EXCEPT ![t] = "stale"]
    BY <1>4, Zenon DEF Reap, cpuVars
  <2>2. \A c \in CPU : ~Holds(c, t)
    BY <1>4, Zenon DEF Reap, ResumeLockProtocol, DeathRow
  <2>3. \A c \in CPU : FpuAt(c)'
    <3> SUFFICES ASSUME NEW c \in CPU PROVE FpuAt(c)'
      BY Zenon
    <3>1. /\ FpuOwner(c) # t /\ FpuOwner(c) \in Thread
          /\ pc[c] \in {"savectx", "toidle", "fpu", "unlock", "isetup", "iunlock"} => old[c] # t /\ old[c] \in Thread
      BY <2>2, BottomHeld, Zenon
    <3>2. /\ FpuOwner(c)' = FpuOwner(c) /\ fpu_flags'[FpuOwner(c)] = fpu_flags[FpuOwner(c)]
          /\ pc[c] \in {"savectx", "toidle", "fpu", "unlock", "isetup", "iunlock"} =>
               /\ fpu_flags'[old[c]] = fpu_flags[old[c]] /\ pcb'[old[c]] = pcb[old[c]]
               /\ t_state'[old[c]] = t_state[old[c]]
      BY <1>0, <1>1, <2>1, <3>1, Zenon
    <3>3. FpuAt(c)
      BY Zenon DEF FpuFollows
    <3> QED BY <2>1, <3>2, <3>3, Zenon DEF FpuAt
  <2>4. \A u \in User : FpuOf(u)'
    <3> SUFFICES ASSUME NEW u \in User PROVE FpuOf(u)'
      OBVIOUS
    <3>1. FpuOf(u) /\ u \in Thread
      BY ThreadFacts, Zenon DEF FpuFollows
    <3>2. CASE u = t
      <4>1. fpu_flags'[u] = {} /\ t_state'[u] = "run"
        BY <1>0, <2>1, <3>1, <3>2, Zenon
      <4> QED BY <4>1, Zenon DEF FpuOf
    <3>3. CASE u # t
      <4>1. /\ fpu_flags'[u] = fpu_flags[u] /\ t_state'[u] = t_state[u]
            /\ pcb'[u] = pcb[u] /\ t_lock'[u] = t_lock[u]
        BY <1>0, <2>1, <3>1, <3>3, Zenon
      <4>2. \A c \in CPU : FpuOwner(c)' = FpuOwner(c) /\ ts'[c] = ts[c]
        BY <1>1, <2>1, Zenon
      <4> QED BY <3>1, <4>1, <4>2, Zenon DEF FpuOf
    <3> QED BY <3>2, <3>3, Zenon
  <2> QED BY <2>3, <2>4, Zenon DEF FpuFollows
<1>5. ASSUME NEW c \in CPU, Exit(c)
      PROVE  FpuFollows'
  <2>1. PICK t \in User : t = cpu_thread[c] /\ t \in Thread
    BY <1>5, ThreadFacts, Zenon DEF Exit
  <2>2. /\ UNCHANGED <<ts, fpu, fpu_flags, pcb, t_lock>> /\ t_state' = [t_state EXCEPT ![t] = "zomb"]
        /\ pc'[c] = "swtch"
    BY <1>0, <1>5, <2>1, Zenon DEF Exit, Goto, fpVars
  <2>3. OthersStay(c) /\ FpuOwner(c)' = FpuOwner(c)
    BY <1>5, BottomStays, Zenon
  <2>4. Holds(c, t) /\ t_lock[t]
    BY <2>1, ThreadFacts, ZenonT(30) DEF ResumeLockProtocol, CpuShape, HeldLocked, Holds
  <2>5. FpuAt(c)'
    <3>1. FpuAt(c)
      BY Zenon DEF FpuFollows
    <3> QED BY <2>2, <2>3, <3>1, Zenon DEF FpuAt
  <2>6. \A d \in CPU : FpuOwner(d)' = FpuOwner(d)
    BY <2>3, OthersSame, Zenon
  <2>7. \A u \in User : FpuOf(u)'
    <3> SUFFICES ASSUME NEW u \in User PROVE FpuOf(u)'
      BY Zenon
    <3>1. FpuOf(u) /\ u \in Thread
      BY ThreadFacts, Zenon DEF FpuFollows
    <3>2. /\ t_state'[u] = "zomb" => u = t \/ t_state[u] = "zomb"
          /\ t_state[u] = "zomb" => t_state'[u] = "zomb"
      BY <1>0, <2>2, <3>1, Zenon
    <3> QED BY <2>2, <2>4, <2>6, <3>1, <3>2, Zenon DEF FpuOf
  <2>8. \A d \in CPU \ {c} : \A u \in Thread : Holds(d, u) => t_state'[u] = t_state[u]
    BY <1>0, <2>1, <2>2, <2>4, Zenon DEF ResumeLockProtocol, HeldOnce
  <2> QED BY <2>2, <2>3, <2>5, <2>7, <2>8, FpuKept, Zenon
<1>6. ASSUME NEW c \in CPU, SwitchStep(c) \/ ThreadStep(c)
      PROVE  FpuFollows'
  BY <1>5, <1>6, FpuQuietStep, FpuSaveStep, FpuUseStep, Zenon DEF SwitchStep, ThreadStep
<1> QED BY <1>3, <1>a, <1>4, <1>6, Zenon DEF Next

\* All processors start in their idle threads, with TS set.
LEMMA ContextInitial == Init => MmuFollows /\ FpuFollows
<1> SUFFICES ASSUME Init PROVE MmuFollows /\ FpuFollows
  BY Zenon
<1>1. MmuTypes
  BY ThreadFacts, Zenon DEF Init, MmuTypes
<1>2. ASSUME NEW c \in CPU
      PROVE  MmuAt(c) /\ FpuAt(c)
  <2>1. Bottom(c) = idle[c] /\ pc[c] = "run" /\ LwpOf(idle[c]) = NoThread /\ ts[c]
    BY ThreadFacts, Zenon DEF Init, Bottom, LwpOf
  <2> QED BY <2>1, Zenon DEF Init, MmuAt, FpuAt
<1>3. ASSUME NEW t \in User
      PROVE  FpuOf(t)
  BY ThreadFacts, Zenon DEF Init, FpuOf
<1> QED BY <1>1, <1>2, <1>3, Zenon DEF MmuFollows, FpuFollows

\* Outside the switch the owner of the MMU state is the thread under any
\* interrupt threads.
LEMMA MmuMeans ==
  ASSUME MmuFollows
  PROVE  MmuContextMatches
<1>1. \A c \in CPU : pc[c] = "run" => Base(c) = Bottom(c)
  BY Zenon DEF Base, Bottom
<1> QED BY <1>1 DEF MmuContextMatches, MmuFollows, MmuAt

\* No processor holds a thread whose t_lock is free, so none has its floating
\* point state.
LEMMA FpuMeans ==
  ASSUME ResumeLockProtocol, FpuFollows
  PROVE  FpuStateIsSafe
<1>1. \A c \in CPU : pc[c] = "run" => Base(c) = Bottom(c) /\ FpuOwner(c) = Bottom(c)
  BY Zenon DEF Base, Bottom, FpuOwner
<1>2. FpuBelongsToThread
  BY <1>1, Zenon DEF FpuBelongsToThread, FpuFollows, FpuAt
<1>3. UnlockedFpuIsSaved
  <2> SUFFICES ASSUME NEW t \in User, "EN" \in fpu_flags[t], ~t_lock[t]
               PROVE  fpu_flags[t] = {"EN", "VALID"} /\ pcb[t] = "saved"
    BY Zenon DEF UnlockedFpuIsSaved
  <2>1. FpuOf(t)
    BY Zenon DEF FpuFollows
  <2>2. \A c \in CPU : FpuOwner(c) # t
    <3>1. t \in Thread /\ \A c \in CPU : t # idle[c]
      BY ThreadFacts, Zenon
    <3>2. \A c \in CPU : ~Holds(c, t)
      BY <3>1, Zenon DEF ResumeLockProtocol, HeldLocked
    <3> QED BY <3>2, BottomHeld, Zenon
  <2> QED BY <2>1, <2>2, Zenon DEF FpuOf
<1> QED BY <1>2, <1>3, Zenon DEF FpuStateIsSafe

\* A processor outside the switch has the LDT, the hat, the TSS stack and the
\* lwp of the thread that runs on it, or of the one that its interrupt threads
\* pin, whichever processors that thread ran on before.
THEOREM MmuContextHolds == Spec => []MmuContextMatches
<1>1. MmuFollows => MmuContextMatches
  BY MmuMeans
<1>2. Init => MmuFollows
  BY ContextInitial
<1>3. ResumeLockProtocol /\ MmuFollows /\ [Next]_vars => MmuFollows'
  BY MmuStep
<1> QED BY <1>1, <1>2, <1>3, ProtocolHolds, PTL DEF Spec

\* The FPU belongs to the thread that runs, and a thread whose t_lock is free
\* has its floating point state in its save area: another processor that
\* resumes it never loads a state that is still in the first one's FPU.
THEOREM FpuContextHolds == Spec => []FpuStateIsSafe
<1>1. ResumeLockProtocol /\ FpuFollows => FpuStateIsSafe
  BY FpuMeans
<1>2. Init => FpuFollows
  BY ContextInitial
<1>3. ResumeLockProtocol /\ FpuFollows /\ [Next]_vars => FpuFollows'
  BY FpuStep
<1> QED BY <1>1, <1>2, <1>3, ProtocolHolds, PTL DEF Spec

=============================================================================
