------------------------------- MODULE MCLocks -------------------------------
(***************************************************************************)
(* The adaptive mutex and the spin locks, which share no state, in one     *)
(* run: the subject is chosen at the start and takes all the steps.  Three *)
(* threads on two processors for the mutex, a holder, a sleeper and a      *)
(* runner; two processors for the spin locks, with handlers at two levels, *)
(* the higher one the lock's own.                                          *)
(***************************************************************************)
EXTENDS Mutex, LockSpl

CONSTANTS c1, c2

Processors == {c1, c2}

VARIABLE subject

mcVars == <<subject, vars, lockSplVars>>

OfMutex(A) == subject = "mutex" /\ A /\ UNCHANGED <<subject, lockSplVars>>
OfLockSpl(A) == subject = "lock_spl" /\ A /\ UNCHANGED <<subject, vars>>

MCInit == subject \in {"mutex", "lock_spl"} /\ Init /\ LockSplInit
MCNext == OfMutex(Next) \/ OfLockSpl(LockSplNext)

\* The fairness of FairSpec and of LockSplFairSpec.
MCFairness ==
  /\ \A t \in Thread : /\ SF_mcVars(OfMutex(Dispatch(t) \/ Drain(t)))
                       /\ SF_mcVars(OfMutex(Step(t)))
  /\ \A c \in CPU : WF_mcVars(OfLockSpl(Progress(c)))

MCSpec == MCInit /\ [][MCNext]_mcVars /\ MCFairness

=============================================================================
