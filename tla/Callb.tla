-------------------------------- MODULE Callb --------------------------------
(***************************************************************************)
(* Stopping kernel daemons for checkpoint and resume: the macros           *)
(* CALLB_CPR_INIT, CALLB_CPR_SAFE_BEGIN, CALLB_CPR_SAFE_END and            *)
(* CALLB_CPR_EXIT of sys/callb.h.  The callback callb_generic_cpr(), the   *)
(* callback table and the condition variables are outside the repository.  *)
(* CALLB_CPR_INIT_SAFE registers a thread that is always safe, under a     *)
(* callback that is outside too and never stops it: nothing to model.      *)
(*                                                                         *)
(* The macros run under cc_lockp, so each is a step, up to its cv_wait().  *)
(***************************************************************************)
EXTENDS FiniteSets, Integers

CONSTANTS
  Daemon,       \* the kernel threads
  MaxSuspends   \* bound: suspend operations

ASSUME CallbAssumption == IsFiniteSet(Daemon) /\ MaxSuspends \in Nat

VARIABLES
  cc_events,    \* cc_events[d]: subset of {"start", "safe"}
  daemon_pc,    \* "new", "work", "safe", "stop", "delete" or "gone"
  stop_cv,      \* stop_cv[d]: is d asleep on cc_stop_cv?
  callb_cv,     \* callb_cv[d]: who sleeps on cc_callb_cv
  callb_table,  \* daemons in the callback table
  cpr_pc,       \* "running", "chkpt", "suspended", "resume"
  cpr_left,     \* daemons whose callback is still to be called
  cpr_cur,      \* daemon whose callback is executing, as a set
  suspends      \* suspend operations so far

daemonVars == <<daemon_pc, stop_cv, callb_table>>
cprVars == <<cpr_pc, cpr_left, cpr_cur, suspends>>
callbVars == <<cc_events, callb_cv, daemonVars, cprVars>>

CallbInit ==
  /\ cc_events = [d \in Daemon |-> {}]
  /\ daemon_pc = [d \in Daemon |-> "new"]
  /\ stop_cv = [d \in Daemon |-> FALSE]
  /\ callb_cv = [d \in Daemon |-> {}]
  /\ callb_table = {}
  /\ cpr_pc = "running" /\ cpr_left = {} /\ cpr_cur = {} /\ suspends = 0

-----------------------------------------------------------------------------
(* A daemon                                                                *)
-----------------------------------------------------------------------------
DaemonGoto(d, from, to) ==
  daemon_pc[d] = from /\ daemon_pc' = [daemon_pc EXCEPT ![d] = to]

\* callb_add() waits while a suspend operation has the table locked.
CALLB_CPR_INIT(d) ==
  /\ DaemonGoto(d, "new", "work") /\ cpr_pc = "running"
  /\ cc_events' = [cc_events EXCEPT ![d] = {}]
  /\ callb_table' = callb_table \union {d}
  /\ UNCHANGED <<callb_cv, stop_cv, cprVars>>

\* cc_events |= CALLB_CPR_SAFE, and a signal when a checkpoint waits for it.
BecomeSafe(d) ==
  /\ cc_events' = [cc_events EXCEPT ![d] = @ \union {"safe"}]
  /\ callb_cv' = IF "start" \in cc_events[d] THEN [callb_cv EXCEPT ![d] = {}] ELSE callb_cv

CALLB_CPR_SAFE_BEGIN(d) ==
  /\ DaemonGoto(d, "work", "safe")
  /\ BecomeSafe(d)
  /\ UNCHANGED <<stop_cv, callb_table, cprVars>>

\* Mutant: the flag is tested once, not after every wakeup.
CALLB_CPR_SAFE_END_if(d) ==
  \/ /\ DaemonGoto(d, "safe", "stop") /\ "start" \in cc_events[d]
     /\ stop_cv' = [stop_cv EXCEPT ![d] = TRUE]
     /\ UNCHANGED <<cc_events, callb_cv, callb_table, cprVars>>
  \/ /\ \/ DaemonGoto(d, "safe", "work") /\ "start" \notin cc_events[d]
        \/ DaemonGoto(d, "stop", "work") /\ ~stop_cv[d]
     /\ cc_events' = [cc_events EXCEPT ![d] = @ \ {"safe"}]
     /\ UNCHANGED <<callb_cv, stop_cv, callb_table, cprVars>>

\* Mutant: the wait is on the other condition variable.
CALLB_CPR_SAFE_END_wrong_cv(d) ==
  \/ /\ DaemonGoto(d, "safe", "stop") /\ "start" \in cc_events[d]
     /\ callb_cv' = [callb_cv EXCEPT ![d] = @ \union {"daemon"}]
     /\ UNCHANGED <<cc_events, stop_cv, callb_table, cprVars>>
  \/ /\ "start" \notin cc_events[d]
     /\ \/ DaemonGoto(d, "safe", "work")
        \/ DaemonGoto(d, "stop", "work") /\ callb_cv[d] = {}
     /\ cc_events' = [cc_events EXCEPT ![d] = @ \ {"safe"}]
     /\ UNCHANGED <<callb_cv, stop_cv, callb_table, cprVars>>

\* while (cc_events & CALLB_CPR_START) cv_wait(&cc_stop_cv); then the daemon
\* is not safe any more.
CALLB_CPR_SAFE_END(d) ==
  \/ /\ daemon_pc[d] \in {"safe", "stop"} /\ ~stop_cv[d]
     /\ "start" \in cc_events[d]
     /\ daemon_pc' = [daemon_pc EXCEPT ![d] = "stop"]
     /\ stop_cv' = [stop_cv EXCEPT ![d] = TRUE]
     /\ UNCHANGED <<cc_events, callb_cv, callb_table, cprVars>>
  \/ /\ daemon_pc[d] \in {"safe", "stop"} /\ ~stop_cv[d]
     /\ "start" \notin cc_events[d]
     /\ daemon_pc' = [daemon_pc EXCEPT ![d] = "work"]
     /\ cc_events' = [cc_events EXCEPT ![d] = @ \ {"safe"}]
     /\ UNCHANGED <<callb_cv, stop_cv, callb_table, cprVars>>

CALLB_CPR_EXIT(d) ==
  /\ DaemonGoto(d, "work", "delete")
  /\ BecomeSafe(d)
  /\ UNCHANGED <<stop_cv, callb_table, cprVars>>

\* callb_delete() waits for an executing callback; then cv_destroy().
callb_delete(d) ==
  /\ DaemonGoto(d, "delete", "gone") /\ d \notin cpr_cur
  /\ callb_table' = callb_table \ {d}
  /\ UNCHANGED <<cc_events, callb_cv, stop_cv, cprVars>>

-----------------------------------------------------------------------------
(* The suspend operation                                                   *)
-----------------------------------------------------------------------------
StartSuspend ==
  /\ cpr_pc = "running" /\ suspends < MaxSuspends
  /\ cpr_pc' = "chkpt" /\ cpr_left' = callb_table /\ suspends' = suspends + 1
  /\ UNCHANGED <<cc_events, callb_cv, daemonVars, cpr_cur>>

\* callb_generic_cpr(CB_CODE_CPR_CHKPT): request, and wait until it is safe.
CallbChkpt(d) ==
  /\ cpr_pc = "chkpt" /\ cpr_cur = {}
  /\ d \in cpr_left \intersect callb_table
  /\ cc_events' = [cc_events EXCEPT ![d] = @ \union {"start"}]
  /\ callb_cv' = IF "safe" \in cc_events[d] THEN callb_cv
                 ELSE [callb_cv EXCEPT ![d] = {"cpr"}]
  /\ cpr_cur' = {d}
  /\ UNCHANGED <<daemonVars, cpr_pc, cpr_left, suspends>>

ChkptReturns(d) ==
  /\ cpr_pc = "chkpt" /\ cpr_cur = {d}
  /\ "cpr" \notin callb_cv[d] /\ "safe" \in cc_events[d]
  /\ cpr_cur' = {} /\ cpr_left' = cpr_left \ {d}
  /\ UNCHANGED <<cc_events, callb_cv, daemonVars, cpr_pc, suspends>>

\* cv_timedwait() times out: the operation fails, and everyone is resumed,
\* also daemons that were never stopped.
ChkptTimesOut(d) ==
  /\ cpr_pc = "chkpt" /\ cpr_cur = {d} /\ "cpr" \in callb_cv[d]
  /\ callb_cv' = [callb_cv EXCEPT ![d] = @ \ {"cpr"}]
  /\ cpr_cur' = {} /\ cpr_pc' = "resume" /\ cpr_left' = callb_table
  /\ UNCHANGED <<cc_events, daemonVars, suspends>>

\* Every daemon in the table has answered.
Suspended ==
  /\ cpr_pc = "chkpt" /\ cpr_cur = {} /\ cpr_left \intersect callb_table = {}
  /\ cpr_pc' = "suspended"
  /\ UNCHANGED <<cc_events, callb_cv, daemonVars, cpr_left, cpr_cur, suspends>>

StartResume ==
  /\ cpr_pc = "suspended" /\ cpr_pc' = "resume" /\ cpr_left' = callb_table
  /\ UNCHANGED <<cc_events, callb_cv, daemonVars, cpr_cur, suspends>>

\* callb_generic_cpr(CB_CODE_CPR_RESUME)
CallbResume(d) ==
  /\ cpr_pc = "resume" /\ d \in cpr_left
  /\ cc_events' = [cc_events EXCEPT ![d] = @ \ {"start"}]
  /\ stop_cv' = [stop_cv EXCEPT ![d] = FALSE]
  /\ cpr_left' = cpr_left \ {d}
  /\ UNCHANGED <<callb_cv, daemon_pc, callb_table, cpr_pc, cpr_cur, suspends>>

EndResume ==
  /\ cpr_pc = "resume" /\ cpr_left \intersect callb_table = {}
  /\ cpr_pc' = "running"
  /\ UNCHANGED <<cc_events, callb_cv, daemonVars, cpr_left, cpr_cur, suspends>>

CprStep ==
  \/ Suspended \/ StartResume \/ EndResume
  \/ \E d \in Daemon : CallbChkpt(d) \/ ChkptReturns(d) \/ ChkptTimesOut(d) \/ CallbResume(d)

CallbNext ==
  \/ StartSuspend \/ CprStep
  \/ \E d \in Daemon :
       \/ CALLB_CPR_INIT(d) \/ CALLB_CPR_SAFE_BEGIN(d) \/ CALLB_CPR_SAFE_END(d)
       \/ CALLB_CPR_EXIT(d) \/ callb_delete(d)

\* The suspending thread goes on, and a daemon that was signalled runs.
CallbFairness ==
  /\ WF_callbVars(CprStep)
  /\ \A d \in Daemon : WF_callbVars(CALLB_CPR_SAFE_END(d))

CallbSpec == CallbInit /\ [][CallbNext]_callbVars /\ CallbFairness

-----------------------------------------------------------------------------
\* While the system is suspended every daemon that registered is stopped, in
\* its safe region or at its end ("Any code region between
\* CALLB_CPR_SAFE_BEGIN and CALLB_CPR_SAFE_END is safe for
\* checkpoint/resume"): none works on, whatever order the checkpoint and the
\* daemon's own steps came in.
StoppedWhileSuspended ==
  cpr_pc = "suspended" =>
    \A d \in callb_table : daemon_pc[d] \in {"safe", "stop", "delete"}

\* A daemon stopped in CALLB_CPR_SAFE_END runs again after the resume, also
\* when the suspend operation failed half way.
StoppedDaemonRuns ==
  \A d \in Daemon : daemon_pc[d] = "stop" ~> daemon_pc[d] # "stop"

=============================================================================
