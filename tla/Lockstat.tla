------------------------------- MODULE Lockstat ------------------------------
(***************************************************************************)
(* The lockstat probes: the patch points of the lock primitives and        *)
(* lockstat_wrapper() behind them, lockstat_hot_patch() (ml/lock_prim.s)   *)
(* and the LOCKSTAT_RECORD macros (sys/lockstat.h).  The lockstat driver   *)
(* (outside the repository) sets and clears lockstat_probemap, patches the *)
(* kernel text, and after a clearing waits until no thread is in lockstat  *)
(* code before the consumer of the probe goes away.                        *)
(*                                                                         *)
(* t_lockstat is written without a locked instruction, so a store of it    *)
(* may stay in the processor's store buffer.                               *)
(***************************************************************************)
EXTENDS Integers, Sequences

CONSTANTS
  LsThread,     \* threads that take locks
  PatchPoints,  \* PatchPoints[i]: the event of the i-th patch point
  BufferLen     \* bound: stores in a store buffer

LsEvent == {PatchPoints[i] : i \in DOMAIN PatchPoints}

ASSUME LockstatAssumption ==
  /\ PatchPoints \in Seq(LsEvent) /\ PatchPoints # << >>
  /\ BufferLen \in Nat \ {0}

VARIABLES
  lockstat_probemap,  \* the events with a probe
  text,               \* text[i]: "ret", or "nop" when lockstat is active there
  t_lockstat,         \* t_lockstat[t] in memory
  store_buf,          \* store_buf[t]: the stores of it that are under way
  ls_pc,              \* ls_pc[t]: "out", "inc", "record_inc", "membar", "load", "probe", "dec"
  ls_event,           \* ls_event[t]: the event being recorded
  driver_pc,          \* "idle", "patch", "delay" or "active"
  patched,            \* number of points lockstat_hot_patch() has done
  pending,            \* threads whose stores the delay waits for
  consumed            \* events whose probe still has its consumer

lsThreadVars == <<ls_pc, ls_event>>
driverVars == <<lockstat_probemap, text, driver_pc, patched, pending, consumed>>
lockstatVars == <<lsThreadVars, driverVars, t_lockstat, store_buf>>

LockstatInit ==
  /\ lockstat_probemap = {} /\ consumed = {}
  /\ text = [i \in DOMAIN PatchPoints |-> "ret"]
  /\ t_lockstat = [t \in LsThread |-> 0]
  /\ store_buf = [t \in LsThread |-> << >>]
  /\ ls_pc = [t \in LsThread |-> "out"]
  /\ ls_event = [t \in LsThread |-> PatchPoints[1]]
  /\ driver_pc = "idle" /\ patched = 0 /\ pending = {}

-----------------------------------------------------------------------------
(* The threads                                                             *)
-----------------------------------------------------------------------------
LsGoto(t, from, to) == ls_pc[t] = from /\ ls_pc' = [ls_pc EXCEPT ![t] = to]

\* The value the thread itself sees.
OwnLockstat(t) ==
  IF store_buf[t] = << >> THEN t_lockstat[t] ELSE store_buf[t][Len(store_buf[t])]

Store(t, v) ==
  /\ Len(store_buf[t]) < BufferLen
  /\ store_buf' = [store_buf EXCEPT ![t] = Append(@, v)]
  /\ UNCHANGED t_lockstat

DrainStore(t) ==
  /\ store_buf[t] # << >>
  /\ t_lockstat' = [t_lockstat EXCEPT ![t] = Head(store_buf[t])]
  /\ store_buf' = [store_buf EXCEPT ![t] = Tail(@)]
  /\ pending' = IF Len(store_buf[t]) = 1 THEN pending \ {t} ELSE pending
  /\ UNCHANGED <<lsThreadVars, lockstat_probemap, text, driver_pc, patched, consumed>>

\* A lock primitive at its i-th patch point: ret, or on into the wrapper.
PatchPoint(t, i) ==
  /\ ls_pc[t] = "out" /\ text[i] = "nop"
  /\ ls_pc' = [ls_pc EXCEPT ![t] = "inc"]
  /\ ls_event' = [ls_event EXCEPT ![t] = PatchPoints[i]]
  /\ UNCHANGED <<driverVars, t_lockstat, store_buf>>

\* LOCKSTAT_RECORD4: the first test of the probe map.
LOCKSTAT_RECORD(t, e) ==
  /\ ls_pc[t] = "out" /\ e \in lockstat_probemap
  /\ ls_pc' = [ls_pc EXCEPT ![t] = "record_inc"]
  /\ ls_event' = [ls_event EXCEPT ![t] = e]
  /\ UNCHANGED <<driverVars, t_lockstat, store_buf>>

\* Mutant: the macro calls the probe its first test found.
RecordProbe_first(t) ==
  /\ LsGoto(t, "record_inc", "probe") /\ Store(t, OwnLockstat(t) + 1)
  /\ UNCHANGED <<driverVars, ls_event>>

\* t_lockstat++
RecordProbe(t) ==
  /\ LsGoto(t, "record_inc", "membar") /\ Store(t, OwnLockstat(t) + 1)
  /\ UNCHANGED <<driverVars, ls_event>>

\* membar_enter(): the second test comes after the store.
membar_enter(t) ==
  /\ LsGoto(t, "membar", "load") /\ store_buf[t] = << >>
  /\ UNCHANGED <<driverVars, ls_event, t_lockstat, store_buf>>

\* incb T_LOCKSTAT
lockstat_wrapper(t) ==
  /\ LsGoto(t, "inc", "load") /\ Store(t, OwnLockstat(t) + 1)
  /\ UNCHANGED <<driverVars, ls_event>>

\* The load of lockstat_probemap[event].
LoadProbe(t) ==
  /\ LsGoto(t, "load", IF ls_event[t] \in lockstat_probemap THEN "probe" ELSE "dec")
  /\ UNCHANGED <<driverVars, ls_event, t_lockstat, store_buf>>

\* The probe returns.
ProbeReturns(t) ==
  /\ LsGoto(t, "probe", "dec")
  /\ UNCHANGED <<driverVars, ls_event, t_lockstat, store_buf>>

\* decb T_LOCKSTAT
WrapperExit(t) ==
  /\ LsGoto(t, "dec", "out") /\ Store(t, OwnLockstat(t) - 1)
  /\ UNCHANGED <<driverVars, ls_event>>

-----------------------------------------------------------------------------
(* The driver                                                              *)
-----------------------------------------------------------------------------
DriverGoto(from, to) == driver_pc = from /\ driver_pc' = to

\* The driver gives an event a probe, or takes it away.
SetProbe(e) ==
  /\ DriverGoto("idle", "patch") /\ patched' = 0
  /\ \/ /\ e \notin lockstat_probemap
        /\ lockstat_probemap' = lockstat_probemap \union {e}
        /\ consumed' = consumed \union {e}
     \/ /\ e \in lockstat_probemap
        /\ lockstat_probemap' = lockstat_probemap \ {e}
        /\ UNCHANGED consumed
  /\ UNCHANGED <<lsThreadVars, t_lockstat, store_buf, text, pending>>

\* The macro HOT_PATCH: active_instr when the event has a probe, else normal_instr.
Instruction(i) == IF PatchPoints[i] \in lockstat_probemap THEN "nop" ELSE "ret"

\* lockstat_hot_patch() patches its points one after the other.
lockstat_hot_patch ==
  /\ patched < Len(PatchPoints) /\ driver_pc = "patch"
  /\ patched' = patched + 1
  /\ text' = [text EXCEPT ![patched + 1] = Instruction(patched + 1)]
  /\ UNCHANGED <<lsThreadVars, t_lockstat, store_buf,
                 lockstat_probemap, driver_pc, pending, consumed>>

\* The driver waits for a clock tick, in which every store buffer drains, ...
StartDelay ==
  /\ patched = Len(PatchPoints)
  /\ \/ DriverGoto("patch", "delay")
     \/ DriverGoto("active", "delay") /\ \E t \in LsThread : t_lockstat[t] # 0
  /\ pending' = {t \in LsThread : store_buf[t] # << >>}
  /\ UNCHANGED <<lsThreadVars, t_lockstat, store_buf,
                 lockstat_probemap, text, patched, consumed>>

EndDelay ==
  /\ DriverGoto("delay", "active") /\ pending = {}
  /\ UNCHANGED <<lsThreadVars, t_lockstat, store_buf,
                 lockstat_probemap, text, patched, pending, consumed>>

\* ... until lockstat_active_threads() finds none.
NoActiveThreads ==
  /\ DriverGoto("active", "idle") /\ \A t \in LsThread : t_lockstat[t] = 0
  /\ consumed' = lockstat_probemap
  /\ UNCHANGED <<lsThreadVars, t_lockstat, store_buf,
                 lockstat_probemap, text, patched, pending>>

LockstatNext ==
  \/ \E t \in LsThread :
       \/ \E i \in DOMAIN PatchPoints : PatchPoint(t, i)
       \/ \E e \in LsEvent : LOCKSTAT_RECORD(t, e)
       \/ RecordProbe(t) \/ membar_enter(t) \/ lockstat_wrapper(t) \/ LoadProbe(t)
       \/ ProbeReturns(t) \/ WrapperExit(t) \/ DrainStore(t)
  \/ \E e \in LsEvent : SetProbe(e)
  \/ lockstat_hot_patch \/ StartDelay \/ EndDelay \/ NoActiveThreads

LockstatSpec == LockstatInit /\ [][LockstatNext]_lockstatVars

-----------------------------------------------------------------------------
\* No thread calls a probe that has no consumer any more: a thread that
\* found the probe in the map is seen in its t_lockstat by the driver, even
\* when the store of it was still in a store buffer when the map was cleared.
ProbeHasConsumer ==
  \A t \in LsThread : ls_pc[t] = "probe" => ls_event[t] \in consumed

\* When the driver is done, the lock primitives enter lockstat code for
\* exactly the events that have a probe: every patch point of an event was
\* patched, and patched back.
TextMatchesMap ==
  driver_pc = "idle" =>
    \A i \in DOMAIN PatchPoints : (text[i] = "nop") <=> (PatchPoints[i] \in lockstat_probemap)

\* Probes come and go with their consumers while the lock primitives run: none
\* is called without one, and no return instruction stays patched.
ProbesFollowConsumers == ProbeHasConsumer /\ TextMatchesMap

=============================================================================
