------------------------------ MODULE ModStubs ------------------------------
(***************************************************************************)
(* Stubs for functions of loadable modules (ml/modstubs.s): the four kinds *)
(* of stub and their common code, against loading and unloading.  The      *)
(* loader (mod_hold_stub(), mod_release_stub() and the unloading) is       *)
(* outside the repository.                                                 *)
(***************************************************************************)
EXTENDS FiniteSets, Integers

CONSTANTS
  StubThread,  \* the callers
  Unloadable,  \* modules that can be unloaded, called through STUB and WSTUB
  Permanent    \* modules without _fini, called through the NO_UNLOAD stubs

Module == Unloadable \cup Permanent

ASSUME ModStubsAssumption ==
  IsFiniteSet(StubThread) /\ Unloadable \cap Permanent = {} /\ Module # {}

VARIABLES
  stub_pc,    \* stub_pc[t]: where t is
  stub_mod,   \* stub_mod[t]: the module it calls
  inst_fcn,   \* inst_fcn[m]: does the stub's install_fcn point into m?
  mods_flag,  \* mods_flag[m]: MODS_INSTALLED
  mod_ref,    \* mod_ref[m]: holds
  mod_busy    \* mod_busy[m]: being loaded

stubVars == <<stub_pc, stub_mod, inst_fcn, mods_flag, mod_ref, mod_busy>>

\* "test" and "test_weak": before the second test of MODS_FLAG, in a stub whose
\* MODS_WEAK is clear or set.
StubPC == {"out", "test", "test_weak", "hold", "load", "flag", "call", "in", "release",
           "error", "jump", "in_direct", "retfcn"}

StubInit ==
  /\ stub_pc = [t \in StubThread |-> "out"]
  /\ stub_mod \in [StubThread -> {CHOOSE m \in Module : TRUE}]
  /\ inst_fcn = [m \in Module |-> FALSE]
  /\ mods_flag = [m \in Module |-> FALSE]
  /\ mod_ref = [m \in Module |-> 0]
  /\ mod_busy = [m \in Module |-> FALSE]

StubAt(t, from) == stub_pc[t] = from
StubGoto(t, to) == stub_pc' = [stub_pc EXCEPT ![t] = to]
ModuleUnchanged == UNCHANGED <<inst_fcn, mods_flag, mod_ref, mod_busy>>

-----------------------------------------------------------------------------
(* The stubs                                                               *)

\* Mutant: an installed module is called without a hold.
STUB_COMMON_direct(t, m, weak) ==
  /\ StubAt(t, "out") /\ m \in Unloadable
  /\ stub_mod' = [stub_mod EXCEPT ![t] = m]
  /\ StubGoto(t, IF mods_flag[m] THEN "jump" ELSE IF weak THEN "retfcn" ELSE "hold")
  /\ ModuleUnchanged

\* "weak?": is MODS_FLAG, with MODS_WEAK and MODS_INSTALLED, other than 0?
STUB_COMMON(t, m, weak) ==
  /\ StubAt(t, "out") /\ m \in Unloadable
  /\ stub_mod' = [stub_mod EXCEPT ![t] = m]
  /\ StubGoto(t, IF weak THEN "test_weak" ELSE IF mods_flag[m] THEN "test" ELSE "hold")
  /\ ModuleUnchanged

\* "installed? yes, do the mod_hold; no, just jump to retfcn": MODS_FLAG is
\* read again.
StubInstalled(t) ==
  /\ stub_pc[t] \in {"test", "test_weak"}
  /\ StubGoto(t, IF mods_flag[stub_mod[t]] THEN "hold" ELSE "retfcn")
  /\ ModuleUnchanged /\ UNCHANGED stub_mod

\* "installed? yes, just jump to install_fcn", without a hold
STUB_UNLOADABLE(t, m, weak) ==
  /\ StubAt(t, "out") /\ m \in Permanent
  /\ stub_mod' = [stub_mod EXCEPT ![t] = m]
  /\ StubGoto(t, IF mods_flag[m] THEN "jump" ELSE IF weak THEN "retfcn" ELSE "hold")
  /\ ModuleUnchanged

\* jmp *(%eax): the function returns to the caller of the stub.
StubJump(t) ==
  /\ StubAt(t, "jump") /\ StubGoto(t, "in_direct")
  /\ ModuleUnchanged /\ UNCHANGED stub_mod

\* call *(%esi)
StubCall(t) ==
  /\ StubAt(t, "call") /\ StubGoto(t, "in")
  /\ ModuleUnchanged /\ UNCHANGED stub_mod

\* mod_hold_stub() has returned -1: there is no hold, only retfcn is called.
StubError(t) ==
  /\ StubAt(t, "error") /\ StubGoto(t, "retfcn")
  /\ ModuleUnchanged /\ UNCHANGED stub_mod

\* The function sleeps for as long as it likes, and returns.
StubReturn(t) ==
  /\ \/ StubAt(t, "in") /\ StubGoto(t, "release")
     \/ stub_pc[t] \in {"in_direct", "retfcn"} /\ StubGoto(t, "out")
  /\ ModuleUnchanged /\ UNCHANGED stub_mod

\* mod_release_stub()
StubRelease(t) ==
  /\ StubAt(t, "release") /\ StubGoto(t, "out")
  /\ mod_ref' = [mod_ref EXCEPT ![stub_mod[t]] = @ - 1]
  /\ UNCHANGED <<stub_mod, inst_fcn, mods_flag, mod_busy>>

-----------------------------------------------------------------------------
(* The loader                                                              *)

\* mod_hold_stub() of an installed module; else this thread loads it.
mod_hold_stub(t) ==
  LET m == stub_mod[t] IN
  /\ StubAt(t, "hold") /\ ~mod_busy[m]
  /\ IF mods_flag[m]
     THEN /\ mod_ref' = [mod_ref EXCEPT ![m] = @ + 1]
          /\ StubGoto(t, "call")
          /\ UNCHANGED mod_busy
     ELSE /\ mod_busy' = [mod_busy EXCEPT ![m] = TRUE]
          /\ StubGoto(t, "load")
          /\ UNCHANGED mod_ref
  /\ UNCHANGED <<stub_mod, inst_fcn, mods_flag>>

\* The functions' addresses are entered into the stubs, or loading fails
\* and -1 is returned.
LoadModule(t) ==
  LET m == stub_mod[t] IN
  /\ StubAt(t, "load")
  /\ \/ inst_fcn' = [inst_fcn EXCEPT ![m] = TRUE] /\ StubGoto(t, "flag") /\ UNCHANGED mod_busy
     \/ mod_busy' = [mod_busy EXCEPT ![m] = FALSE] /\ StubGoto(t, "error") /\ UNCHANGED inst_fcn
  /\ UNCHANGED <<stub_mod, mods_flag, mod_ref>>

\* MODS_INSTALLED, with the addresses in place, and the hold.
InstallModule(t) ==
  LET m == stub_mod[t] IN
  /\ StubAt(t, "flag") /\ StubGoto(t, "call")
  /\ mods_flag' = [mods_flag EXCEPT ![m] = TRUE]
  /\ mod_ref' = [mod_ref EXCEPT ![m] = @ + 1]
  /\ mod_busy' = [mod_busy EXCEPT ![m] = FALSE]
  /\ UNCHANGED <<stub_mod, inst_fcn>>

\* Without holds a module that has _fini can go at any time.
UnloadModule(m) ==
  /\ m \in Unloadable /\ mods_flag[m] /\ mod_ref[m] = 0 /\ ~mod_busy[m]
  /\ mods_flag' = [mods_flag EXCEPT ![m] = FALSE]
  /\ inst_fcn' = [inst_fcn EXCEPT ![m] = FALSE]
  /\ UNCHANGED <<stub_pc, stub_mod, mod_ref, mod_busy>>

StubNext ==
  \/ \E t \in StubThread :
       \/ \E m \in Module, weak \in BOOLEAN : STUB_COMMON(t, m, weak) \/ STUB_UNLOADABLE(t, m, weak)
       \/ StubInstalled(t) \/ StubJump(t) \/ StubCall(t) \/ StubError(t) \/ StubReturn(t) \/ StubRelease(t)
       \/ mod_hold_stub(t) \/ LoadModule(t) \/ InstallModule(t)
  \/ \E m \in Module : UnloadModule(m)

StubSpec == StubInit /\ [][StubNext]_stubVars

-----------------------------------------------------------------------------
\* The stub data and the threads' places have their types.
StubTypeOK ==
  /\ stub_pc \in [StubThread -> StubPC] /\ stub_mod \in [StubThread -> Module]
  /\ inst_fcn \in [Module -> BOOLEAN] /\ mods_flag \in [Module -> BOOLEAN]
  /\ mod_ref \in [Module -> Nat] /\ mod_busy \in [Module -> BOOLEAN]

\* A thread that goes through a stub into a module, or sleeps in it, finds
\* the module there: the flag may be stale when the hold is taken, but the
\* hold, or the promise of the NO_UNLOAD stubs that there is no unloading,
\* covers the call to its end.
NoCallIntoUnloaded ==
  \A t \in StubThread :
    stub_pc[t] \in {"call", "in", "jump", "in_direct"} => inst_fcn[stub_mod[t]]

\* Every hold is released: a module has as many holds as there are threads
\* between a successful mod_hold_stub() and their mod_release_stub(), also
\* after calls whose loading failed, so that it can be unloaded again.
HoldsBalance ==
  \A m \in Module :
    mod_ref[m] = Cardinality({t \in StubThread :
                    stub_mod[t] = m /\ stub_pc[t] \in {"call", "in", "release"}})

\* modstubs.s:282, "weak?", and modctl.h:400, "weak stub (not loaded if
\* called)": only a weak stub jumps to retfcn instead of holding, and loading,
\* its module.
OnlyWeakSkipsLoading ==
  [][\A t \in StubThread : stub_pc[t] = "test" => stub_pc'[t] \in {"test", "hold"}]_stubVars

=============================================================================
