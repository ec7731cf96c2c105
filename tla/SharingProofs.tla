---------------------------- MODULE SharingProofs ----------------------------
(***************************************************************************)
(* Proofs about what any number of threads or processors share: the        *)
(* modules behind the stubs of ModStubs, the panic stack of Panic, and the *)
(* locks that AddrLocks takes in the order of their addresses.             *)
(***************************************************************************)
EXTENDS ModStubs, Panic, AddrLocks, TLAPS, FiniteSetTheorems, SequenceTheorems, WellFoundedInduction

-----------------------------------------------------------------------------
(* Module stubs                                                            *)

\* The threads with a hold on m, as HoldsBalance counts them.
Holders(m) == {t \in StubThread : stub_mod[t] = m /\ stub_pc[t] \in {"call", "in", "release"}}

\* Which threads a module's state stands for: an installed module has its
\* addresses in the stubs, a module with a hold is installed, a direct call
\* is into a permanent module, and one thread at a time loads a module.
StubPlaces ==
  /\ \A m \in Module : mods_flag[m] => inst_fcn[m]
  /\ \A t \in StubThread :
       /\ stub_pc[t] \in {"call", "in", "release"} => mods_flag[stub_mod[t]]
       /\ stub_pc[t] \in {"jump", "in_direct"} => stub_mod[t] \in Permanent /\ mods_flag[stub_mod[t]]
       /\ stub_pc[t] \in {"load", "flag"} => mod_busy[stub_mod[t]] /\ ~mods_flag[stub_mod[t]]
       /\ stub_pc[t] = "flag" => inst_fcn[stub_mod[t]]
  /\ \A t, u \in StubThread :
       /\ stub_pc[t] \in {"load", "flag"} /\ stub_pc[u] \in {"load", "flag"}
       /\ stub_mod[t] = stub_mod[u]
       => t = u

\* The inductive invariant of the stubs.
StubInv == StubTypeOK /\ StubPlaces /\ \A m \in Module : mod_ref[m] = Cardinality(Holders(m))

\* Threads are finitely many, so holds can be counted.
LEMMA HoldersFinite == \A m : IsFiniteSet(Holders(m)) /\ Cardinality(Holders(m)) \in Nat
BY ModStubsAssumption, FS_Subset, FS_CardinalityType, Zenon DEF Holders

\* The count goes with a thread that takes a hold ...
LEMMA HoldTaken ==
  ASSUME StubInv, NEW t \in StubThread, NEW m \in Module,
         stub_mod[t] = m, stub_pc[t] \notin {"call", "in", "release"},
         stub_pc' = [stub_pc EXCEPT ![t] = "call"], stub_mod' = stub_mod,
         mod_ref' = [mod_ref EXCEPT ![m] = @ + 1]
  PROVE  (\A n \in Module : mod_ref[n] = Cardinality(Holders(n)))' /\ mod_ref' \in [Module -> Nat]
<1>1. Holders(m)' = Holders(m) \cup {t} /\ t \notin Holders(m)
  BY Zenon DEF Holders, StubInv, StubTypeOK
<1>2. \A n \in Module : n # m => Holders(n)' = Holders(n)
  BY Zenon DEF Holders, StubInv, StubTypeOK
<1>3. Cardinality(Holders(m)') = Cardinality(Holders(m)) + 1
  BY <1>1, HoldersFinite, FS_AddElement, Zenon
<1>4. mod_ref \in [Module -> Nat] /\ \A n \in Module : mod_ref[n] = Cardinality(Holders(n))
  BY Zenon DEF StubInv, StubTypeOK
<1>5. /\ mod_ref'[m] = mod_ref[m] + 1
      /\ \A n \in Module : n # m => mod_ref'[n] = mod_ref[n]
  BY <1>4, Zenon
<1> QED BY <1>2, <1>3, <1>4, <1>5

\* ... and with one that gives it back.
LEMMA HoldGiven ==
  ASSUME StubInv, NEW t \in StubThread, stub_pc[t] = "release",
         stub_pc' = [stub_pc EXCEPT ![t] = "out"], stub_mod' = stub_mod,
         mod_ref' = [mod_ref EXCEPT ![stub_mod[t]] = @ - 1]
  PROVE  (\A n \in Module : mod_ref[n] = Cardinality(Holders(n)))' /\ mod_ref' \in [Module -> Nat]
<1> DEFINE m == stub_mod[t]
<1>0. m \in Module
  BY Zenon DEF StubInv, StubTypeOK
<1>1. Holders(m)' = Holders(m) \ {t} /\ t \in Holders(m)
  BY Zenon DEF Holders, StubInv, StubTypeOK
<1>2. \A n \in Module : n # m => Holders(n)' = Holders(n)
  BY Zenon DEF Holders, StubInv, StubTypeOK
<1>3. Cardinality(Holders(m)') = Cardinality(Holders(m)) - 1
  BY <1>1, HoldersFinite, FS_RemoveElement, Zenon
<1>4. Cardinality(Holders(m)) - 1 \in Nat
  BY <1>1, HoldersFinite, FS_EmptySet
<1>5. mod_ref \in [Module -> Nat] /\ \A n \in Module : mod_ref[n] = Cardinality(Holders(n))
  BY Zenon DEF StubInv, StubTypeOK
<1>6. /\ mod_ref'[m] = mod_ref[m] - 1
      /\ \A n \in Module : n # m => mod_ref'[n] = mod_ref[n]
  BY <1>0, <1>5, Zenon
<1> QED BY <1>0, <1>2, <1>3, <1>4, <1>5, <1>6, Zenon

\* A step that neither takes nor gives a hold leaves the counts right.
LEMMA HoldsSame ==
  ASSUME StubInv, mod_ref' = mod_ref,
         NEW t \in StubThread, NEW to, stub_pc' = [stub_pc EXCEPT ![t] = to],
         \/ /\ stub_mod' = stub_mod
            /\ stub_pc[t] \in {"call", "in", "release"} <=> to \in {"call", "in", "release"}
         \/ /\ stub_pc[t] \notin {"call", "in", "release"} /\ to \notin {"call", "in", "release"}
            /\ \A u \in StubThread \ {t} : stub_mod'[u] = stub_mod[u]
  PROVE  (\A n \in Module : mod_ref[n] = Cardinality(Holders(n)))'
<1>1. \A n : Holders(n)' = Holders(n)
  BY Zenon DEF Holders, StubInv, StubTypeOK
<1> QED BY <1>1, Zenon DEF StubInv

\* StubInv is an invariant of the stubs.
LEMMA StubInvariant == StubSpec => []StubInv
<1> USE ModStubsAssumption
<1>1. StubInit => StubInv
  <2> SUFFICES ASSUME StubInit PROVE StubInv
    BY Zenon
  <2>1. StubTypeOK /\ StubPlaces
    BY Zenon DEF StubInit, StubTypeOK, StubPlaces, StubPC
  <2>2. \A m \in Module : Holders(m) = {}
    BY Zenon DEF StubInit, Holders
  <2> QED BY <2>1, <2>2, FS_EmptySet, Zenon DEF StubInit, StubInv
<1>2. StubInv /\ [StubNext]_stubVars => StubInv'
  <2> SUFFICES ASSUME StubInv, [StubNext]_stubVars
               PROVE  StubInv'
    BY Zenon
  <2>1. CASE UNCHANGED stubVars
    BY <2>1 DEF stubVars, StubInv, StubTypeOK, StubPlaces, Holders
  <2>2. ASSUME NEW t \in StubThread, NEW m \in Module, NEW weak \in BOOLEAN, STUB_COMMON(t, m, weak)
        PROVE  StubInv'
    <3>1. StubTypeOK' /\ StubPlaces'
      BY <2>2 DEF STUB_COMMON, StubAt, StubGoto, ModuleUnchanged, StubPC, StubInv, StubTypeOK, StubPlaces
    <3>2. (\A n \in Module : mod_ref[n] = Cardinality(Holders(n)))'
      <4>1. \A u \in StubThread \ {t} : stub_mod'[u] = stub_mod[u]
        BY <2>2, Zenon DEF STUB_COMMON, StubInv, StubTypeOK
      <4> QED BY <2>2, <4>1, HoldsSame, Zenon DEF STUB_COMMON, StubAt, StubGoto, ModuleUnchanged
    <3> QED BY <3>1, <3>2, Zenon DEF StubInv
  <2>3. ASSUME NEW t \in StubThread, NEW m \in Module, NEW weak \in BOOLEAN, STUB_UNLOADABLE(t, m, weak)
        PROVE  StubInv'
    <3>1. StubTypeOK' /\ StubPlaces'
      BY <2>3 DEF STUB_UNLOADABLE, StubAt, StubGoto, ModuleUnchanged, StubPC, StubInv, StubTypeOK, StubPlaces
    <3>2. (\A n \in Module : mod_ref[n] = Cardinality(Holders(n)))'
      <4>1. \A u \in StubThread \ {t} : stub_mod'[u] = stub_mod[u]
        BY <2>3, Zenon DEF STUB_UNLOADABLE, StubInv, StubTypeOK
      <4> QED BY <2>3, <4>1, HoldsSame, Zenon DEF STUB_UNLOADABLE, StubAt, StubGoto, ModuleUnchanged
    <3> QED BY <3>1, <3>2, ZenonT(60) DEF StubInv
  <2>13. ASSUME NEW t \in StubThread, StubInstalled(t)
         PROVE  StubInv'
    <3>1. StubTypeOK' /\ StubPlaces'
      BY <2>13 DEF StubInstalled, StubGoto, ModuleUnchanged, StubPC, StubInv, StubTypeOK, StubPlaces
    <3>2. (\A m \in Module : mod_ref[m] = Cardinality(Holders(m)))'
      BY <2>13, HoldsSame, Zenon DEF StubInstalled, StubGoto, ModuleUnchanged
    <3> QED BY <3>1, <3>2, Zenon DEF StubInv
  <2>4. ASSUME NEW t \in StubThread, StubJump(t)
        PROVE  StubInv'
    <3>1. StubTypeOK' /\ StubPlaces'
      BY <2>4 DEF StubJump, StubAt, StubGoto, ModuleUnchanged, StubPC, StubInv, StubTypeOK, StubPlaces
    <3>2. (\A m \in Module : mod_ref[m] = Cardinality(Holders(m)))'
      BY <2>4, HoldsSame, Zenon DEF StubJump, StubAt, StubGoto, ModuleUnchanged
    <3> QED BY <3>1, <3>2, Zenon DEF StubInv
  <2>5. ASSUME NEW t \in StubThread, StubCall(t)
        PROVE  StubInv'
    <3>1. StubTypeOK' /\ StubPlaces'
      BY <2>5 DEF StubCall, StubAt, StubGoto, ModuleUnchanged, StubPC, StubInv, StubTypeOK, StubPlaces
    <3>2. (\A m \in Module : mod_ref[m] = Cardinality(Holders(m)))'
      BY <2>5, HoldsSame, Zenon DEF StubCall, StubAt, StubGoto, ModuleUnchanged
    <3> QED BY <3>1, <3>2, ZenonT(60) DEF StubInv
  <2>6. ASSUME NEW t \in StubThread, StubError(t)
        PROVE  StubInv'
    <3>1. StubTypeOK' /\ StubPlaces'
      BY <2>6 DEF StubError, StubAt, StubGoto, ModuleUnchanged, StubPC, StubInv, StubTypeOK, StubPlaces
    <3>2. (\A m \in Module : mod_ref[m] = Cardinality(Holders(m)))'
      BY <2>6, HoldsSame, Zenon DEF StubError, StubAt, StubGoto, ModuleUnchanged
    <3> QED BY <3>1, <3>2 DEF StubInv
  <2>7. ASSUME NEW t \in StubThread, StubReturn(t)
        PROVE  StubInv'
    <3>1. StubTypeOK' /\ StubPlaces'
      BY <2>7 DEF StubReturn, StubAt, StubGoto, ModuleUnchanged, StubPC, StubInv, StubTypeOK, StubPlaces
    <3>2. (\A m \in Module : mod_ref[m] = Cardinality(Holders(m)))'
      BY <2>7, HoldsSame, Zenon DEF StubReturn, StubAt, StubGoto, ModuleUnchanged
    <3> QED BY <3>1, <3>2 DEF StubInv
  <2>8. ASSUME NEW t \in StubThread, LoadModule(t)
        PROVE  StubInv'
    <3>0. /\ stub_mod[t] \in Module /\ stub_pc[t] = "load" /\ mod_busy[stub_mod[t]]
          /\ UNCHANGED <<stub_mod, mods_flag, mod_ref>>
          /\ \A u \in StubThread : u # t /\ stub_mod[u] = stub_mod[t] => stub_pc[u] \notin {"load", "flag"}
      BY <2>8, Zenon DEF LoadModule, StubAt, StubInv, StubTypeOK, StubPlaces
    <3>1. StubTypeOK' /\ StubPlaces'
      <4>1. CASE /\ inst_fcn' = [inst_fcn EXCEPT ![stub_mod[t]] = TRUE]
                 /\ stub_pc' = [stub_pc EXCEPT ![t] = "flag"] /\ UNCHANGED mod_busy
        <5>1. StubTypeOK'
          BY <3>0, <4>1, Zenon DEF StubInv, StubTypeOK, StubPC
        <5>2. /\ stub_pc'[t] = "flag" /\ \A u \in StubThread : u # t => stub_pc'[u] = stub_pc[u]
              /\ stub_mod' = stub_mod /\ mods_flag' = mods_flag /\ mod_busy' = mod_busy
              /\ inst_fcn'[stub_mod[t]] /\ \A m \in Module : inst_fcn[m] => inst_fcn'[m]
          BY <3>0, <4>1, Zenon DEF StubInv, StubTypeOK
        <5>3. StubPlaces /\ stub_mod \in [StubThread -> Module]
          BY Zenon DEF StubInv, StubTypeOK
        <5>4. (\A m \in Module : mods_flag[m] => inst_fcn[m])'
          BY <5>2, <5>3, Zenon DEF StubPlaces
        <5>5. ASSUME NEW u \in StubThread
              PROVE  /\ stub_pc'[u] \in {"call", "in", "release"} => mods_flag'[stub_mod'[u]]
                     /\ stub_pc'[u] \in {"jump", "in_direct"} => stub_mod'[u] \in Permanent /\ mods_flag'[stub_mod'[u]]
                     /\ stub_pc'[u] \in {"load", "flag"} => mod_busy'[stub_mod'[u]] /\ ~mods_flag'[stub_mod'[u]]
                     /\ stub_pc'[u] = "flag" => inst_fcn'[stub_mod'[u]]
          <6>1. CASE u = t
            BY <3>0, <5>2, <5>3, <6>1, Zenon DEF StubPlaces
          <6>2. CASE u # t
            BY <5>2, <5>3, <6>2, Zenon DEF StubPlaces
          <6> QED BY <6>1, <6>2, Zenon
        <5>6. ASSUME NEW u \in StubThread, NEW v \in StubThread,
                     stub_pc'[u] \in {"load", "flag"}, stub_pc'[v] \in {"load", "flag"}, stub_mod'[u] = stub_mod'[v]
              PROVE  u = v
          <6>1. stub_pc[u] \in {"load", "flag"} /\ stub_pc[v] \in {"load", "flag"} /\ stub_mod[u] = stub_mod[v]
            BY <3>0, <5>2, <5>6, Zenon
          <6> QED BY <5>3, <6>1, Zenon DEF StubPlaces
        <5> QED BY <5>1, <5>4, <5>5, <5>6, Zenon DEF StubPlaces
      <4>2. CASE /\ mod_busy' = [mod_busy EXCEPT ![stub_mod[t]] = FALSE]
                 /\ stub_pc' = [stub_pc EXCEPT ![t] = "error"] /\ UNCHANGED inst_fcn
        <5>1. StubTypeOK'
          BY <3>0, <4>2, Zenon DEF StubInv, StubTypeOK, StubPC
        <5> QED BY <3>0, <4>2, <5>1 DEF StubInv, StubTypeOK, StubPlaces
      <4> QED BY <2>8, <4>1, <4>2, Zenon DEF LoadModule, StubGoto
    <3>2. (\A m \in Module : mod_ref[m] = Cardinality(Holders(m)))'
      BY <2>8, HoldsSame, Zenon DEF LoadModule, StubAt, StubGoto, ModuleUnchanged
    <3> QED BY <3>1, <3>2 DEF StubInv
  <2>9. ASSUME NEW t \in StubThread, StubRelease(t)
        PROVE  StubInv'
    <3>1. (\A m \in Module : mod_ref[m] = Cardinality(Holders(m)))' /\ mod_ref' \in [Module -> Nat]
      BY <2>9, HoldGiven, Zenon DEF StubRelease, StubAt, StubGoto
    <3>2. StubTypeOK' /\ StubPlaces'
      BY <2>9, <3>1 DEF StubRelease, StubAt, StubGoto, StubPC, StubInv, StubTypeOK, StubPlaces
    <3> QED BY <3>1, <3>2, Zenon DEF StubInv
  <2>10. ASSUME NEW t \in StubThread, mod_hold_stub(t)
         PROVE  StubInv'
    <3>0. stub_mod[t] \in Module
      BY Zenon DEF StubInv, StubTypeOK
    <3>1. CASE mods_flag[stub_mod[t]]
      <4>1. (\A m \in Module : mod_ref[m] = Cardinality(Holders(m)))' /\ mod_ref' \in [Module -> Nat]
        BY <2>10, <3>0, <3>1, HoldTaken, Zenon DEF mod_hold_stub, StubAt, StubGoto
      <4>2. StubTypeOK' /\ StubPlaces'
        <5>1. /\ stub_pc' = [stub_pc EXCEPT ![t] = "call"] /\ mods_flag[stub_mod[t]]
              /\ UNCHANGED <<stub_mod, inst_fcn, mods_flag, mod_busy>>
          BY <2>10, <3>1, Zenon DEF mod_hold_stub, StubGoto
        <5>2. StubTypeOK'
          BY <4>1, <5>1, Zenon DEF StubInv, StubTypeOK, StubPC
        <5>3. /\ stub_pc'[t] = "call" /\ \A u \in StubThread : u # t => stub_pc'[u] = stub_pc[u]
              /\ stub_mod' = stub_mod /\ mods_flag' = mods_flag /\ mod_busy' = mod_busy /\ inst_fcn' = inst_fcn
          BY <5>1, Zenon DEF StubInv, StubTypeOK
        <5>4. StubPlaces'
          <6>0. StubPlaces
            BY Zenon DEF StubInv
          <6>1. (\A m \in Module : mods_flag[m] => inst_fcn[m])'
            BY <5>3, <6>0, Zenon DEF StubPlaces
          <6>2. ASSUME NEW u \in StubThread
                PROVE  /\ stub_pc'[u] \in {"call", "in", "release"} => mods_flag'[stub_mod'[u]]
                       /\ stub_pc'[u] \in {"jump", "in_direct"} => stub_mod'[u] \in Permanent /\ mods_flag'[stub_mod'[u]]
                       /\ stub_pc'[u] \in {"load", "flag"} => mod_busy'[stub_mod'[u]] /\ ~mods_flag'[stub_mod'[u]]
                       /\ stub_pc'[u] = "flag" => inst_fcn'[stub_mod'[u]]
            <7>1. CASE u = t
              BY <5>1, <5>3, <7>1, Zenon
            <7>2. CASE u # t
              BY <5>3, <6>0, <7>2, Zenon DEF StubPlaces
            <7> QED BY <7>1, <7>2
          <6>3. ASSUME NEW u \in StubThread, NEW v \in StubThread,
                       stub_pc'[u] \in {"load", "flag"}, stub_pc'[v] \in {"load", "flag"}, stub_mod'[u] = stub_mod'[v]
                PROVE  u = v
            <7>1. u # t /\ v # t
              BY <5>3, <6>3, Zenon
            <7>2. stub_pc[u] \in {"load", "flag"} /\ stub_pc[v] \in {"load", "flag"} /\ stub_mod[u] = stub_mod[v]
              BY <5>3, <6>3, <7>1, Zenon
            <7> QED BY <6>0, <7>2, Zenon DEF StubPlaces
          <6> QED BY <6>1, <6>2, <6>3, Zenon DEF StubPlaces
        <5> QED BY <5>2, <5>4, Zenon
      <4> QED BY <4>1, <4>2 DEF StubInv
    <3>2. CASE ~mods_flag[stub_mod[t]]
      <4>0. /\ mod_busy' = [mod_busy EXCEPT ![stub_mod[t]] = TRUE] /\ ~mod_busy[stub_mod[t]]
            /\ stub_pc' = [stub_pc EXCEPT ![t] = "load"]
            /\ UNCHANGED <<stub_mod, inst_fcn, mods_flag, mod_ref>>
            /\ \A u \in StubThread : stub_mod[u] = stub_mod[t] => stub_pc[u] \notin {"load", "flag"}
        BY <2>10, <3>2, Zenon DEF mod_hold_stub, StubGoto, StubInv, StubPlaces
      <4>1. StubTypeOK' /\ StubPlaces'
        <5>1. StubTypeOK'
          BY <3>0, <4>0, Zenon DEF StubInv, StubTypeOK, StubPC
        <5> QED BY <3>0, <3>2, <4>0, <5>1 DEF StubInv, StubTypeOK, StubPlaces
      <4>2. (\A m \in Module : mod_ref[m] = Cardinality(Holders(m)))'
        BY <2>10, <3>2, HoldsSame, Zenon DEF mod_hold_stub, StubAt, StubGoto
      <4> QED BY <4>1, <4>2 DEF StubInv
    <3> QED BY <3>1, <3>2, Zenon
  <2>11. ASSUME NEW t \in StubThread, InstallModule(t)
         PROVE  StubInv'
    <3>0. stub_mod[t] \in Module
      BY DEF StubInv, StubTypeOK
    <3>1. (\A m \in Module : mod_ref[m] = Cardinality(Holders(m)))' /\ mod_ref' \in [Module -> Nat]
      BY <2>11, <3>0, HoldTaken, Zenon DEF InstallModule, StubAt, StubGoto
    <3>2. StubTypeOK' /\ StubPlaces'
      BY <2>11, <3>1 DEF InstallModule, StubAt, StubGoto, StubPC, StubInv, StubTypeOK, StubPlaces
    <3> QED BY <3>1, <3>2 DEF StubInv
  <2>12. ASSUME NEW m \in Module, UnloadModule(m)
         PROVE  StubInv'
    <3>1. Holders(m) = {}
      <4>1. Cardinality(Holders(m)) = 0
        BY <2>12, Zenon DEF UnloadModule, StubInv
      <4> QED BY <4>1, HoldersFinite, FS_EmptySet, Zenon
    <3>2. \A t \in StubThread : stub_mod[t] = m => stub_pc[t] \notin {"call", "in", "release"}
      BY <3>1, Zenon DEF Holders
    <3>3. m \notin Permanent
      BY <2>12, Zenon DEF UnloadModule
    <3>4. StubTypeOK' /\ StubPlaces'
      BY <2>12, <3>2, <3>3 DEF UnloadModule, StubInv, StubTypeOK, StubPlaces
    <3>5. (\A n \in Module : mod_ref[n] = Cardinality(Holders(n)))'
      BY <2>12, Zenon DEF UnloadModule, StubInv, Holders
    <3> QED BY <3>4, <3>5, Zenon DEF StubInv
  <2> QED BY <2>1, <2>2, <2>3, <2>4, <2>5, <2>6, <2>7, <2>8, <2>9, <2>10, <2>11, <2>12, <2>13,
             ZenonT(60) DEF StubNext
<1> QED BY <1>1, <1>2, PTL DEF StubSpec

\* No thread is in, or goes into, a module that is not there, for any number
\* of threads and modules.
THEOREM StubsCallLoaded == StubSpec => []NoCallIntoUnloaded
<1>1. StubInv => NoCallIntoUnloaded
  BY DEF StubInv, StubTypeOK, StubPlaces, NoCallIntoUnloaded
<1> QED BY <1>1, StubInvariant, PTL

\* A module has as many holds as there are threads between mod_hold_stub()
\* and mod_release_stub().
THEOREM StubHoldsBalance == StubSpec => []HoldsBalance
<1>1. StubInv => HoldsBalance
  BY Zenon DEF StubInv, HoldsBalance, Holders
<1> QED BY <1>1, StubInvariant, PTL

-----------------------------------------------------------------------------
(* Panic entry                                                             *)

\* The inductive invariant.  panic_trigger() gave 1 to nobody before the
\* trigger was pulled, and to one processor since; that processor is past
\* the switch of stacks once the panic stack is taken.
PanicInv ==
  /\ PanicTypeOK /\ panic_stack \in Seq(PanicCPU)
  /\ Len(panic_stack) <= 1
  /\ ~panic_quiesce => panic_stack = << >> /\ \A c \in PanicCPU : panic_eax[c] = 0
  /\ \A c, d \in PanicCPU : panic_eax[c] = 1 /\ panic_eax[d] = 1 => c = d
  /\ \A c \in PanicCPU : panic_stack # << >> /\ panic_eax[c] = 1 => panic_pc[c] # "common"
  /\ \A c \in PanicCPU : panic_pc[c] # "run" => panic_depth[c] > 0
  /\ PanicIsOwned

\* PanicInv is an invariant of the panic code.
LEMMA PanicInvariant == PanicSpec => []PanicInv
<1> USE PanicAssumption
<1>1. PanicInit => PanicInv
  <2> SUFFICES ASSUME PanicInit PROVE PanicInv
    BY Zenon
  <2>1. panic_quiesce = FALSE /\ ~panic_quiesce
    BY Zenon DEF PanicInit
  <2>2. PanicTypeOK
    <3>1. panic_quiesce \in BOOLEAN
      BY Zenon DEF PanicInit
    <3> QED BY <3>1 DEF PanicInit, PanicTypeOK
  <2>3. PanicIsOwned
    BY <2>1, Zenon DEF PanicIsOwned
  <2> QED BY <2>2, <2>3 DEF PanicInit, PanicInv
<1>2. PanicInv /\ [PanicNext]_panicVars => PanicInv'
  <2> SUFFICES ASSUME PanicInv, [PanicNext]_panicVars
               PROVE  PanicInv'
    BY Zenon
  <2>1. CASE UNCHANGED panicVars
    BY <2>1, Zenon DEF PanicInv, PanicTypeOK, PanicIsOwned, panicVars
  <2>2. ASSUME NEW c \in PanicCPU, vpanic(c)
        PROVE  PanicInv'
    BY <2>2 DEF vpanic, PanicInv, PanicTypeOK, PanicIsOwned
  <2>3. ASSUME NEW c \in PanicCPU, panic_trigger(c)
        PROVE  PanicInv'
    BY <2>3 DEF panic_trigger, PanicGoto, PanicInv, PanicTypeOK, PanicIsOwned
  <2>4. ASSUME NEW c \in PanicCPU, vpanic_common(c)
        PROVE  PanicInv'
    <3>1. CASE panic_eax[c] = 1
      <4>1. panic_stack = << >>
        BY <2>4, <3>1, Zenon DEF vpanic_common, PanicGoto, PanicInv
      <4>2. panic_stack' = Append(panic_stack, c)
        BY <2>4, <3>1, Zenon DEF vpanic_common
      <4>3. panic_stack' = <<c>>
        BY <4>1, <4>2
      <4> QED BY <2>4, <3>1, <4>1, <4>3 DEF vpanic_common, PanicGoto, PanicInv, PanicTypeOK, PanicIsOwned
    <3>2. CASE panic_eax[c] # 1
      BY <2>4, <3>2, Zenon DEF vpanic_common, PanicGoto, PanicInv, PanicTypeOK, PanicIsOwned
    <3> QED BY <3>1, <3>2, Zenon
  <2>5. ASSUME NEW c \in PanicCPU, panicsys(c)
        PROVE  PanicInv'
    BY <2>5, Zenon DEF panicsys, PanicGoto, PanicInv, PanicTypeOK, PanicIsOwned
  <2> QED BY <2>1, <2>2, <2>3, <2>4, <2>5, Zenon DEF PanicNext, PanicStep
<1> QED BY <1>1, <1>2, PTL DEF PanicSpec

\* However many processors panic, in whatever order, one panic alone starts
\* at the top of panic_stack.
THEOREM PanicStackTakenOnce == PanicSpec => []OnePanicStack
<1>1. PanicInv => OnePanicStack
  BY Zenon DEF PanicInv, PanicTypeOK, OnePanicStack
<1> QED BY <1>1, PanicInvariant, PTL

\* After the trigger some processor has the panic stack or is about to take
\* it, unless one panicked again meanwhile.
THEOREM PanicHasOwner == PanicSpec => []PanicIsOwned
<1>1. PanicInv => PanicIsOwned
  BY Zenon DEF PanicInv
<1> QED BY <1>1, PanicInvariant, PTL

-----------------------------------------------------------------------------
(* Locks in the order of their addresses                                   *)

\* The types of the state.
LocksTypeOK ==
  /\ owner \in [Address -> SUBSET LockThread]
  /\ to_lock \in [LockThread -> Seq(Address)]
  /\ to_exit \in [LockThread -> Seq(Address)]

\* A plan of mutex_enter() and mutex_exit() calls: the locks are taken from
\* the highest address down, and the ones released are the ones taken.
Plan(enters, exits) ==
  /\ enters \in Seq(Address) /\ exits \in Seq(Address)
  /\ \A i, j \in DOMAIN enters : i < j => enters[i] > enters[j]
  /\ \A i, j \in DOMAIN exits : exits[i] = exits[j] => i = j
  /\ \A i \in DOMAIN enters : \E j \in DOMAIN exits : enters[i] = exits[j]
  /\ \A j \in DOMAIN exits : \E i \in DOMAIN enters : enters[i] = exits[j]

\* What a thread has is to be released, and is above everything the thread
\* still has to take; what it is to release it has or is about to take.
Orderly(t) ==
  /\ \A i, j \in DOMAIN to_lock[t] : i < j => to_lock[t][i] > to_lock[t][j]
  /\ \A i, j \in DOMAIN to_exit[t] : to_exit[t][i] = to_exit[t][j] => i = j
  /\ \A i \in DOMAIN to_lock[t] : \E j \in DOMAIN to_exit[t] : to_lock[t][i] = to_exit[t][j]
  /\ \A j \in DOMAIN to_exit[t] :
       \/ t \in owner[to_exit[t][j]]
       \/ \E i \in DOMAIN to_lock[t] : to_lock[t][i] = to_exit[t][j]
  /\ \A a \in Address : t \in owner[a] =>
       /\ \E j \in DOMAIN to_exit[t] : to_exit[t][j] = a
       /\ \A i \in DOMAIN to_lock[t] : to_lock[t][i] < a

\* The inductive invariant.
LocksInv ==
  /\ LocksTypeOK
  /\ \A a \in Address : \A t, u \in owner[a] : t = u
  /\ \A t \in LockThread : Orderly(t)

-----------------------------------------------------------------------------
\* Addresses are compared as numbers.
LEMMA AddressNat == Address \subseteq Nat
BY AddrLocksAssumption, Zenon DEF Address, NULL

\* Concatenations of at most two locks.
LEMMA Concat ==
  ASSUME NEW a, NEW b
  PROVE  /\ <<a>> \o <<b>> = <<a, b>>
         /\ <<a>> \o << >> = <<a>>
         /\ << >> \o <<b>> = <<b>>
<1>1. <<a>> \o <<b>> = <<a, b>>
  <2> DEFINE S == {a, b}
             ab == <<a>> \o <<b>>
  <2>1. <<a>> \in Seq(S) /\ <<b>> \in Seq(S) /\ <<a, b>> \in Seq(S)
    OBVIOUS
  <2>2. /\ ab \in Seq(S) /\ Len(ab) = Len(<<a>>) + Len(<<b>>)
        /\ \A i \in 1 .. Len(<<a>>) + Len(<<b>>) :
             ab[i] = IF i <= Len(<<a>>) THEN <<a>>[i] ELSE <<b>>[i - Len(<<a>>)]
    BY <2>1, ConcatProperties, Zenon
  <2>3. Len(ab) = 2 /\ ab[1] = a /\ ab[2] = b
    BY <2>2
  <2>4. \A i \in 1 .. Len(ab) : ab[i] = <<a, b>>[i]
    BY <2>3
  <2> HIDE DEF ab
  <2> QED BY <2>1, <2>2, <2>3, <2>4, SeqEqual, Zenon DEF ab
<1>2. <<a>> \o << >> = <<a>>
  OBVIOUS
<1>3. << >> \o <<b>> = <<b>>
  OBVIOUS
<1> QED BY <1>1, <1>2, <1>3, Zenon

\* GRAB_ILL_LOCKS and RELEASE_ILL_LOCKS form a plan, null pointers and equal
\* pointers included.
LEMMA IllPlan ==
  ASSUME NEW ill_1 \in Ill \union {NULL}, NEW ill_2 \in Ill \union {NULL}
  PROVE  Plan(GRAB_ILL_LOCKS(ill_1, ill_2), RELEASE_ILL_LOCKS(ill_1, ill_2))
<1> USE AddrLocksAssumption DEF NULL, Address
<1>0. ill_1 \in Nat /\ ill_2 \in Nat
  OBVIOUS
<1>1. CASE ill_1 = 0 /\ ill_2 = 0
  <2>1. /\ GRAB_ILL_LOCKS(ill_1, ill_2) = << >>
        /\ RELEASE_ILL_LOCKS(ill_1, ill_2) = << >>
    BY <1>1 DEF GRAB_ILL_LOCKS, RELEASE_ILL_LOCKS, IllLock
  <2> QED BY <2>1 DEF Plan
<1>2. CASE ill_1 = ill_2 /\ ill_1 # 0
  <2>1. /\ GRAB_ILL_LOCKS(ill_1, ill_2) = <<ill_1>>
        /\ RELEASE_ILL_LOCKS(ill_1, ill_2) = <<ill_1>>
    BY <1>0, <1>2, Concat DEF GRAB_ILL_LOCKS, RELEASE_ILL_LOCKS, IllLock
  <2> QED BY <2>1, <1>2 DEF Plan
<1>3. CASE ill_1 # 0 /\ ill_2 = 0
  <2>1. /\ GRAB_ILL_LOCKS(ill_1, ill_2) = <<ill_1>>
        /\ RELEASE_ILL_LOCKS(ill_1, ill_2) = <<ill_1>>
    BY <1>0, <1>3, Concat, Zenon DEF GRAB_ILL_LOCKS, RELEASE_ILL_LOCKS, IllLock
  <2> QED BY <2>1, <1>3 DEF Plan, Orderly
<1>4. CASE ill_1 = 0 /\ ill_2 # 0
  <2>1. /\ GRAB_ILL_LOCKS(ill_1, ill_2) = <<ill_2>>
        /\ RELEASE_ILL_LOCKS(ill_1, ill_2) = <<ill_2>>
    BY <1>0, <1>4, Concat, Zenon DEF GRAB_ILL_LOCKS, RELEASE_ILL_LOCKS, IllLock
  <2> QED BY <2>1, <1>4 DEF Plan
<1>5. CASE ill_1 # 0 /\ ill_2 # 0 /\ ill_1 > ill_2
  <2>1. /\ GRAB_ILL_LOCKS(ill_1, ill_2) = <<ill_1, ill_2>>
        /\ RELEASE_ILL_LOCKS(ill_1, ill_2) = <<ill_1, ill_2>>
    BY <1>0, <1>5, Concat DEF GRAB_ILL_LOCKS, RELEASE_ILL_LOCKS, IllLock
  <2> QED BY <2>1, <1>0, <1>5 DEF Plan
<1>6. CASE ill_1 # 0 /\ ill_2 # 0 /\ ill_2 > ill_1
  <2>1. /\ GRAB_ILL_LOCKS(ill_1, ill_2) = <<ill_2, ill_1>>
        /\ RELEASE_ILL_LOCKS(ill_1, ill_2) = <<ill_1, ill_2>>
    BY <1>0, <1>6, Concat DEF GRAB_ILL_LOCKS, RELEASE_ILL_LOCKS, IllLock
  <2> QED BY <2>1, <1>0, <1>6 DEF Plan
<1> QED BY <1>0, <1>1, <1>2, <1>3, <1>4, <1>5, <1>6

\* STRLOCKMATES and STRUNLOCKMATES form a plan.
LEMMA MatesPlan ==
  ASSUME NEW x \in Mates, NEW mate \in Mates, x # mate
  PROVE  Plan(STRLOCKMATES(x, mate), STRUNLOCKMATES(x, mate))
<1>0. x \in Nat /\ mate \in Nat /\ x \in Address /\ mate \in Address
  BY AddrLocksAssumption, Zenon DEF NULL, Address
<1>1. CASE x > mate
  BY <1>0, <1>1 DEF Plan, STRLOCKMATES, STRUNLOCKMATES
<1>2. CASE mate > x
  BY <1>0, <1>2 DEF Plan, STRLOCKMATES, STRUNLOCKMATES
<1> QED BY <1>0, <1>1, <1>2

\* A thread that has nothing to release has no lock, so it may start a plan.
LEMMA StartPlan ==
  ASSUME LocksInv, NEW t \in LockThread, to_exit[t] = << >>,
         NEW enters, NEW exits, Plan(enters, exits),
         to_lock' = [to_lock EXCEPT ![t] = enters],
         to_exit' = [to_exit EXCEPT ![t] = exits],
         owner' = owner
  PROVE  LocksInv'
<1>1. LocksTypeOK'
  BY Zenon DEF LocksInv, LocksTypeOK, Plan
<1>2. \A a \in Address : t \notin owner[a]
  BY DEF LocksInv, LocksTypeOK, Orderly
<1>3. to_lock'[t] = enters /\ to_exit'[t] = exits
  BY Zenon DEF LocksInv, LocksTypeOK
<1>4. \A u \in LockThread : u # t => to_lock'[u] = to_lock[u] /\ to_exit'[u] = to_exit[u]
  BY Zenon DEF LocksInv, LocksTypeOK
<1>5. ASSUME NEW u \in LockThread
      PROVE  Orderly(u)'
  <2>1. CASE u = t
    BY <2>1, <1>2, <1>3 DEF Plan, Orderly
  <2>2. CASE u # t
    BY <2>2, <1>4 DEF LocksInv, Orderly
  <2> QED BY <2>1, <2>2, Zenon
<1> QED BY <1>1, <1>5, Zenon DEF LocksInv

\* mutex_enter() takes the highest lock that is left: what is left after it is
\* below all that the thread has.
LEMMA EnterKeeps ==
  ASSUME LocksInv, NEW t \in LockThread, MutexEnter(t)
  PROVE  LocksInv'
<1> DEFINE h == Head(to_lock[t])
<1>1. to_lock[t] \in Seq(Address) /\ to_lock[t] # << >> /\ owner[h] = {}
  BY Zenon DEF LocksInv, LocksTypeOK, MutexEnter
<1>2. h \in Address /\ h = to_lock[t][1] /\ 1 \in DOMAIN to_lock[t]
  BY <1>1
<1>3. /\ owner' = [owner EXCEPT ![h] = {t}]
      /\ to_lock' = [to_lock EXCEPT ![t] = Tail(to_lock[t])]
      /\ to_exit' = to_exit
  BY Zenon DEF MutexEnter
<1>4. LocksTypeOK'
  BY <1>1, <1>2, <1>3 DEF LocksInv, LocksTypeOK
<1>5. /\ to_lock'[t] = Tail(to_lock[t])
      /\ \A u \in LockThread : u # t => to_lock'[u] = to_lock[u]
      /\ owner'[h] = {t}
      /\ \A a \in Address : a # h => owner'[a] = owner[a]
  BY <1>2, <1>3, Zenon DEF LocksInv, LocksTypeOK
<1>6. /\ \A i \in DOMAIN to_lock'[t] : i + 1 \in DOMAIN to_lock[t] /\ to_lock'[t][i] = to_lock[t][i + 1]
      /\ \A i \in DOMAIN to_lock[t] : i # 1 => i - 1 \in DOMAIN to_lock'[t] /\ to_lock'[t][i - 1] = to_lock[t][i]
      /\ DOMAIN to_lock[t] \subseteq Nat \ {0} /\ DOMAIN to_lock'[t] \subseteq Nat \ {0}
  BY <1>1, <1>5
<1> HIDE DEF h
<1>7. ASSUME NEW u \in LockThread
      PROVE  Orderly(u)'
  <2>0. Orderly(u) /\ to_exit[u] \in Seq(Address)
    BY Zenon DEF LocksInv, LocksTypeOK
  <2>1. CASE u = t
    <3>1. \A i, j \in DOMAIN to_lock'[u] : i < j => to_lock'[u][i] > to_lock'[u][j]
      BY <2>0, <2>1, <1>6 DEF Orderly
    <3>2. \A i \in DOMAIN to_lock'[u] : \E j \in DOMAIN to_exit'[u] : to_lock'[u][i] = to_exit'[u][j]
      BY <2>0, <2>1, <1>3, <1>6 DEF Orderly
    <3>3. ASSUME NEW j \in DOMAIN to_exit'[u]
          PROVE  \/ u \in owner'[to_exit'[u][j]]
                 \/ \E i \in DOMAIN to_lock'[u] : to_lock'[u][i] = to_exit'[u][j]
      <4>1. CASE to_exit[u][j] = h
        BY <4>1, <2>1, <1>3, <1>5, Zenon
      <4>2. CASE to_exit[u][j] # h
        <5>1. to_exit[u][j] \in Address
          BY <2>0, <3>3, <1>3
        <5>2. CASE u \in owner[to_exit[u][j]]
          BY <5>1, <5>2, <4>2, <1>3, <1>5, Zenon
        <5>3. CASE \E i \in DOMAIN to_lock[u] : to_lock[u][i] = to_exit[u][j]
          <6>1. PICK i \in DOMAIN to_lock[u] : to_lock[u][i] = to_exit[u][j]
            BY <5>3, Zenon
          <6>2. i # 1
            BY <6>1, <4>2, <2>1, <1>2, Zenon
          <6>3. i - 1 \in DOMAIN to_lock'[u] /\ to_lock'[u][i - 1] = to_lock[u][i]
            BY <6>1, <6>2, <2>1, <1>6, Zenon
          <6>4. to_lock'[u][i - 1] = to_exit'[u][j]
            BY <6>1, <6>3, <1>3, Zenon
          <6> QED BY <6>3, <6>4, Zenon
        <5> QED BY <5>2, <5>3, <2>0, <3>3, <1>3, ZenonT(30) DEF Orderly
      <4> QED BY <4>1, <4>2, ZenonT(30)
    <3>4. ASSUME NEW a \in Address, u \in owner'[a]
          PROVE  /\ \E j \in DOMAIN to_exit'[u] : to_exit'[u][j] = a
                 /\ \A i \in DOMAIN to_lock'[u] : to_lock'[u][i] < a
      <4>1. CASE a = h
        <5>1. \A i \in DOMAIN to_lock'[u] : to_lock'[u][i] < a
          <6> TAKE i \in DOMAIN to_lock'[u]
          <6>1. /\ i + 1 \in DOMAIN to_lock[t] /\ 1 < i + 1
                /\ to_lock'[u][i] = to_lock[t][i + 1]
            BY <2>1, <1>6
          <6>2. to_lock[t][1] > to_lock[t][i + 1]
            BY <6>1, <2>0, <2>1, <1>2, ZenonT(30) DEF Orderly
          <6>3. h \in Nat /\ to_lock[t][i + 1] \in Nat
            <7>1. h \in Address /\ to_lock[t][i + 1] \in Address
              BY <1>1, <1>2, <6>1
            <7> QED BY <7>1, AddressNat, Zenon
          <6> QED BY <6>1, <6>2, <6>3, <4>1, <1>2, ZenonT(30)
        <5> QED BY <4>1, <5>1, <2>0, <2>1, <1>2, <1>3 DEF Orderly
      <4>2. CASE a # h
        <5>1. u \in owner[a]
          BY <4>2, <3>4, <1>5, Zenon
        <5>2. /\ \E j \in DOMAIN to_exit[u] : to_exit[u][j] = a
              /\ \A i \in DOMAIN to_lock[u] : to_lock[u][i] < a
          BY <2>0, <5>1, Zenon DEF Orderly
        <5>3. \A i \in DOMAIN to_lock'[u] : \E k \in DOMAIN to_lock[u] : to_lock'[u][i] = to_lock[u][k]
          BY <2>1, <1>6, Zenon
        <5> QED BY <5>2, <5>3, <1>3, Zenon
      <4> QED BY <4>1, <4>2, ZenonT(30)
    <3> QED BY <3>1, <3>2, <3>3, <3>4, <2>0, <1>3, ZenonT(30) DEF Orderly
  <2>2. CASE u # t
    <3>1. \A a \in Address : (u \in owner'[a]) <=> (u \in owner[a])
      BY <2>2, <1>1, <1>5, Zenon DEF h
    <3>2. to_lock'[u] = to_lock[u] /\ to_exit'[u] = to_exit[u]
      BY <2>2, <1>3, <1>5, Zenon
    <3>3. \A j \in DOMAIN to_exit[u] : to_exit[u][j] \in Address
      BY <2>0
    <3> QED BY <2>0, <3>1, <3>2, <3>3 DEF Orderly
  <2> QED BY <2>1, <2>2, Zenon
<1>8. \A a \in Address : \A v, u \in owner'[a] : v = u
  BY <1>5 DEF LocksInv
<1> QED BY <1>4, <1>7, <1>8, Zenon DEF LocksInv

\* mutex_exit() drops a lock of the thread alone, and the thread has nothing
\* left to take.
LEMMA ExitKeeps ==
  ASSUME LocksInv, NEW t \in LockThread, MutexExit(t)
  PROVE  LocksInv'
<1> DEFINE h == Head(to_exit[t])
<1>1. to_exit[t] \in Seq(Address) /\ to_exit[t] # << >> /\ to_lock[t] = << >>
  BY Zenon DEF LocksInv, LocksTypeOK, MutexExit
<1>2. h \in Address /\ h = to_exit[t][1] /\ 1 \in DOMAIN to_exit[t]
  BY <1>1
<1>3. /\ owner' = [owner EXCEPT ![h] = {}]
      /\ to_exit' = [to_exit EXCEPT ![t] = Tail(to_exit[t])]
      /\ to_lock' = to_lock
  BY Zenon DEF MutexExit
<1>4. LocksTypeOK'
  BY <1>1, <1>2, <1>3 DEF LocksInv, LocksTypeOK
<1>5. /\ to_exit'[t] = Tail(to_exit[t])
      /\ \A u \in LockThread : u # t => to_exit'[u] = to_exit[u]
      /\ owner'[h] = {}
      /\ \A a \in Address : a # h => owner'[a] = owner[a]
  BY <1>2, <1>3, Zenon DEF LocksInv, LocksTypeOK
<1>6. /\ \A i \in DOMAIN to_exit'[t] : i + 1 \in DOMAIN to_exit[t] /\ to_exit'[t][i] = to_exit[t][i + 1]
      /\ \A i \in DOMAIN to_exit[t] : i # 1 => i - 1 \in DOMAIN to_exit'[t] /\ to_exit'[t][i - 1] = to_exit[t][i]
      /\ DOMAIN to_exit[t] \subseteq Nat \ {0} /\ DOMAIN to_exit'[t] \subseteq Nat \ {0}
  BY <1>1, <1>5
<1>7. \A u \in owner[h] : u = t
  <2>1. t \in owner[h]
    BY <1>1, <1>2 DEF LocksInv, Orderly
  <2> QED BY <2>1, <1>2, Zenon DEF LocksInv
<1> HIDE DEF h
<1>8. ASSUME NEW u \in LockThread
      PROVE  Orderly(u)'
  <2>0. Orderly(u) /\ to_exit[u] \in Seq(Address) /\ to_lock'[u] = to_lock[u]
    BY <1>3, Zenon DEF LocksInv, LocksTypeOK
  <2>1. CASE u = t
    <3>1. \A i, j \in DOMAIN to_exit'[u] : to_exit'[u][i] = to_exit'[u][j] => i = j
      <4> TAKE i, j \in DOMAIN to_exit'[u]
      <4>1. /\ i + 1 \in DOMAIN to_exit[t] /\ to_exit'[t][i] = to_exit[t][i + 1]
            /\ j + 1 \in DOMAIN to_exit[t] /\ to_exit'[t][j] = to_exit[t][j + 1]
            /\ i \in Nat /\ j \in Nat
        BY <2>1, <1>6, Zenon
      <4>2. to_exit[t][i + 1] = to_exit[t][j + 1] => i + 1 = j + 1
        BY <4>1, <2>0, <2>1, Zenon DEF Orderly
      <4> QED BY <4>1, <4>2, <2>1
    <3>2. ASSUME NEW j \in DOMAIN to_exit'[u]
          PROVE  u \in owner'[to_exit'[u][j]]
      <4>1. j + 1 \in DOMAIN to_exit[t] /\ to_exit'[t][j] = to_exit[t][j + 1] /\ j + 1 # 1
        BY <2>1, <1>6
      <4>2. to_exit[t][j + 1] # h
        BY <4>1, <2>0, <2>1, <1>2, ZenonT(30) DEF Orderly
      <4>3. t \in owner[to_exit[t][j + 1]]
        BY <4>1, <2>0, <2>1, <1>1 DEF Orderly
      <4>4. to_exit[t][j + 1] \in Address
        BY <4>1, <1>1
      <4> QED BY <4>1, <4>2, <4>3, <4>4, <2>1, <1>5, ZenonT(30)
    <3>3. ASSUME NEW a \in Address, u \in owner'[a]
          PROVE  \E j \in DOMAIN to_exit'[u] : to_exit'[u][j] = a
      <4>1. a # h /\ t \in owner[a]
        BY <3>3, <2>1, <1>5, ZenonT(30)
      <4>2. PICK j \in DOMAIN to_exit[t] : to_exit[t][j] = a
        BY <4>1, <2>0, <2>1, ZenonT(60) DEF Orderly
      <4>3. j # 1
        BY <4>1, <4>2, <1>2, Zenon
      <4>4. j - 1 \in DOMAIN to_exit'[t] /\ to_exit'[t][j - 1] = a
        BY <4>2, <4>3, <1>6, Zenon
      <4> QED BY <4>4, <2>1, Zenon
    <3>4. to_lock'[u] = << >>
      BY <2>0, <2>1, <1>1, ZenonT(30)
    <3> QED BY <3>1, <3>2, <3>3, <3>4 DEF Orderly
  <2>2. CASE u # t
    <3>1. \A a \in Address : (u \in owner'[a]) <=> (u \in owner[a])
      BY <2>2, <1>5, <1>7, Zenon
    <3>2. to_exit'[u] = to_exit[u]
      BY <2>2, <1>5, Zenon
    <3>3. \A j \in DOMAIN to_exit[u] : to_exit[u][j] \in Address
      BY <2>0
    <3> QED BY <2>0, <3>1, <3>2, <3>3, SMTT(20) DEF Orderly
  <2> QED BY <2>1, <2>2
<1>9. \A a \in Address : \A v, u \in owner'[a] : v = u
  BY <1>5, Zenon DEF LocksInv
<1> QED BY <1>4, <1>8, <1>9, ZenonT(60) DEF LocksInv

-----------------------------------------------------------------------------
\* The invariant holds in every reachable state.
LEMMA LocksInvariant == LocksSpec => []LocksInv
<1>1. LocksInit => LocksInv
  BY DEF LocksInit, LocksInv, LocksTypeOK, Orderly
<1>2. LocksInv /\ [LocksNext]_lockVars => LocksInv'
  <2> SUFFICES ASSUME LocksInv, [LocksNext]_lockVars
               PROVE  LocksInv'
    BY Zenon
  <2>1. ASSUME NEW t \in LockThread, NEW ill_1 \in Ill \union {NULL},
               NEW ill_2 \in Ill \union {NULL}, GrabIlls(t, ill_1, ill_2)
        PROVE  LocksInv'
    BY <2>1, IllPlan, StartPlan, Zenon DEF GrabIlls
  <2>2. ASSUME NEW t \in LockThread, NEW x \in Mates, NEW mate \in Mates,
               x # mate, LockMates(t, x, mate)
        PROVE  LocksInv'
    BY <2>2, MatesPlan, StartPlan, ZenonT(30) DEF LockMates
  <2>3. CASE UNCHANGED lockVars
    BY <2>3 DEF lockVars, LocksInv, LocksTypeOK, Orderly
  <2> QED BY <2>1, <2>2, <2>3, EnterKeeps, ExitKeeps, Zenon DEF LocksNext
<1> QED BY <1>1, <1>2, PTL DEF LocksSpec

\* GRAB_ILL_LOCKS and STRLOCKMATES never close a circle of waiting threads,
\* for any number of threads and any set of addresses: a thread waits for a
\* lock below all it has, so the one waiting for the lowest lock waits for
\* none of the others.
THEOREM LocksNoCircle == LocksSpec => []NoCircularWait
<1>1. LocksInv => NoCircularWait
  <2> SUFFICES ASSUME LocksInv,
                      NEW S \in SUBSET {t \in LockThread : to_lock[t] # << >>}, S # {}
               PROVE  \E t \in S : owner[Head(to_lock[t])] \intersect S = {}
    BY Zenon DEF NoCircularWait
  <2> DEFINE Awaited == {to_lock[t][1] : t \in S}
  <2>1. \A t \in S : /\ Head(to_lock[t]) = to_lock[t][1] /\ to_lock[t][1] \in Address
                     /\ 1 \in DOMAIN to_lock[t]
    BY DEF LocksInv, LocksTypeOK
  <2>2. Awaited \subseteq Nat /\ Awaited # {}
    BY <2>1, AddressNat, Zenon
  <2>3. \E m \in Awaited : \A n \in Awaited : ~ (<<n, m>> \in OpToRel(<, Nat))
    <3> HIDE DEF Awaited
    <3> QED BY <2>2, NatLessThanWellFounded, WFMin, Zenon
  <2>4. PICK t \in S : \A u \in S : ~ (to_lock[u][1] < to_lock[t][1])
    BY <2>2, <2>3, Zenon DEF OpToRel
  <2>5. \A u \in S : u \in owner[to_lock[t][1]] => to_lock[u][1] < to_lock[t][1]
    BY <2>1 DEF LocksInv, Orderly
  <2> QED BY <2>1, <2>4, <2>5, Zenon
<1> QED BY <1>1, LocksInvariant, PTL

\* RELEASE_ILL_LOCKS and STRUNLOCKMATES release what the thread has, once.
THEOREM LocksReleased == LocksSpec => []ReleasesWhatItHas
<1>1. LocksInv => ReleasesWhatItHas
  <2> SUFFICES ASSUME LocksInv, NEW t \in LockThread, to_lock[t] = << >>
               PROVE  /\ \A a \in Address : owner[a] = {t} <=> \E i \in DOMAIN to_exit[t] : to_exit[t][i] = a
                      /\ \A i, j \in DOMAIN to_exit[t] : to_exit[t][i] = to_exit[t][j] => i = j
    BY Zenon DEF ReleasesWhatItHas
  <2>1. \A a \in Address : t \in owner[a] <=> \E i \in DOMAIN to_exit[t] : to_exit[t][i] = a
    BY DEF LocksInv, Orderly
  <2>2. \A a \in Address : t \in owner[a] => owner[a] = {t}
    BY DEF LocksInv
  <2> QED BY <2>1, <2>2, Zenon DEF LocksInv, Orderly
<1> QED BY <1>1, LocksInvariant, PTL

=============================================================================
