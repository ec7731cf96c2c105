----------------------------- MODULE MCServices ------------------------------
(***************************************************************************)
(* One run for the components that do not share state with each other: the *)
(* subject is chosen at the start and takes all the steps, so the states   *)
(* of the run are the states of each component, one after the other.       *)
(***************************************************************************)
EXTENDS Copy, OnTrap, ModStubs, Panic, IntrStart, Lockstat, Callb, Syncq,
        IreRef, RefCount, AddrLocks, Regexp, Arith

VARIABLE subject

vars == <<subject, copyVars, onTrapVars, stubVars, panicVars, stampVars, lockstatVars,
          callbVars, sqVars, ireVars, refVars, lockVars, compileVars, arithVars>>

Subjects == {"copy", "on_trap", "stubs", "panic", "stamp", "lockstat", "callb", "syncq",
             "ire", "ref", "locks", "regexp", "arith"}

Init ==
  /\ subject \in Subjects
  /\ CopyInit /\ OnTrapInit /\ StubInit /\ PanicInit /\ StampInit /\ LockstatInit
  /\ CallbInit /\ SyncqInit /\ IreInit /\ RefInit /\ LocksInit /\ RegexpInit /\ ArithInit
  /\ t_copyops => subject = "copy"
  /\ ref_kind # "conn" => subject = "ref"

\* The variables of the components other than the given one.
Others(component) ==
  /\ UNCHANGED subject
  /\ IF component = "copy" THEN TRUE ELSE UNCHANGED copyVars
  /\ IF component = "on_trap" THEN TRUE ELSE UNCHANGED onTrapVars
  /\ IF component = "stubs" THEN TRUE ELSE UNCHANGED stubVars
  /\ IF component = "panic" THEN TRUE ELSE UNCHANGED panicVars
  /\ IF component = "stamp" THEN TRUE ELSE UNCHANGED stampVars
  /\ IF component = "lockstat" THEN TRUE ELSE UNCHANGED lockstatVars
  /\ IF component = "callb" THEN TRUE ELSE UNCHANGED callbVars
  /\ IF component = "syncq" THEN TRUE ELSE UNCHANGED sqVars
  /\ IF component = "ire" THEN TRUE ELSE UNCHANGED ireVars
  /\ IF component = "ref" THEN TRUE ELSE UNCHANGED refVars
  /\ IF component = "locks" THEN TRUE ELSE UNCHANGED lockVars
  /\ IF component = "regexp" THEN TRUE ELSE UNCHANGED compileVars
  /\ IF component = "arith" THEN TRUE ELSE UNCHANGED arithVars

\* These end: the system has panicked, the time is up, the bound of suspends is
\* reached, the object is freed, the pattern is compiled, the call has
\* returned.
Terminated == subject \in {"panic", "stamp", "callb", "ref", "regexp", "arith"} /\ UNCHANGED vars

Next ==
  \/ subject = "copy" /\ CopyNext /\ Others("copy")
  \/ subject = "on_trap" /\ OnTrapNext /\ Others("on_trap")
  \/ subject = "stubs" /\ StubNext /\ Others("stubs")
  \/ subject = "panic" /\ PanicNext /\ Others("panic")
  \/ subject = "stamp" /\ StampNext /\ Others("stamp")
  \/ subject = "lockstat" /\ LockstatNext /\ Others("lockstat")
  \/ subject = "callb" /\ CallbNext /\ Others("callb")
  \/ subject = "syncq" /\ SyncqNext /\ Others("syncq")
  \/ subject = "ire" /\ IreNext /\ Others("ire")
  \/ subject = "ref" /\ RefNext /\ Others("ref")
  \/ subject = "locks" /\ LocksNext /\ Others("locks")
  \/ subject = "regexp" /\ RegexpNext /\ Others("regexp")
  \/ subject = "arith" /\ ArithNext /\ Others("arith")
  \/ Terminated

\* The fairness of CallbSpec.
Fairness ==
  /\ WF_vars(subject = "callb" /\ CprStep /\ Others("callb"))
  /\ \A d \in Daemon : WF_vars(subject = "callb" /\ CALLB_CPR_SAFE_END(d) /\ Others("callb"))

Spec == Init /\ [][Next]_vars /\ Fairness

MCPatchPoints == <<"enter", "exit">>
MCCoreTokens == {"char", ".", "*", "\\(", "\\)", "\\1"}
MCRanges == {<<0, 1>>, <<1, 2>>, <<1, 255>>, <<2, 1>>}

==============================================================================
