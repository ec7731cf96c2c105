------------------------------ MODULE IntrStart ------------------------------
(***************************************************************************)
(* The time stamp of an interrupt thread (ml/swtch.s): when such a thread  *)
(* is resumed, the time is stored in its t_intr_start, in a loop that      *)
(* reads the old stamp word by word, reads the time and stores it with     *)
(* cmpxchg8b.  A higher interrupt can come between any two instructions;   *)
(* its handler (outside the repository) charges the thread for the time    *)
(* since t_intr_start, clears it, and sets it when it returns.             *)
(***************************************************************************)
EXTENDS Integers

CONSTANTS
  WordValues,  \* values of a 32-bit word
  MaxTsc       \* bound on the time

ASSUME IntrStartAssumption == WordValues \in Nat \ {0, 1} /\ MaxTsc \in Nat

VARIABLES
  tsc,           \* the time stamp counter
  t_intr_start,  \* 0: not running
  stamp_pc,      \* "blocked", "low", "high", "rdtsc", "cmpxchg", "run" or "intr"
  stamp_ret,     \* where the interrupted code continues
  old_low,       \* the words read
  old_high,
  ebx,           \* the time read
  old_stamp,     \* the stamp the low word was read of
  torn,          \* did cmpxchg8b match words of two stamps?
  charged,       \* time charged to the thread
  ran            \* time it was on the processor

loaded == <<old_low, old_high, old_stamp, torn>>

stampVars == <<tsc, t_intr_start, stamp_pc, stamp_ret, loaded,
               ebx, charged, ran>>

StampInit ==
  /\ tsc = 1 /\ t_intr_start = 0
  /\ stamp_pc = "blocked" /\ stamp_ret = "blocked"
  /\ old_low = 0 /\ old_high = 0 /\ ebx = 0
  /\ old_stamp = 0 /\ torn = FALSE /\ charged = 0 /\ ran = 0

\* Executing takes time, at least one tick from one reading to the next.
Tick == tsc' = tsc + 1
RunsFor(from, to) ==
  /\ tsc < MaxTsc
  /\ stamp_pc = from /\ stamp_pc' = to
  /\ Tick /\ ran' = ran + 1

StampResume ==
  /\ stamp_pc = "blocked" /\ stamp_pc' = "low"
  /\ UNCHANGED <<tsc, t_intr_start, stamp_ret, loaded, ebx, charged, ran>>

\* pushl T_INTR_START; pushl T_INTR_START+4
PushLow ==
  /\ RunsFor("low", "high")
  /\ old_low' = t_intr_start % WordValues /\ old_stamp' = t_intr_start
  /\ UNCHANGED <<t_intr_start, stamp_ret, old_high, torn, ebx, charged>>

PushHigh ==
  /\ RunsFor("high", "rdtsc")
  /\ old_high' = t_intr_start \div WordValues
  /\ UNCHANGED <<t_intr_start, stamp_ret, old_low, old_stamp, torn, ebx, charged>>

rdtsc ==
  /\ RunsFor("rdtsc", "cmpxchg")
  /\ ebx' = tsc
  /\ UNCHANGED <<t_intr_start, stamp_ret, loaded, charged>>

\* The stamp that the two words read make up.
Words64 == old_high * WordValues + old_low

\* Mutant: the stamp is stored whatever it was before.
Unchanged_untested == TRUE

\* Is the stamp what was read?
StampUnchanged == t_intr_start = Words64

\* cmpxchg8b, and again when the stamp has changed.
cmpxchg8b ==
  /\ IF StampUnchanged
     THEN RunsFor("cmpxchg", "run") /\ t_intr_start' = ebx
     ELSE RunsFor("cmpxchg", "low") /\ UNCHANGED t_intr_start
  /\ torn' = (torn \/ (t_intr_start = Words64 /\ old_stamp # t_intr_start))
  /\ UNCHANGED <<stamp_ret, old_low, old_high, old_stamp, ebx, charged>>

RunThread ==
  /\ RunsFor("run", "run")
  /\ UNCHANGED <<t_intr_start, stamp_ret, loaded, ebx, charged>>

ChargeThread ==
  /\ charged' = IF t_intr_start = 0 THEN charged ELSE charged + (tsc - t_intr_start)
  /\ t_intr_start' = 0

\* A higher interrupt, for some time.
TakeInterrupt ==
  /\ stamp_pc \notin {"blocked", "intr"}
  /\ stamp_pc' = "intr" /\ stamp_ret' = stamp_pc
  /\ ChargeThread
  /\ UNCHANGED <<tsc, loaded, ebx, ran>>

InterruptRuns ==
  /\ stamp_pc = "intr" /\ tsc < MaxTsc
  /\ Tick
  /\ UNCHANGED <<t_intr_start, stamp_pc, stamp_ret, loaded, ebx, charged, ran>>

ReturnFromInterrupt ==
  /\ stamp_pc = "intr"
  /\ stamp_pc' = stamp_ret
  /\ t_intr_start' = tsc
  /\ UNCHANGED <<tsc, stamp_ret, loaded, ebx, charged, ran>>

\* The thread blocks, and is resumed later.
BlockThread ==
  /\ stamp_pc = "run" /\ stamp_pc' = "blocked"
  /\ ChargeThread
  /\ UNCHANGED <<tsc, stamp_ret, loaded, ebx, ran>>

StampNext ==
  \/ StampResume \/ PushLow \/ PushHigh \/ rdtsc \/ cmpxchg8b
  \/ RunThread \/ TakeInterrupt \/ InterruptRuns \/ ReturnFromInterrupt \/ BlockThread

StampSpec == StampInit /\ [][StampNext]_stampVars

-----------------------------------------------------------------------------
\* The thread is never charged for time in which it did not run, so no
\* interval is charged twice: a time read before an interrupt is not stored
\* after it ("We can detect this by doing a compare-and-swap").  The one
\* exception is that the two halves, read of different stamps, happen to
\* make up the stamp of a later interrupt.
ChargedAtMostRan ==
  \/ torn
  \/ charged + (IF t_intr_start = 0 THEN 0 ELSE tsc - t_intr_start) <= ran

=============================================================================
