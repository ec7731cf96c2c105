-------------------------------- MODULE Syncq --------------------------------
(***************************************************************************)
(* The inner perimeter of a STREAMS queue with per-processor put locks     *)
(* (sys/strsubr.h): SQ_PUTLOCKS_ENTER and SQ_PUTLOCKS_EXIT,                *)
(* SQ_PUTCOUNT_SETFAST and SQ_PUTCOUNT_CLRFAST, SUM_SQ_PUTCOUNTS.  A queue *)
(* starts without put locks and may get them while it is in use.  Outside  *)
(* the repository: putnext(), which takes one put lock only, the threads   *)
(* that want the perimeter for themselves, with the loop the header gives  *)
(* for them, and the thread that creates the put locks.                    *)
(***************************************************************************)
EXTENDS FiniteSets, Integers

CONSTANTS
  Putter,         \* threads in putnext()
  Excl,           \* threads that want exclusive access
  sq_nciputctrl,  \* the last put lock
  SQ_FASTPUT,     \* the flag in a put count, above all counts
  NoOwner

PutLock == 0 .. sq_nciputctrl

ASSUME SyncqAssumption ==
  /\ IsFiniteSet(Putter) /\ Putter \intersect Excl = {} /\ NoOwner \notin Excl \union Putter
  /\ sq_nciputctrl \in Nat /\ SQ_FASTPUT \in Nat /\ Cardinality(Putter) < SQ_FASTPUT

VARIABLES
  sqlock,           \* holder of SQLOCK
  nputlocks,        \* put locks it holds: those below this number
  sq_ciputctrl,     \* whether the pointer to the put locks is set
  sq_count,         \* threads inside that came in under SQLOCK
  ciputctrl_count,  \* ciputctrl_count[i]: threads inside, and SQ_FASTPUT
  sq_flags,         \* subset of {"EXCL", "WANTWAKEUP"}
  sq_needexcl,      \* threads that want exclusive access
  sq_wait,          \* threads asleep on sq_wait
  sq_pc,            \* where a thread is
  sq_i,             \* next put lock, in the loop of a macro
  sum,              \* count, the local variable of the thread with SQLOCK
  counter           \* counter[p]: the counter putnext() incremented, as a set

local == <<sq_i, sum, counter>>

sqVars == <<sqlock, nputlocks, sq_ciputctrl, sq_count, ciputctrl_count, sq_flags,
            sq_needexcl, sq_wait, sq_pc, local>>

SyncqInit ==
  /\ sqlock = NoOwner /\ nputlocks = 0 /\ sq_i = 0 /\ sum = 0
  /\ sq_ciputctrl = FALSE
  /\ sq_count = 0 /\ ciputctrl_count = [i \in PutLock |-> 0]
  /\ sq_flags = {} /\ sq_needexcl = 0 /\ sq_wait = {}
  /\ sq_pc = [t \in Putter \union Excl |-> "out"]
  /\ counter = [p \in Putter |-> {}]

SqGoto(t, from, to) == sq_pc[t] = from /\ sq_pc' = [sq_pc EXCEPT ![t] = to]

-----------------------------------------------------------------------------
(* The macros, under SQLOCK, a lock at a time; sq_ciputctrl stays as it is *)
-----------------------------------------------------------------------------
\* Each macro does nothing while sq_ciputctrl is NULL.
NoPutlocks(x) ==
  /\ ~sq_ciputctrl
  /\ \/ SqGoto(x, "clrfast", "enter_locks") \/ SqGoto(x, "enter_locks", "sum")
     \/ SqGoto(x, "sum", "test") \/ SqGoto(x, "setfast", "wake")
  /\ UNCHANGED <<sqlock, nputlocks, sq_count, ciputctrl_count, sq_flags, sq_needexcl,
                 sq_wait, local>>

\* Is put lock i free?
PutLockFree(i) == i >= nputlocks

\* The loop of SQ_PUTLOCKS_ENTER, up to put lock last.
PutlocksStep(x, last) ==
  /\ sq_pc[x] = "enter_locks" /\ sq_ciputctrl
  /\ nputlocks' = nputlocks + 1
  /\ sq_pc' = [sq_pc EXCEPT ![x] = IF nputlocks = last THEN "sum" ELSE @]
  /\ UNCHANGED <<sqlock, sq_count, ciputctrl_count, sq_flags, sq_needexcl, sq_wait, local>>

SQ_PUTLOCKS_ENTER(x) == PutlocksStep(x, sq_nciputctrl)

\* The locks are dropped one by one; no other thread can tell in which order.
SQ_PUTLOCKS_EXIT == nputlocks' = 0

\* The count without its SQ_FASTPUT flag.
FastMasked(c) == c % SQ_FASTPUT

\* The loop of SUM_SQ_PUTCOUNTS, up to put count last.
SumStep(x, last) ==
  /\ sq_pc[x] = "sum" /\ sq_ciputctrl
  /\ sum' = sum + FastMasked(ciputctrl_count[sq_i])
  /\ IF sq_i = last
     THEN sq_i' = 0 /\ sq_pc' = [sq_pc EXCEPT ![x] = "test"]
     ELSE sq_i' = sq_i + 1 /\ UNCHANGED sq_pc
  /\ UNCHANGED <<sqlock, nputlocks, sq_count, ciputctrl_count, sq_flags, sq_needexcl,
                 sq_wait, counter>>

\* Mutant: i < ncounts, not i <= ncounts.
SUM_SQ_PUTCOUNTS_short(x) == SumStep(x, sq_nciputctrl - 1)

SUM_SQ_PUTCOUNTS(x) == SumStep(x, sq_nciputctrl)

\* The loops that set and clear the flag, and what follows when all are done.
PutcountStep(x, loop, done, c) ==
  /\ sq_pc[x] = loop /\ sq_ciputctrl
  /\ ciputctrl_count' = [ciputctrl_count EXCEPT ![sq_i] = c]
  /\ IF sq_i = sq_nciputctrl
     THEN sq_i' = 0 /\ sq_pc' = [sq_pc EXCEPT ![x] = done]
     ELSE sq_i' = sq_i + 1 /\ UNCHANGED sq_pc
  /\ UNCHANGED <<sqlock, nputlocks, sq_count, sq_flags, sq_needexcl, sq_wait, sum, counter>>

SQ_PUTCOUNT_SETFAST(x) ==
  PutcountStep(x, "setfast", "wake", SQ_FASTPUT + FastMasked(ciputctrl_count[sq_i]))

SQ_PUTCOUNT_CLRFAST(x) ==
  PutcountStep(x, "clrfast", "enter_locks", FastMasked(ciputctrl_count[sq_i]))

-----------------------------------------------------------------------------
(* A thread that wants exclusive access: count = sq->sq_count, the put     *)
(* counts on top of it, and a wait while it is not 0                       *)
-----------------------------------------------------------------------------
EnterExcl(x) ==
  /\ sqlock = NoOwner /\ sqlock' = x
  /\ sum' = sq_count
  /\ sq_needexcl' = sq_needexcl + 1
  /\ SqGoto(x, "out", IF sq_needexcl = 0 THEN "clrfast" ELSE "enter_locks")
  /\ UNCHANGED <<nputlocks, sq_count, ciputctrl_count, sq_flags, sq_wait, sq_i, counter>>

\* Mutant: the put locks are dropped before SQ_WANTWAKEUP is set.
WaitEmpty_late(x) ==
  \/ /\ SqGoto(x, "test", "want") /\ SQ_PUTLOCKS_EXIT
     /\ sum # 0 \/ "EXCL" \in sq_flags
     /\ UNCHANGED <<sqlock, sq_count, ciputctrl_count, sq_flags, sq_needexcl, sq_wait, local>>
  \/ /\ SqGoto(x, "want", "wait") /\ sqlock' = NoOwner
     /\ sq_flags' = sq_flags \union {"WANTWAKEUP"} /\ sq_wait' = sq_wait \union {x}
     /\ UNCHANGED <<nputlocks, sq_count, ciputctrl_count, sq_needexcl, local>>

\* Someone is inside: set SQ_WANTWAKEUP, drop the put locks, cv_wait(SQLOCK).
WaitEmpty(x) ==
  /\ SqGoto(x, "test", "wait")
  /\ sum # 0 \/ "EXCL" \in sq_flags
  /\ sq_flags' = sq_flags \union {"WANTWAKEUP"}
  /\ SQ_PUTLOCKS_EXIT
  /\ sqlock' = NoOwner /\ sq_wait' = sq_wait \union {x}
  /\ UNCHANGED <<sq_count, ciputctrl_count, sq_needexcl, local>>

\* cv_wait() returns with SQLOCK, and the loop goes round.
WaitReturns(x) ==
  /\ x \notin sq_wait
  /\ SqGoto(x, "wait", "enter_locks")
  /\ sqlock = NoOwner /\ sqlock' = x
  /\ sum' = sq_count
  /\ UNCHANGED <<nputlocks, sq_count, ciputctrl_count, sq_flags, sq_needexcl, sq_wait, sq_i, counter>>

\* Nobody is inside: the perimeter is exclusive.
BecomeExcl(x) ==
  /\ SqGoto(x, "test", "excl")
  /\ sum = 0 /\ "EXCL" \notin sq_flags
  /\ sq_flags' = sq_flags \union {"EXCL"}
  /\ SQ_PUTLOCKS_EXIT /\ sqlock' = NoOwner
  /\ UNCHANGED <<sq_count, ciputctrl_count, sq_needexcl, sq_wait, local>>

LeaveExcl(x) ==
  /\ sqlock = NoOwner /\ sqlock' = x
  /\ sq_flags' = sq_flags \ {"EXCL"} /\ sq_needexcl' = sq_needexcl - 1
  /\ SqGoto(x, "excl", IF sq_needexcl = 1 THEN "setfast" ELSE "wake")
  /\ UNCHANGED <<nputlocks, sq_count, ciputctrl_count, sq_wait, local>>

\* SQ_WANTWAKEUP: cv_broadcast(&sq->sq_wait).
Wakeup ==
  /\ sq_flags' = sq_flags \ {"WANTWAKEUP"}
  /\ sq_wait' = IF "WANTWAKEUP" \in sq_flags THEN {} ELSE sq_wait

LeaveWakes(x) ==
  /\ SqGoto(x, "wake", "out") /\ sqlock' = NoOwner
  /\ Wakeup
  /\ UNCHANGED <<nputlocks, sq_count, ciputctrl_count, sq_needexcl, local>>

-----------------------------------------------------------------------------
(* putnext()                                                               *)
-----------------------------------------------------------------------------
\* With SQ_FASTPUT and nobody exclusive, the put lock alone is enough.
PutFast(p, i) ==
  /\ SqGoto(p, "out", "in") /\ sq_ciputctrl /\ PutLockFree(i)
  /\ ciputctrl_count[i] >= SQ_FASTPUT /\ "EXCL" \notin sq_flags
  /\ ciputctrl_count' = [ciputctrl_count EXCEPT ![i] = @ + 1]
  /\ counter' = [counter EXCEPT ![p] = {i}]
  /\ UNCHANGED <<sqlock, nputlocks, sq_count, sq_flags, sq_needexcl, sq_wait, sq_i, sum>>

\* Otherwise under SQLOCK, when nobody is exclusive (else the message is
\* queued).  It looked for put locks and SQ_FASTPUT before it had SQLOCK: there
\* may be some by now.
PutSlow(p) ==
  /\ SqGoto(p, "out", "in") /\ sqlock = NoOwner /\ "EXCL" \notin sq_flags
  /\ sq_count' = sq_count + 1
  /\ UNCHANGED <<sqlock, nputlocks, ciputctrl_count, sq_flags, sq_needexcl, sq_wait, local>>

\* The return path decrements the counter it incremented.
PutReturns(p) ==
  /\ SqGoto(p, "in", IF "WANTWAKEUP" \in sq_flags THEN "tail" ELSE "out")
  /\ IF counter[p] = {}
     THEN /\ sqlock = NoOwner /\ sq_count' = sq_count - 1
          /\ UNCHANGED ciputctrl_count
     ELSE /\ \A i \in counter[p] : PutLockFree(i)
          /\ ciputctrl_count' = [i \in PutLock |->
               IF i \in counter[p] THEN ciputctrl_count[i] - 1 ELSE ciputctrl_count[i]]
          /\ UNCHANGED sq_count
  /\ counter' = [counter EXCEPT ![p] = {}]
  /\ UNCHANGED <<sqlock, nputlocks, sq_flags, sq_needexcl, sq_wait, sq_i, sum>>

\* The tail, under SQLOCK.
PutTail(p) ==
  /\ SqGoto(p, "tail", "out") /\ sqlock = NoOwner
  /\ Wakeup
  /\ UNCHANGED <<sqlock, nputlocks, sq_count, ciputctrl_count, sq_needexcl, local>>

ExclStep(x) ==
  \/ EnterExcl(x) \/ SQ_PUTCOUNT_CLRFAST(x) \/ SQ_PUTLOCKS_ENTER(x)
  \/ SUM_SQ_PUTCOUNTS(x) \/ WaitEmpty(x) \/ WaitReturns(x) \/ BecomeExcl(x)
  \/ LeaveExcl(x) \/ SQ_PUTCOUNT_SETFAST(x) \/ LeaveWakes(x) \/ NoPutlocks(x)

PutStep(p) ==
  \/ \E i \in PutLock : PutFast(p, i)
  \/ PutSlow(p) \/ PutReturns(p) \/ PutTail(p)

\* "dynamic creation of sq_putlocks while holding SQLOCK (by making sq_ciputctrl
\* non null even when the stream is already in use)": the counts start at 0,
\* with or without the flag.
CreatePutlocks ==
  /\ sqlock = NoOwner
  /\ ~sq_ciputctrl /\ sq_ciputctrl' = TRUE
  /\ \E flag \in {0, SQ_FASTPUT} : ciputctrl_count' = [i \in PutLock |-> flag]
  /\ UNCHANGED <<sqlock, nputlocks, sq_count, sq_flags, sq_needexcl, sq_wait, sq_pc, local>>

SyncqNext ==
  \/ CreatePutlocks
  \/ /\ (\E x \in Excl : ExclStep(x)) \/ (\E p \in Putter : PutStep(p))
     /\ UNCHANGED sq_ciputctrl

SyncqSpec == SyncqInit /\ [][SyncqNext]_sqVars

-----------------------------------------------------------------------------
\* A thread that has made the perimeter exclusive is alone in it, although
\* putnext() never takes more than one of the put locks, and although these
\* may appear while threads are inside.
ExclusiveIsAlone ==
  \A x \in Excl : sq_pc[x] = "excl" =>
    /\ \A p \in Putter : sq_pc[p] # "in"
    /\ \A y \in Excl \ {x} : sq_pc[y] # "excl"

\* A thread asleep on sq_wait is never forgotten: someone is still inside, or
\* on the way out with the wakeup ahead ("SQ_WANTWAKEUP is set before
\* dropping SQ_PUTLOCKS. This makes sure putnext won't skip a wakeup").
NoSkippedWakeup ==
  sq_wait # {} =>
    /\ "WANTWAKEUP" \in sq_flags
    /\ \E t \in Putter \union Excl : sq_pc[t] \in {"in", "tail", "excl", "setfast", "wake"}

\* The counters hold the threads inside, each once and in the counter it will
\* decrement, through every setting and clearing of SQ_FASTPUT: the sum is
\* exact whenever a thread trusts it.
CountsAreExact ==
  /\ \A i \in PutLock :
       FastMasked(ciputctrl_count[i]) = Cardinality({p \in Putter : i \in counter[p]})
  /\ sq_count = Cardinality({p \in Putter : sq_pc[p] = "in" /\ counter[p] = {}})

\* The sum over the put locks decides rightly who may have the perimeter: a
\* thread gets it exclusively only while no putnext() is inside.
PerimeterIsExclusive == ExclusiveIsAlone /\ CountsAreExact

=============================================================================
