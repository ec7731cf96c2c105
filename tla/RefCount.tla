------------------------------ MODULE RefCount -------------------------------
(***************************************************************************)
(* The reference counts of the kernel headers, in the four forms that they *)
(* take: CONN_DEC_REF (inet/ipclassifier.h) drops its lock before it       *)
(* destroys the object, NCE_REFRELE (inet/ip_ndp.h) keeps it,              *)
(* IPPOL_REFRELE (inet/ipsec_impl.h) has an atomic count and no lock, and  *)
(* PATH_RELE (sys/rsm/rsmka_path_int.h) signals a thread that waits for    *)
(* the count to drain and frees the object itself.                         *)
(*                                                                         *)
(* One object, with the reference of the table in which it is found.  The  *)
(* table, the threads that look the object up and the thread that waits    *)
(* are external.                                                           *)
(***************************************************************************)
EXTENDS FiniteSets, Integers

CONSTANTS
  RefThread,  \* threads
  MaxRefs     \* bound: references of a thread

ASSUME RefCountAssumption == IsFiniteSet(RefThread) /\ MaxRefs \in Nat \ {0}

VARIABLES
  ref_kind,   \* "conn", "nce", "ippol" or "path"
  ref_lock,   \* the thread with the object's lock, as a set
  refcnt,
  ref_table,  \* is the object in the table?
  remover,    \* the thread that took it out, as a set
  ref_pc,     \* ref_pc[t]: where the thread is
  refs,       \* refs[t]: references that the thread has, its lookup included
  signalled,  \* the thread that waits for the count was signalled
  frees       \* how often the object was freed

refVars == <<ref_kind, ref_lock, refcnt, ref_table, remover, ref_pc, refs, signalled, frees>>

RefInit ==
  /\ ref_kind \in {"conn", "nce", "ippol", "path"}
  /\ ref_lock = {} /\ refcnt = 1 /\ ref_table = TRUE /\ remover = {}
  /\ ref_pc = [t \in RefThread |-> "out"]
  /\ refs = [t \in RefThread |-> 0]
  /\ signalled = FALSE /\ frees = 0

RefGoto(t, from, to) == ref_pc[t] = from /\ ref_pc' = [ref_pc EXCEPT ![t] = to]

-----------------------------------------------------------------------------
\* The table's lock is held during a lookup and its REFHOLD.
BeginLookup(t) ==
  /\ ref_table /\ refs[t] < MaxRefs /\ RefGoto(t, "out", "lookup")
  /\ UNCHANGED <<ref_kind, remover, ref_lock, refcnt, ref_table, refs, signalled, frees>>

\* A thread that has a reference takes another one.
BeginHold(t) ==
  /\ refs[t] \in 1 .. MaxRefs - 1 /\ RefGoto(t, "out", "hold")
  /\ UNCHANGED <<ref_kind, remover, ref_lock, refcnt, ref_table, refs, signalled, frees>>

BeginRele(t) ==
  /\ refs[t] > 0 /\ RefGoto(t, "out", "rele")
  /\ UNCHANGED <<ref_kind, remover, ref_lock, refcnt, ref_table, refs, signalled, frees>>

\* The object leaves the table; its reference is now the thread's.
RemoveFromTable(t) ==
  /\ ref_table /\ refs[t] = 0 /\ \A u \in RefThread : ref_pc[u] # "lookup"
  /\ RefGoto(t, "out", "rele")
  /\ ref_table' = FALSE /\ remover' = {t}
  /\ refs' = [refs EXCEPT ![t] = @ + 1]
  /\ UNCHANGED <<ref_kind, ref_lock, refcnt, signalled, frees>>

\* CONN_INC_REF, NCE_REFHOLD, PATH_HOLD: mutex_enter, ++, mutex_exit.
CONN_INC_REF(t) ==
  /\ ref_kind # "ippol" /\ ref_lock = {} /\ ref_pc[t] \in {"lookup", "hold"}
  /\ refcnt' = refcnt + 1
  /\ refs' = [refs EXCEPT ![t] = @ + 1]
  /\ ref_pc' = [ref_pc EXCEPT ![t] = "out"]
  /\ UNCHANGED <<ref_kind, remover, ref_lock, ref_table, signalled, frees>>

\* atomic_add_32(&ipsp_refs, 1)
IPPOL_REFHOLD(t) ==
  /\ ref_kind = "ippol" /\ ref_pc[t] \in {"lookup", "hold"}
  /\ refcnt' = refcnt + 1
  /\ refs' = [refs EXCEPT ![t] = @ + 1]
  /\ ref_pc' = [ref_pc EXCEPT ![t] = "out"]
  /\ UNCHANGED <<ref_kind, remover, ref_lock, ref_table, signalled, frees>>

\* mutex_enter() of the releases.
ReleEnter(t) ==
  /\ ref_kind # "ippol" /\ ref_lock = {} /\ RefGoto(t, "rele", "dec")
  /\ ref_lock' = {t}
  /\ UNCHANGED <<ref_kind, remover, refcnt, ref_table, refs, signalled, frees>>

Decrement(t) ==
  /\ refcnt' = refcnt - 1
  /\ refs' = [refs EXCEPT ![t] = @ - 1]

\* CE_PANIC for a count of 0; else "Refcnt can't increase again, safe to drop
\* lock".  Nobody here waits for the broadcast on conn_cv.
CONN_DEC_REF(t) ==
  /\ ref_kind = "conn" /\ refcnt > 0 /\ RefGoto(t, "dec", IF refcnt = 1 THEN "destroy" ELSE "exit")
  /\ Decrement(t)
  /\ ref_lock' = IF refcnt = 1 THEN {} ELSE {t}
  /\ UNCHANGED <<ref_kind, remover, ref_table, signalled, frees>>

\* ndp_inactive() is called with the lock and destroys it.
NCE_REFRELE(t) ==
  /\ ref_kind = "nce" /\ RefGoto(t, "dec", IF refcnt = 1 THEN "destroy" ELSE "exit")
  /\ Decrement(t)
  /\ UNCHANGED <<ref_kind, remover, ref_lock, ref_table, signalled, frees>>

\* Mutant: the count is read again after it was decremented.
IPPOL_REFRELE_reread(t) ==
  /\ ref_kind = "ippol"
  /\ \/ RefGoto(t, "rele", "dec") /\ Decrement(t)
     \/ RefGoto(t, "dec", IF refcnt = 0 THEN "destroy" ELSE "out") /\ UNCHANGED <<refcnt, refs>>
  /\ UNCHANGED <<ref_kind, remover, ref_lock, ref_table, signalled, frees>>

\* atomic_add_32_nv(&ipsp_refs, -1) == 0
IPPOL_REFRELE(t) ==
  /\ ref_kind = "ippol" /\ RefGoto(t, "rele", IF refcnt = 1 THEN "destroy" ELSE "out")
  /\ Decrement(t)
  /\ UNCHANGED <<ref_kind, remover, ref_lock, ref_table, signalled, frees>>

\* The thread in cv_wait(), if there is one.
Waiting == \E w \in RefThread : ref_pc[w] = "wait"

\* The last release signals hold_cv, under the lock.
PATH_RELE(t) ==
  /\ ref_kind = "path" /\ RefGoto(t, "dec", "exit")
  /\ Decrement(t)
  /\ signalled' = (signalled \/ (refcnt = 1 /\ Waiting))
  /\ UNCHANGED <<ref_kind, remover, ref_lock, ref_table, frees>>

\* mutex_exit().  The thread that took a path out of the table then waits.
ReleExit(t) ==
  /\ RefGoto(t, "exit", IF ref_kind = "path" /\ t \in remover THEN "drain" ELSE "out")
  /\ ref_lock' = {}
  /\ UNCHANGED <<ref_kind, remover, refcnt, ref_table, refs, signalled, frees>>

\* while (ref_cnt != 0) cv_wait(&hold_cv, &mutex), with the mutex held.
DrainCount(t) ==
  /\ ref_lock = {} /\ RefGoto(t, "drain", IF refcnt = 0 THEN "destroy" ELSE "wait")
  /\ UNCHANGED <<ref_kind, remover, ref_lock, refcnt, ref_table, refs, signalled, frees>>

DrainWakes(t) ==
  /\ signalled /\ RefGoto(t, "wait", "drain")
  /\ signalled' = FALSE
  /\ UNCHANGED <<ref_kind, remover, ref_lock, refcnt, ref_table, refs, frees>>

\* ipcl_conn_destroy(), ndp_inactive(), ipsec_policy_free(), and the thread that
\* waited for a path.
Destroy(t) ==
  /\ RefGoto(t, "destroy", "out")
  /\ frees' = frees + 1
  /\ ref_lock' = ref_lock \ {t}
  /\ UNCHANGED <<ref_kind, remover, refcnt, ref_table, refs, signalled>>

RefNext ==
  \E t \in RefThread :
    \/ BeginLookup(t) \/ BeginHold(t) \/ BeginRele(t) \/ RemoveFromTable(t)
    \/ CONN_INC_REF(t) \/ IPPOL_REFHOLD(t)
    \/ ReleEnter(t) \/ CONN_DEC_REF(t) \/ NCE_REFRELE(t) \/ IPPOL_REFRELE(t) \/ PATH_RELE(t)
    \/ ReleExit(t) \/ DrainCount(t) \/ DrainWakes(t) \/ Destroy(t)

RefSpec == RefInit /\ [][RefNext]_refVars

-----------------------------------------------------------------------------
\* The object is freed once, and then nobody has it, is in one of the macros
\* with it, or can find it: also a thread that dropped a reference before the
\* last one and has yet to leave the lock is gone.
NotFreedInUse ==
  frees > 0 =>
    /\ frees = 1 /\ ~ref_table /\ ref_lock = {}
    /\ \A t \in RefThread : refs[t] = 0 /\ ref_pc[t] = "out"

\* Nothing leaks: once it has left the table and no thread has it or is
\* going to run, the object was freed.  A thread that still waits without a
\* signal missed the last release.
NothingLeaks ==
  /\ ~ref_table
  /\ \A t \in RefThread : refs[t] = 0 /\ (ref_pc[t] = "out" \/ (ref_pc[t] = "wait" /\ ~signalled))
  => frees = 1

\* A release that has the lock finds a count above 0: CONN_DEC_REF does not
\* panic, and PATH_RELE does not go below.
CountCoversReleases == \A t \in RefThread : ref_pc[t] = "dec" => refcnt > 0

\* An object under any of the release macros is freed when its last reference
\* goes: not before, not twice, and not never, and no release is one too many.
FreedOnceUnused == NotFreedInUse /\ NothingLeaks /\ CountCoversReleases

=============================================================================
