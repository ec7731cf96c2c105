-------------------------------- MODULE IreRef -------------------------------
(***************************************************************************)
(* The references to routing entries and to the hash buckets they are in   *)
(* (inet/ip.h): IRE_REFHOLD, IRE_REFRELE, IRB_REFHOLD and IRB_REFRELE.  A  *)
(* thread that walks a bucket holds the bucket, not the entry it stands    *)
(* on; an entry deleted meanwhile is only marked, and the last walker      *)
(* unlinks it.  ire_delete(), ire_unlink(), ire_cleanup() and the lookups  *)
(* are outside the repository.                                             *)
(***************************************************************************)
EXTENDS FiniteSets, Integers

CONSTANTS
  IreThread,  \* threads
  Ire         \* the entries of the bucket at the start

ASSUME IreRefAssumption == IsFiniteSet(IreThread)

VARIABLES
  irb_ire,      \* the entries of the bucket; nothing depends on their order
  irb_refcnt,   \* walkers of the bucket
  irb_marks,    \* does the bucket have condemned entries?
  ire_refcnt,   \* ire_refcnt[e]
  ire_marks,    \* ire_marks[e]: is e condemned?
  ire_freed,    \* the entries that were freed
  held,         \* held[t]: entries t has a reference to
  at,           \* at[t]: the entries of t's walk, where it stands or may come to
  walking,      \* threads that hold the bucket
  ire_list,     \* ire_list[t]: entries t has unlinked, whose reference it must drop
  inactive      \* inactive[t]: entries whose last reference t has dropped

ireVars == <<irb_ire, irb_refcnt, irb_marks, ire_refcnt, ire_marks, ire_freed,
             held, at, walking, ire_list, inactive>>

IreInit ==
  /\ irb_ire = Ire /\ irb_refcnt = 0 /\ irb_marks = FALSE
  /\ ire_refcnt = [e \in Ire |-> 1]    \* the reference of the bucket
  /\ ire_marks = [e \in Ire |-> FALSE] /\ ire_freed = {}
  /\ held = [t \in IreThread |-> {}]
  /\ at = [t \in IreThread |-> {}] /\ walking = {}
  /\ ire_list = [t \in IreThread |-> {}] /\ inactive = [t \in IreThread |-> {}]

-----------------------------------------------------------------------------
\* atomic_add_32(&ire_refcnt, 1)
IRE_REFHOLD(e) == ire_refcnt' = [ire_refcnt EXCEPT ![e] = @ + 1]

\* atomic_add_32_nv(&ire_refcnt, -1) == 0: then ire_inactive(), a step later.
IRE_REFRELE(t, e) ==
  /\ ire_refcnt' = [ire_refcnt EXCEPT ![e] = @ - 1]
  /\ inactive' = IF ire_refcnt[e] = 1 THEN [inactive EXCEPT ![t] = @ \union {e}] ELSE inactive

IRB_REFHOLD(t) ==
  /\ t \notin walking /\ walking' = walking \union {t}
  /\ irb_refcnt' = irb_refcnt + 1
  /\ UNCHANGED <<irb_ire, irb_marks, ire_refcnt, ire_marks, ire_freed, held, at, ire_list, inactive>>

\* ire_unlink(): the condemned entries leave the list.
ire_unlink(t) ==
  /\ ire_list' = [ire_list EXCEPT ![t] = @ \union {e \in irb_ire : ire_marks[e]}]
  /\ irb_ire' = {e \in irb_ire : ~ire_marks[e]}
  /\ irb_marks' = FALSE

\* Mutant: the entries are unlinked under the other walkers.
IRB_REFRELE_any(t) ==
  /\ t \in walking /\ at[t] = {} /\ walking' = walking \ {t}
  /\ irb_refcnt' = irb_refcnt - 1
  /\ IF irb_marks THEN ire_unlink(t) ELSE UNCHANGED <<irb_ire, irb_marks, ire_list>>
  /\ UNCHANGED <<ire_refcnt, ire_marks, ire_freed, held, at, inactive>>

IRB_REFRELE(t) ==
  /\ t \in walking /\ at[t] = {} /\ walking' = walking \ {t}
  /\ irb_refcnt' = irb_refcnt - 1
  /\ IF irb_refcnt = 1 /\ irb_marks
     THEN ire_unlink(t)
     ELSE UNCHANGED <<irb_ire, irb_marks, ire_list>>
  /\ UNCHANGED <<ire_refcnt, ire_marks, ire_freed, held, at, inactive>>

-----------------------------------------------------------------------------
(* The users of the macros                                                 *)
-----------------------------------------------------------------------------
\* ire_cleanup(): the references of the bucket are dropped, one by one.
ire_cleanup(t, e) ==
  /\ e \in ire_list[t]
  /\ ire_list' = [ire_list EXCEPT ![t] = @ \ {e}]
  /\ IRE_REFRELE(t, e)
  /\ UNCHANGED <<irb_ire, irb_refcnt, irb_marks, ire_marks, ire_freed, held, at, walking>>

ire_inactive(t, e) ==
  /\ e \in inactive[t]
  /\ inactive' = [inactive EXCEPT ![t] = @ \ {e}]
  /\ ire_freed' = ire_freed \union {e}
  /\ UNCHANGED <<irb_ire, irb_refcnt, irb_marks, ire_refcnt, ire_marks, held, at, walking, ire_list>>

\* A walk over the bucket, in some order: the lock is dropped at every entry.
WalkFrom(t) ==
  /\ t \in walking /\ at[t] = {} /\ irb_ire # {}
  /\ at' = [at EXCEPT ![t] = irb_ire]
  /\ UNCHANGED <<irb_ire, irb_refcnt, irb_marks, ire_refcnt, ire_marks, ire_freed,
                 held, walking, ire_list, inactive>>

WalkOn(t, e) ==
  /\ e \in at[t]
  /\ at' = [at EXCEPT ![t] = @ \ {e}]
  /\ UNCHANGED <<irb_ire, irb_refcnt, irb_marks, ire_refcnt, ire_marks, ire_freed,
                 held, walking, ire_list, inactive>>

\* A lookup, under the bucket's lock, passes over condemned entries.
Lookup(t, e) ==
  /\ e \in irb_ire \ held[t] /\ ~ire_marks[e]
  /\ IRE_REFHOLD(e)
  /\ held' = [held EXCEPT ![t] = @ \union {e}]
  /\ UNCHANGED <<irb_ire, irb_refcnt, irb_marks, ire_marks, ire_freed, at, walking, ire_list, inactive>>

\* A walker keeps the entry it stands on.
HoldCurrent(t, e) ==
  /\ e \in at[t] \ held[t]
  /\ IRE_REFHOLD(e)
  /\ held' = [held EXCEPT ![t] = @ \union {e}]
  /\ UNCHANGED <<irb_ire, irb_refcnt, irb_marks, ire_marks, ire_freed, at, walking, ire_list, inactive>>

Release(t, e) ==
  /\ e \in held[t]
  /\ held' = [held EXCEPT ![t] = @ \ {e}]
  /\ IRE_REFRELE(t, e)
  /\ UNCHANGED <<irb_ire, irb_refcnt, irb_marks, ire_marks, ire_freed, at, walking, ire_list>>

\* ire_delete() by a thread with a reference: marked while the bucket is
\* held, unlinked at once otherwise.
ire_delete(t, e) ==
  /\ e \in held[t] /\ ~ire_marks[e]
  /\ ire_marks' = [ire_marks EXCEPT ![e] = TRUE]
  /\ IF irb_refcnt # 0
     THEN irb_marks' = TRUE /\ UNCHANGED <<irb_ire, ire_list>>
     ELSE /\ irb_ire' = irb_ire \ {e}
          /\ ire_list' = [ire_list EXCEPT ![t] = @ \union {e}]
          /\ UNCHANGED irb_marks
  /\ UNCHANGED <<irb_refcnt, ire_refcnt, ire_freed, held, at, walking, inactive>>

IreNext ==
  \E t \in IreThread :
    \/ IRB_REFHOLD(t) \/ IRB_REFRELE(t) \/ WalkFrom(t)
    \/ \E e \in Ire :
         \/ WalkOn(t, e) \/ HoldCurrent(t, e) \/ Lookup(t, e) \/ Release(t, e)
         \/ ire_delete(t, e) \/ ire_cleanup(t, e) \/ ire_inactive(t, e)

IreSpec == IreInit /\ [][IreNext]_ireVars

-----------------------------------------------------------------------------
\* No thread stands on, will be led to, has a reference to or is about to free
\* an entry that was freed: IRB_REFHOLD keeps all of the bucket's entries in
\* memory, including those that are deleted during the walk.
NoFreedIre ==
  /\ \A t \in IreThread :
       (held[t] \union at[t] \union ire_list[t] \union inactive[t]) \intersect ire_freed = {}
  /\ irb_ire \intersect ire_freed = {}

\* Nothing is forgotten: the bucket's mark says whether it has condemned
\* entries, so that ire_unlink() in IRB_REFRELE finds one
\* (ASSERT(ire_list != NULL)), and it has them only while someone walks it.
CondemnedAreUnlinked ==
  /\ irb_marks <=> \E e \in irb_ire : ire_marks[e]
  /\ irb_marks => irb_refcnt # 0

\* A bucket that is walked, looked up and cleaned at the same time is sound:
\* IRB_REFRELE frees what no one can reach, and forgets none of it.
BucketIsSound == NoFreedIre /\ CondemnedAreUnlinked

=============================================================================
