------------------------------ MODULE AddrLocks ------------------------------
(***************************************************************************)
(* Two locks at once, in the order of their addresses: GRAB_ILL_LOCKS and  *)
(* RELEASE_ILL_LOCKS (inet/ip.h), STRLOCKMATES and STRUNLOCKMATES          *)
(* (sys/strsubr.h).                                                        *)
(***************************************************************************)
EXTENDS FiniteSets, Integers, Sequences

CONSTANTS
  LockThread,  \* threads
  Ill,         \* addresses of the ills
  Mates        \* addresses of the two streams of a twisted pair

\* The null pointer is below every address.
NULL == 0

Address == Ill \union Mates

ASSUME AddrLocksAssumption ==
  /\ Ill \subseteq Nat \ {NULL}
  /\ Mates \subseteq Nat \ (Ill \union {NULL})

VARIABLES
  owner,    \* owner[a]: the thread that has lock a, as a set
  to_lock,  \* to_lock[t]: mutex_enter() calls to come, in order
  to_exit   \* to_exit[t]: mutex_exit() calls to come, in order

lockVars == <<owner, to_lock, to_exit>>

LocksInit ==
  /\ owner = [a \in Address |-> {}]
  /\ to_lock = [t \in LockThread |-> << >>]
  /\ to_exit = [t \in LockThread |-> << >>]

\* The lock of an ill, or none for a null pointer.
IllLock(ill) == IF ill = NULL THEN << >> ELSE <<ill>>

\* Mutant: in the order of the arguments.
GRAB_ILL_LOCKS_asis(ill_1, ill_2) ==
  IllLock(ill_1) \o IF ill_2 # ill_1 THEN IllLock(ill_2) ELSE << >>

\* "The order is highest addressed ill is locked first."
GRAB_ILL_LOCKS(ill_1, ill_2) ==
  IF ill_1 > ill_2
  THEN IllLock(ill_1) \o IllLock(ill_2)
  ELSE IllLock(ill_2) \o IF ill_1 # ill_2 THEN IllLock(ill_1) ELSE << >>

RELEASE_ILL_LOCKS(ill_1, ill_2) ==
  IllLock(ill_1) \o IF ill_2 # ill_1 THEN IllLock(ill_2) ELSE << >>

STRLOCKMATES(x, mate) == IF x > mate THEN <<x, mate>> ELSE <<mate, x>>

STRUNLOCKMATES(x, mate) == <<x, mate>>

GrabIlls(t, ill_1, ill_2) ==
  /\ to_exit[t] = << >>
  /\ to_lock' = [to_lock EXCEPT ![t] = GRAB_ILL_LOCKS(ill_1, ill_2)]
  /\ to_exit' = [to_exit EXCEPT ![t] = RELEASE_ILL_LOCKS(ill_1, ill_2)]
  /\ UNCHANGED owner

LockMates(t, x, mate) ==
  /\ to_exit[t] = << >>
  /\ to_lock' = [to_lock EXCEPT ![t] = STRLOCKMATES(x, mate)]
  /\ to_exit' = [to_exit EXCEPT ![t] = STRUNLOCKMATES(x, mate)]
  /\ UNCHANGED owner

MutexEnter(t) ==
  /\ to_lock[t] # << >> /\ owner[Head(to_lock[t])] = {}
  /\ owner' = [owner EXCEPT ![Head(to_lock[t])] = {t}]
  /\ to_lock' = [to_lock EXCEPT ![t] = Tail(@)]
  /\ UNCHANGED to_exit

MutexExit(t) ==
  /\ to_lock[t] = << >> /\ to_exit[t] # << >>
  /\ owner' = [owner EXCEPT ![Head(to_exit[t])] = {}]
  /\ to_exit' = [to_exit EXCEPT ![t] = Tail(@)]
  /\ UNCHANGED to_lock

LocksNext ==
  \E t \in LockThread :
    \/ \E ill_1, ill_2 \in Ill \union {NULL} : GrabIlls(t, ill_1, ill_2)
    \/ \E x, mate \in Mates : x # mate /\ LockMates(t, x, mate)
    \/ MutexEnter(t)
    \/ MutexExit(t)

LocksSpec == LocksInit /\ [][LocksNext]_lockVars

-----------------------------------------------------------------------------
\* No threads wait for each other in a circle, however many take their pairs
\* at once and in whatever order they name them: among any threads that wait
\* there is one whose lock none of them has.
NoCircularWait ==
  \A S \in SUBSET {t \in LockThread : to_lock[t] # << >>} :
    S # {} => \E t \in S : owner[Head(to_lock[t])] \intersect S = {}

\* The locks a thread has to release are the ones it has, each once, also
\* when one of the pointers is null or both are the same.
ReleasesWhatItHas ==
  \A t \in LockThread : to_lock[t] = << >> =>
    /\ \A a \in Address : owner[a] = {t} <=> \E i \in DOMAIN to_exit[t] : to_exit[t][i] = a
    /\ \A i, j \in DOMAIN to_exit[t] : to_exit[t][i] = to_exit[t][j] => i = j

=============================================================================
