-------------------------------- MODULE RwLock --------------------------------
(***************************************************************************)
(* The readers/writer lock of ml/lock_prim.s: the fast paths rw_enter()    *)
(* and rw_exit() on the lock word of sys/rwlock_impl.h, and the slow paths *)
(* rw_enter_sleep() and rw_exit_wakeup() that they punt to (outside the    *)
(* repository), where a releaser hands the lock directly to whom it wakes. *)
(* The slow paths change the word and the sleep queues under the turnstile *)
(* lock, so each is one step.                                              *)
(***************************************************************************)
EXTENDS FiniteSets, Naturals

CONSTANTS Thread, NoThread

ASSUME RwLockAssumption == IsFiniteSet(Thread) /\ NoThread \notin Thread

VARIABLES
  rw_wwwh,  \* the lock word: writer, read count, RW_WRITE_WANTED, RW_HAS_WAITERS
  pc,       \* pc[t]: where t is
  eax,      \* eax[t]: the word t loaded
  kpri_req  \* kpri_req[t]: T_KPRI_REQ, requests for a kernel priority

vars == <<rw_wwwh, pc, eax, kpri_req>>

Word == [owner : Thread \cup {NoThread}, readers : Nat,
         wanted : BOOLEAN, waiters : BOOLEAN]

Unheld == [owner |-> NoThread, readers |-> 0, wanted |-> FALSE, waiters |-> FALSE]

RW_WRITE_LOCK(t) == [Unheld EXCEPT !.owner = t]

WriteLocked(w) == w.owner # NoThread
Locked(w) == WriteLocked(w) \/ w.readers > 0
WriteClaimed(w) == WriteLocked(w) \/ w.wanted

AddReader(w)  == [w EXCEPT !.readers = @ + 1]
DropReader(w) == [w EXCEPT !.readers = @ - 1]

\* The points at which t holds the lock for reading, or for writing.
ReadHeld  == {"reading", "read_exit", "read_wakeup"}
WriteHeld == {"writing", "write_exit", "write_wakeup"}

PC == ReadHeld \cup WriteHeld
        \cup {"out", "read_enter", "read_sleep", "write_sleep", "read_blocked", "write_blocked"}

Init ==
  /\ rw_wwwh = Unheld
  /\ pc = [t \in Thread |-> "out"]
  /\ eax = [t \in Thread |-> Unheld]
  /\ kpri_req = [t \in Thread |-> 0]

Goto(t, to) == pc' = [pc EXCEPT ![t] = to]

\* THREAD_KPRI_REQUEST() and THREAD_KPRI_RELEASE()
KpriRequest(t) == kpri_req' = [kpri_req EXCEPT ![t] = @ + 1]
KpriRelease(t) == kpri_req' = [kpri_req EXCEPT ![t] = @ - 1]

\* lock cmpxchg of the word from old to new, and where to go then; nothing
\* reads eax afterwards.
cmpxchg(t, old, new, succeeded, failed) ==
  /\ IF rw_wwwh = old
     THEN rw_wwwh' = new /\ Goto(t, succeeded)
     ELSE UNCHANGED rw_wwwh /\ Goto(t, failed)
  /\ eax' = [eax EXCEPT ![t] = Unheld]

-----------------------------------------------------------------------------
(* rw_enter(lp, RW_READER)                                                 *)

\* Mutant: RW_WRITE_WANTED is not tested.
read_claimed_locked(w) == WriteLocked(w)

\* testl $RW_WRITE_LOCKED|RW_WRITE_WANTED
read_claimed(w) == WriteClaimed(w)

rw_enter_reader(t) ==
  /\ pc[t] = "out"
  /\ KpriRequest(t)
  /\ eax' = [eax EXCEPT ![t] = rw_wwwh]
  /\ Goto(t, IF read_claimed(rw_wwwh) THEN "read_sleep" ELSE "read_enter")
  /\ UNCHANGED rw_wwwh

\* Mutant: an increment of the count instead of a compare and exchange.
rw_read_enter_add(t) ==
  /\ pc[t] = "read_enter"
  /\ rw_wwwh' = AddReader(rw_wwwh) /\ Goto(t, "reading")
  /\ UNCHANGED <<eax, kpri_req>>

rw_read_enter(t) ==
  /\ pc[t] = "read_enter"
  /\ cmpxchg(t, eax[t], AddReader(eax[t]), "reading", "read_sleep")
  /\ UNCHANGED kpri_req

(* rw_enter(lp, RW_WRITER)                                                 *)

rw_enter_writer(t) ==
  /\ pc[t] = "out"
  /\ cmpxchg(t, Unheld, RW_WRITE_LOCK(t), "writing", "write_sleep")
  /\ UNCHANGED kpri_req

(* rw_exit(lp)                                                             *)

\* "single-reader, no waiters?", or at least one reader will be left.
not_last_reader(w) ==
  \/ w = [Unheld EXCEPT !.readers = 1]
  \/ ~WriteLocked(w) /\ w.readers >= 2

rw_exit(t) ==
  /\ pc[t] \in {"reading", "writing"}
  /\ eax' = [eax EXCEPT ![t] = rw_wwwh]
  /\ Goto(t, IF WriteLocked(rw_wwwh) THEN "write_exit"
             ELSE IF not_last_reader(rw_wwwh) THEN "read_exit" ELSE "read_wakeup")
  /\ UNCHANGED <<rw_wwwh, kpri_req>>

\* .rw_read_exit
rw_read_exit(t) ==
  /\ pc[t] = "read_exit"
  /\ cmpxchg(t, eax[t], DropReader(eax[t]), "out", "read_wakeup")
  /\ IF rw_wwwh = eax[t] THEN KpriRelease(t) ELSE UNCHANGED kpri_req

\* Mutant: a plain store of 0.
rw_write_exit_store(t) ==
  /\ pc[t] = "write_exit"
  /\ rw_wwwh' = Unheld /\ Goto(t, "out")
  /\ UNCHANGED <<eax, kpri_req>>

\* .rw_write_exit
rw_write_exit(t) ==
  /\ pc[t] = "write_exit"
  /\ cmpxchg(t, RW_WRITE_LOCK(t), Unheld, "out", "write_wakeup")
  /\ UNCHANGED kpri_req

-----------------------------------------------------------------------------
(* rw_enter_sleep()                                                        *)

Blocked(kind) == {u \in Thread : pc[u] = kind}

\* The lock is free for t's purpose after all ...
EnterSleepGets(t) ==
  /\ \/ /\ pc[t] = "read_sleep" /\ ~WriteClaimed(rw_wwwh)
        /\ rw_wwwh' = AddReader(rw_wwwh) /\ Goto(t, "reading")
     \/ /\ pc[t] = "write_sleep" /\ ~Locked(rw_wwwh)
        /\ rw_wwwh' = [rw_wwwh EXCEPT !.owner = t] /\ Goto(t, "writing")
  /\ UNCHANGED <<eax, kpri_req>>

\* ... or the waiters bits go in and t blocks.
EnterSleepBlocks(t) ==
  /\ \/ /\ pc[t] = "read_sleep" /\ WriteClaimed(rw_wwwh)
        /\ rw_wwwh' = [rw_wwwh EXCEPT !.waiters = TRUE] /\ Goto(t, "read_blocked")
     \/ /\ pc[t] = "write_sleep" /\ Locked(rw_wwwh)
        /\ rw_wwwh' = [rw_wwwh EXCEPT !.waiters = TRUE, !.wanted = TRUE]
        /\ Goto(t, "write_blocked")
  /\ UNCHANGED <<eax, kpri_req>>

(* rw_exit_wakeup()                                                        *)

Dropped(t) ==
  IF pc[t] = "read_wakeup" THEN DropReader(rw_wwwh) ELSE [rw_wwwh EXCEPT !.owner = NoThread]

\* "THREAD_KPRI_RELEASE()", if t was a reader.
WakeupKpri(t) == IF pc[t] = "read_wakeup" THEN KpriRelease(t) ELSE UNCHANGED kpri_req

\* Not the final exit of a lock with waiters: just drop it.
ExitWakeupDrops(t) ==
  /\ pc[t] \in {"read_wakeup", "write_wakeup"}
  /\ Locked(Dropped(t)) \/ ~rw_wwwh.waiters
  /\ rw_wwwh' = Dropped(t) /\ Goto(t, "out")
  /\ WakeupKpri(t)
  /\ UNCHANGED eax

\* The word that hands the lock to owner or to n readers.
Handoff(owner, n, writersLeft, anyLeft) ==
  [owner |-> owner, readers |-> n, wanted |-> writersLeft, waiters |-> anyLeft]

\* Mutant: waiting writers always come first.
ExitWakeupHandsOver_writers(t) ==
  LET readers == Blocked("read_blocked")
      writers == Blocked("write_blocked")
  IN
  /\ pc[t] \in {"read_wakeup", "write_wakeup"}
  /\ ~Locked(Dropped(t)) /\ rw_wwwh.waiters
  /\ \/ /\ readers # {} /\ writers = {}
        /\ rw_wwwh' = Handoff(NoThread, Cardinality(readers), writers # {}, writers # {})
        /\ pc' = [u \in Thread |-> IF u \in readers THEN "reading"
                                    ELSE IF u = t THEN "out" ELSE pc[u]]
     \/ /\ \E w \in writers :
             /\ rw_wwwh' = Handoff(w, 0, writers # {w}, readers \cup writers # {w})
             /\ pc' = [pc EXCEPT ![w] = "writing", ![t] = "out"]
  /\ WakeupKpri(t)
  /\ UNCHANGED eax

\* A writer hands the lock to all waiting readers, a reader to a waiting
\* writer; without one of those, to the others.
ExitWakeupHandsOver(t) ==
  LET readers == Blocked("read_blocked")
      writers == Blocked("write_blocked")
  IN
  /\ pc[t] \in {"read_wakeup", "write_wakeup"}
  /\ ~Locked(Dropped(t)) /\ rw_wwwh.waiters
  /\ \/ /\ readers # {} /\ (pc[t] = "write_wakeup" \/ writers = {})
        /\ rw_wwwh' = Handoff(NoThread, Cardinality(readers), writers # {}, writers # {})
        /\ pc' = [u \in Thread |-> IF u \in readers THEN "reading"
                                    ELSE IF u = t THEN "out" ELSE pc[u]]
     \/ /\ readers = {} \/ pc[t] = "read_wakeup"
        /\ \E w \in writers :
             /\ rw_wwwh' = Handoff(w, 0, writers # {w}, readers \cup writers # {w})
             /\ pc' = [pc EXCEPT ![w] = "writing", ![t] = "out"]
  /\ WakeupKpri(t)
  /\ UNCHANGED eax

Step(t) ==
  \/ rw_read_enter(t) \/ rw_exit(t) \/ rw_read_exit(t) \/ rw_write_exit(t)
  \/ EnterSleepGets(t) \/ EnterSleepBlocks(t)
  \/ ExitWakeupDrops(t) \/ ExitWakeupHandsOver(t)

Next == \E t \in Thread : rw_enter_reader(t) \/ rw_enter_writer(t) \/ Step(t)

Spec == Init /\ [][Next]_vars

\* Every thread in the lock's code goes on and leaves its critical section.
FairSpec == Spec /\ \A t \in Thread : WF_vars(Step(t))

-----------------------------------------------------------------------------
\* The word holds a writer or a count, the flags are booleans, and waiters
\* wait only for a lock that is held.
TypeOK ==
  /\ rw_wwwh \in Word /\ eax \in [Thread -> Word]
  /\ pc \in [Thread -> PC]
  /\ kpri_req \in [Thread -> 0 .. 1]
  /\ rw_wwwh.waiters => Locked(rw_wwwh)

Readers == {t \in Thread : pc[t] \in ReadHeld}

\* A writer excludes everybody else.
WriterExcludes ==
  \A t \in Thread : pc[t] \in WriteHeld =>
    \A u \in Thread \ {t} : pc[u] \notin ReadHeld \cup WriteHeld

\* The hold count of the word counts the readers that are in, however they
\* got in: by the fast path, by the slow path or by handoff.
HoldCountIsExact ==
  rw_wwwh.readers = Cardinality(Readers)

\* The waiters flags are there as long as someone waits, so that no exit on
\* the fast path misses it: "no waiters or not the last reader".
WaitersAreFlagged ==
  /\ Blocked("read_blocked") \cup Blocked("write_blocked") # {} => rw_wwwh.waiters
  /\ Blocked("write_blocked") # {} => rw_wwwh.wanted

\* Whichever way a thread gets and drops the lock, it has the kernel priority
\* exactly while it is a reader or on its way to be one.
KpriBalanced ==
  \A t \in Thread : kpri_req[t] =
    IF pc[t] \in ReadHeld \cup {"read_enter", "read_sleep", "read_blocked"} THEN 1 ELSE 0

\* The owner of the word is the thread that writes, and then nobody reads.
OwnerIsWriter ==
  /\ \A t \in Thread : pc[t] \in WriteHeld <=> rw_wwwh.owner = t
  /\ rw_wwwh.owner # NoThread => rw_wwwh.readers = 0

\* RW_WRITE_WANTED says that a writer waits.
WantedIsMeant == rw_wwwh.wanted => rw_wwwh.waiters /\ Blocked("write_blocked") # {}

\* What a thread about to exchange the word knows of the word it loaded.
LoadedWord ==
  \A t \in Thread :
    /\ pc[t] = "read_enter" => ~WriteClaimed(eax[t])
    /\ pc[t] = "read_exit" => not_last_reader(eax[t])

\* No reader overtakes a waiting writer: while readers hold a lock that is
\* write-wanted, nobody joins them.
NoOvertaking ==
  [][rw_wwwh.wanted /\ rw_wwwh.readers > 0 => rw_wwwh'.readers <= rw_wwwh.readers]_vars

\* Neither class starves the other: a reader that waits gets in, and when
\* writers wait one of them does (which one is up to the sleep queue).
WaiterGets ==
  /\ \A t \in Thread : pc[t] = "read_blocked" ~> pc[t] = "reading"
  /\ Blocked("write_blocked") # {} ~> \E t \in Thread : pc[t] = "writing"

=============================================================================
