------------------------------ MODULE SleepLock ------------------------------
(***************************************************************************)
(* What a blocking lock promises: at most one holder, a thread goes to     *)
(* sleep only while another holds the lock, and a release leaves nobody    *)
(* asleep.                                                                 *)
(***************************************************************************)
CONSTANTS Thread, NoThread

VARIABLES
  holder,  \* the holder, or NoThread
  asleep   \* the threads asleep on the lock

Init == holder = NoThread /\ asleep = {}

Acquire(t) ==
  /\ holder = NoThread /\ t \notin asleep
  /\ holder' = t
  /\ UNCHANGED asleep

Sleep(t) ==
  /\ holder \notin {t, NoThread} /\ t \notin asleep
  /\ asleep' = asleep \cup {t}
  /\ UNCHANGED holder

Release(t) ==
  /\ holder = t
  /\ holder' = NoThread /\ asleep' = {}

Next == \E t \in Thread : Acquire(t) \/ Sleep(t) \/ Release(t)

Spec == Init /\ [][Next]_<<holder, asleep>>

=============================================================================
