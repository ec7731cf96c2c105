------------------------------ MODULE HresTick -------------------------------
(***************************************************************************)
(* hres_tick() of ml/i86_subr.s: the clock handler that advances           *)
(* hrtime_base and hrestime by the time since the last tick, applies at    *)
(* most max_hres_adj of a pending adjustment, and carries nanoseconds into *)
(* seconds, all under hres_lock.  The low byte of hres_lock is a spin      *)
(* lock, and the incl that releases it carries into the upper bytes, so    *)
(* that readers can see whether they overlapped an update.                 *)
(*                                                                         *)
(* Words have Word values instead of 2^32, and a second NANOSEC            *)
(* nanoseconds, with a little more than four seconds to a word as on the   *)
(* machine.  Times of 64 bits are integers.                                *)
(***************************************************************************)
EXTENDS Integers, FiniteSets

CONSTANTS
  Ticker,        \* processors that call hres_tick()
  Reader,        \* threads that read hrestime
  Word,          \* number of values of a 32-bit word
  Byte,          \* number of values of a byte
  NANOSEC,       \* nanoseconds in a second
  max_hres_adj,  \* largest adjustment in a tick
  MinInterval,   \* shortest time from a tick to the next call
  Deltas,        \* adjustments that adjtime() asks for
  MaxClock       \* bound on the clock

ASSUME HresTickAssumption ==
  /\ Word \in Nat /\ Word % 2 = 0 /\ NANOSEC \in 1 .. Word \div 4
  /\ Byte \in Nat \ {0} /\ Byte % 2 = 0
  /\ max_hres_adj \in 1 .. NANOSEC /\ MinInterval \in max_hres_adj .. NANOSEC
  /\ Deltas \subseteq -(Word * (Word \div 2) - 1) .. Word * (Word \div 2) - 1
  /\ MaxClock \in Nat

VARIABLES
  clock,           \* what *gethrtimef returns
  hres_lock,
  hrtime_base, hres_last_tick,
  tv_sec, tv_nsec, \* hrestime
  timedelta, hrestime_adj,
  applied,         \* history: the adjustments applied so far
  ordered,         \* history: no tick came less than MinInterval after the last,
                   \* nor so late that the nanoseconds leave a word
  tick,            \* each ticker: where it is, the time it read, its interval
                   \* and %eax, the nanoseconds to store
  reader           \* each reader: where it is and what it has read

hresVars == <<clock, hres_lock, hrtime_base, hres_last_tick, tv_sec, tv_nsec,
          timedelta, hrestime_adj, applied, ordered, tick, reader>>

hrestime == <<tv_sec, tv_nsec>>
times == <<hrtime_base, hres_last_tick, tv_sec, tv_nsec, timedelta, hrestime_adj, applied>>

\* hrtime_base starts at six ticks, so that pc_gethrtime() works early.
Base0 == 6

HresInit ==
  /\ clock = 0 /\ hres_lock = 0
  /\ hrtime_base = Base0 /\ hres_last_tick = 0
  /\ tv_sec = 0 /\ tv_nsec = 0
  /\ timedelta = 0 /\ hrestime_adj = 0 /\ applied = 0 /\ ordered = TRUE
  /\ tick = [c \in Ticker |-> [pc |-> "out", time |-> 0, interval |-> 0, eax |-> 0]]
  /\ reader = [r \in Reader |-> [pc |-> "out", lock |-> 0, sec |-> 0, nsec |-> 0]]

-----------------------------------------------------------------------------
(* hres_tick                                                               *)

\* call *gethrtimef, before the lock is taken.
gethrtime(c) ==
  /\ tick[c].pc = "out" /\ clock >= hres_last_tick + MinInterval
  /\ tick' = [tick EXCEPT ![c].pc = "lock", ![c].time = clock]
  /\ UNCHANGED <<clock, hres_lock, times, ordered, reader>>

\* The longest interval that tv_nsec and an adjustment can be added to.
LongestInterval == Word - NANOSEC - max_hres_adj

\* .CL1: xchgb of the low byte; .CL2 spins while it is not zero.
clock_lock(c) ==
  /\ tick[c].pc = "lock" /\ hres_lock % Byte = 0
  /\ hres_lock' = hres_lock + (Byte - 1)
  /\ tick' = [tick EXCEPT ![c].pc = "base", ![c].interval = tick[c].time - hres_last_tick]
  /\ ordered' = (ordered /\ tick[c].time - hres_last_tick \in MinInterval .. LongestInterval)
  /\ UNCHANGED <<clock, times, reader>>

\* .CL3: add the interval to hrtime_base ...
add_base(c) ==
  /\ tick[c].pc = "base"
  /\ hrtime_base' = hrtime_base + tick[c].interval
  /\ tick' = [tick EXCEPT ![c].pc = "nsec"]
  /\ UNCHANGED <<clock, hres_lock, hres_last_tick, tv_sec, tv_nsec, timedelta, hrestime_adj, applied, ordered, reader>>

\* ... and to hrestime.tv_nsec, and store hres_last_tick.
add_nsec(c) ==
  /\ tick[c].pc = "nsec"
  /\ tv_nsec' = (tv_nsec + tick[c].interval) % Word
  /\ hres_last_tick' = tick[c].time
  /\ tick' = [tick EXCEPT ![c].pc = "adj"]
  /\ UNCHANGED <<clock, hres_lock, hrtime_base, tv_sec, timedelta, hrestime_adj, applied, ordered, reader>>

\* Signed value of a pair of words.
Signed(msw, lsw) == (IF msw >= Word \div 2 THEN msw - Word ELSE msw) * Word + lsw

lsw(x) == x % Word
msw(x) == (x \div Word) % Word

\* Mutant: only the low word decides.
positive_large_lsw(x) == lsw(x) > max_hres_adj

\* subl %esi, max_hres_adj gives a borrow; adcl $-1, msw gives a carry.
positive_large(x) ==
  LET borrow == IF lsw(x) > max_hres_adj THEN 1 ELSE 0
  IN  msw(x) + (Word - 1) + borrow >= Word

\* addl max_hres_adj, lsw gives a carry; adcl $0, msw gives a carry.
negative_small(x) ==
  LET carry == IF lsw(x) + max_hres_adj >= Word THEN 1 ELSE 0
  IN  msw(x) + carry >= Word

\* .CL4: the sign is that of the high word of 0 - hrestime_adj.
positive(x) == msw(-x) >= Word \div 2

\* The adjustment that __adj_hrestime computes on words, as %edx:%ecx.
adj(x) ==
  IF x = 0 THEN 0
  ELSE IF positive(x)
       THEN IF positive_large(x) THEN max_hres_adj ELSE Signed(msw(x), lsw(x))
       ELSE IF negative_small(x) THEN Signed(msw(x), lsw(x))
                                 ELSE Signed(Word - 1, (Word - max_hres_adj) % Word)

\* Mutant: the adjustment leaves timedelta and does not reach tv_nsec.
adj_hrestime_dropped(c) ==
  /\ tick[c].pc = "adj"
  /\ timedelta' = timedelta - adj(hrestime_adj)
  /\ hrestime_adj' = timedelta'
  /\ applied' = applied + adj(hrestime_adj)
  /\ tick' = [tick EXCEPT ![c].pc = "carry", ![c].eax = tv_nsec]
  /\ UNCHANGED <<clock, hres_lock, hrtime_base, hres_last_tick, tv_sec, tv_nsec, ordered, reader>>

\* __adj_hrestime, .CL5: timedelta -= adj; hrestime_adj = timedelta;
\* tv_nsec + adj stays in %eax.
adj_hrestime(c) ==
  /\ tick[c].pc = "adj"
  /\ timedelta' = timedelta - adj(hrestime_adj)
  /\ hrestime_adj' = timedelta'
  /\ applied' = applied + adj(hrestime_adj)
  /\ tick' = [tick EXCEPT ![c].pc = "carry", ![c].eax = (tv_nsec + adj(hrestime_adj)) % Word]
  /\ UNCHANGED <<clock, hres_lock, hrtime_base, hres_last_tick, tv_sec, tv_nsec, ordered, reader>>

\* cmpl $NANOSEC, %eax; jb: an unsigned comparison.
second_full(eax) == eax >= NANOSEC

\* incl hrestime; addl $-NANOSEC, %eax.  The incl one_sec between the two, a
\* flag for clock(), is left out.
carry_second(c) ==
  /\ tick[c].pc = "carry" /\ second_full(tick[c].eax)
  /\ tv_sec' = tv_sec + 1
  /\ tick' = [tick EXCEPT ![c].eax = @ - NANOSEC]
  /\ UNCHANGED <<clock, hres_lock, hrtime_base, hres_last_tick, tv_nsec, timedelta, hrestime_adj, applied, ordered, reader>>

\* .CL8
store_nsec(c) ==
  /\ tick[c].pc = "carry" /\ ~second_full(tick[c].eax)
  /\ tv_nsec' = tick[c].eax
  /\ tick' = [tick EXCEPT ![c].pc = "release"]
  /\ UNCHANGED <<clock, hres_lock, hrtime_base, hres_last_tick, tv_sec, timedelta, hrestime_adj, applied, ordered, reader>>

\* Mutant: the byte is cleared as lock_clear() would.
release_byte(c) ==
  /\ tick[c].pc = "release"
  /\ hres_lock' = hres_lock - (Byte - 1)
  /\ tick' = [tick EXCEPT ![c] = [pc |-> "out", time |-> 0, interval |-> 0, eax |-> 0]]
  /\ UNCHANGED <<clock, times, ordered, reader>>

\* incl hres_lock: the byte goes from -1 to 0 and carries into the count.
release(c) ==
  /\ tick[c].pc = "release"
  /\ hres_lock' = hres_lock + 1
  /\ tick' = [tick EXCEPT ![c] = [pc |-> "out", time |-> 0, interval |-> 0, eax |-> 0]]
  /\ UNCHANGED <<clock, times, ordered, reader>>

hres_tick(c) ==
  \/ gethrtime(c) \/ clock_lock(c) \/ add_base(c) \/ add_nsec(c) \/ adj_hrestime(c)
  \/ carry_second(c) \/ store_nsec(c) \/ release(c)

-----------------------------------------------------------------------------
(* The environment                                                         *)

\* pc_gethrestime(): note hres_lock, read seconds and nanoseconds, and keep
\* them if hres_lock is what it was, without its lowest bit.
ReadLock(r) ==
  /\ reader[r].pc = "out"
  /\ reader' = [reader EXCEPT ![r].pc = "sec", ![r].lock = hres_lock]

ReadSec(r) ==
  /\ reader[r].pc = "sec"
  /\ reader' = [reader EXCEPT ![r].pc = "nsec", ![r].sec = tv_sec]

ReadNsec(r) ==
  /\ reader[r].pc = "nsec"
  /\ reader' = [reader EXCEPT ![r].pc = "check", ![r].nsec = tv_nsec]

ReadCheck(r) ==
  /\ reader[r].pc = "check"
  /\ reader' = [reader EXCEPT ![r].pc = "out", ![r].lock = 0, ![r].sec = 0, ![r].nsec = 0]

Read(r) ==
  /\ ReadLock(r) \/ ReadSec(r) \/ ReadNsec(r) \/ ReadCheck(r)
  /\ UNCHANGED <<clock, hres_lock, times, ordered, tick>>

\* adjtime(), under hres_lock.
adjtime ==
  /\ hres_lock % Byte = 0 /\ timedelta = 0
  /\ timedelta' \in Deltas
  /\ hrestime_adj' = timedelta'
  /\ hres_lock' = hres_lock + Byte
  /\ UNCHANGED <<clock, hrtime_base, hres_last_tick, tv_sec, tv_nsec, applied, ordered, tick, reader>>

Advance ==
  /\ clock < MaxClock
  /\ clock' = clock + 1
  /\ UNCHANGED <<hres_lock, times, ordered, tick, reader>>

HresNext == \/ \E c \in Ticker : hres_tick(c)
        \/ \E r \in Reader : Read(r)
        \/ adjtime \/ Advance

HresSpec == HresInit /\ [][HresNext]_hresVars

-----------------------------------------------------------------------------
Free == hres_lock % Byte = 0
\* The reader is about to accept what it read.
Accepts(r) ==
  reader[r].pc = "check" /\ reader[r].lock - (reader[r].lock % 2) = hres_lock

\* Words and bytes in range; while the lock is free a ticker is outside or
\* waits, and tv_nsec is less than a second.
HresTypeOK ==
  /\ tv_nsec \in 0 .. Word - 1 /\ tv_sec \in Nat /\ hres_lock \in Nat
  /\ hres_lock % Byte \in {0, Byte - 1}
  /\ \A c \in Ticker : tick[c].eax \in 0 .. Word - 1
  /\ Free => /\ tv_nsec < NANOSEC
             /\ \A c \in Ticker : tick[c].pc \in {"out", "lock"}

\* hrtime_base and hres_last_tick move together: their difference is the
\* same at every release, even when ticks are applied in another order than
\* their times were read.
HrtimeConserved == Free => hrtime_base - hres_last_tick = Base0

\* hrestime is the time of the last tick plus the adjustments applied, at
\* every release, unless a tick came too early, too late or out of order: no
\* second and no adjustment is lost or counted twice.
HrestimeTracks == Free /\ ordered => tv_sec * NANOSEC + tv_nsec = hres_last_tick + applied

\* hres_tick() keeps the two clocks in step with the time of the last tick,
\* and tv_nsec below a second, whichever processor ticks and in which order.
ClocksTrack == HresTypeOK /\ HrtimeConserved /\ HrestimeTracks

\* What adjtime() asked for is what is applied and still to be applied, in
\* steps of at most max_hres_adj in the direction of timedelta, as the C
\* text above __adj_hrestime has it.
ClampedAdjustment ==
  [][(applied' # applied \/ timedelta' # timedelta) =>
       \/ adjtime
       \/ /\ applied' - applied = timedelta - timedelta'
          /\ applied' - applied =
               IF hrestime_adj > max_hres_adj THEN max_hres_adj
               ELSE IF hrestime_adj < -max_hres_adj THEN -max_hres_adj ELSE hrestime_adj]_hresVars

\* A reader that accepts has seconds and nanoseconds of one moment at which
\* no tick was under way: with hres_lock unchanged they are the current ones.
NoTornRead == \A r \in Reader : Accepts(r) => <<reader[r].sec, reader[r].nsec>> = hrestime

\* "At worst, performing this now instead of under CLOCK_LOCK may introduce
\* some jitter": hrestime never runs a second ahead of the clock.
JitterAtWorst == Free => tv_sec * NANOSEC + tv_nsec < clock + applied + NANOSEC

=============================================================================
