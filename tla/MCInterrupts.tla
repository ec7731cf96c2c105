---------------------------- MODULE MCInterrupts -----------------------------
(***************************************************************************)
(* Priority levels and the clock tick, which share no state, in one run:   *)
(* the subject is chosen at the start and takes all the steps.             *)
(*                                                                         *)
(* Levels: the real ones, with devices below, at and above LOCK_LEVEL.     *)
(* Tick: words of 14 values and seconds of 3 nanoseconds, so that a word   *)
(* holds four seconds and a remainder, as 2^32 nanoseconds do, and         *)
(* adjustments of one word and of two, in both directions.                 *)
(***************************************************************************)
EXTENDS Spl, HresTick, TLC

VARIABLE subject

mcVars == <<subject, vars, hresVars>>

OfSpl(A) == subject = "spl" /\ A /\ UNCHANGED <<subject, hresVars>>
OfHres(A) == subject = "hres" /\ A /\ UNCHANGED <<subject, vars>>

MCInit == subject \in {"spl", "hres"} /\ Init /\ HresInit
MCNext == OfSpl(Next) \/ OfHres(HresNext)
MCSpec == MCInit /\ [][MCNext]_mcVars

Adjustments == {-16, -2, 15}

\* The processors that tick are alike.
Tickers == Permutations(Ticker)

=============================================================================
