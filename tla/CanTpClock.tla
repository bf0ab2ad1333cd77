---------------------------- MODULE CanTpClock -----------------------------
(***************************************************************************)
(* CanTp_NowMs, the millisecond clock of drivers/can/cantp/Cantp.c: an     *)
(* unsigned counter that CanTp_MainFunction increments and that wraps.     *)
(***************************************************************************)
EXTENDS Integers

CONSTANT ClockModulus       \* CanTp_NowMs is a uint32_t (2^32)

ASSUME ClockConfig == ClockModulus \in Nat /\ ClockModulus > 1

Clock == 0..(ClockModulus - 1)

NextMs(t) == (t + 1) % ClockModulus

Elapsed(now, start) == (now - start) % ClockModulus

\* mutant: timestamps compared without the wrap-around
HasElapsedNoWrap(now, start, duration) == now >= start + duration

HasElapsed(now, start, duration) == Elapsed(now, start) >= duration

AttemptIsDue(now, due) == 2 * Elapsed(now, due) < ClockModulus

============================================================================
