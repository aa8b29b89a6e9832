---------------------------- MODULE LogicalClock ----------------------------
(***************************************************************************)
(* What a call of the hybrid logical clock of src/cluster/tempo/clock.rs   *)
(* makes of it.  `now' is a reading of the system clock, which may go      *)
(* backwards.                                                              *)
(***************************************************************************)
EXTENDS Integers

Larger(a, b) == IF a >= b THEN a ELSE b

\* tick: the stamp of a new event.
TickedByTime(current, now) == Larger(current, now)                  \* mutant
Ticked(current, now) == Larger(current + 1, now)

\* update: the clock when a stamp was received.
UpdatedNoReceived(current, received, now) == Larger(current, now)   \* mutant
Updated(current, received, now) == Larger(Larger(current, received), now)
=============================================================================
