------------------------------- MODULE Millis -------------------------------
(***************************************************************************)
(* The millisecond timebase of the Switching Unit (systick.c).             *)
(*                                                                         *)
(* ms_counter is a uint32_t: it wraps after CLOCK = 2^32 ms (49.7 days),   *)
(* and every timing decision of the firmware subtracts two of its values   *)
(* as unsigned integers.  CLOCK is a parameter so that TLC can meet the    *)
(* wrap-around, and the proofs can be for every width.                     *)
(***************************************************************************)
EXTENDS Naturals

CONSTANT CLOCK

ASSUME ClockAssumption == CLOCK \in Nat \ {0}

Instant == 0 .. CLOCK - 1

(* ms_counter++ in TIM2_IRQHandler. *)
Following(now) == IF now = CLOCK - 1 THEN 0 ELSE now + 1

(* now - then on uint32_t. *)
Since(now, then) == IF then <= now THEN now - then ELSE (now + CLOCK) - then
=============================================================================
