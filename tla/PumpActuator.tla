---------------------------- MODULE PumpActuator ----------------------------
(***************************************************************************)
(* What the Switching Unit promises to whoever commands the pump, without  *)
(* its relays, its timers or its polling loop: the contactor coil is       *)
(* driven from a Start to the matching Stop, the starter winding only in   *)
(* the first part of that run, and after a run the actuator rests for      *)
(* COOLDOWN milliseconds before it accepts a Start again.  An unlock and a *)
(* loss of power count as a full rest.                                     *)
(***************************************************************************)
EXTENDS Naturals

CONSTANT COOLDOWN

VARIABLES
  mode,      \* "ready", "on", "resting" or "locked"
  winding,   \* the starter winding is energised
  rested     \* ms of rest since the last run, up to COOLDOWN

vars == <<mode, winding, rested>>

Init == mode = "ready" /\ winding = FALSE /\ rested = COOLDOWN

Start == /\ mode = "ready"
         /\ mode' = "on" /\ winding' = TRUE /\ rested' = 0

DropWinding == /\ mode = "on" /\ winding
               /\ winding' = FALSE
               /\ UNCHANGED <<mode, rested>>

Stop == /\ mode = "on"
        /\ mode' = "resting" /\ winding' = FALSE
        /\ UNCHANGED rested

Recover == /\ mode = "resting" /\ rested = COOLDOWN
           /\ mode' = "ready"
           /\ UNCHANGED <<winding, rested>>

Lock == /\ mode' = "locked" /\ winding' = FALSE
        /\ UNCHANGED rested

Unlock == /\ mode = "locked"
          /\ mode' = "ready" /\ rested' = COOLDOWN
          /\ UNCHANGED winding

PowerCycle == mode' = "ready" /\ winding' = FALSE /\ rested' = COOLDOWN

Rest == /\ mode # "on" /\ rested < COOLDOWN
        /\ rested' = rested + 1
        /\ UNCHANGED <<mode, winding>>

Next == \/ Start \/ DropWinding \/ Stop \/ Recover
        \/ Lock \/ Unlock \/ PowerCycle \/ Rest

(* The winding is let go of, and a rest comes to its end, without anyone   *)
(* asking for it.                                                          *)
Liveness == WF_vars(DropWinding) /\ WF_vars(Rest) /\ WF_vars(Recover)

Safety == Init /\ [][Next]_vars

Spec == Safety /\ Liveness
=============================================================================
