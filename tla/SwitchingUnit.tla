---------------------------- MODULE SwitchingUnit ----------------------------
(***************************************************************************)
(* The Switching Unit at work: the superloop of main.c calls               *)
(* comm_protocol_tick, motor_detect_tick and relay_tick in that order,     *)
(* while the mains contactor it commands -- which also obeys the Green and *)
(* the Red button, and holds itself once it is closed -- moves on its own. *)
(*                                                                         *)
(* RelayCtrl and MotorDetect are taken as they are and joined: the         *)
(* debounced feedback of one is the motor input of the other, and the      *)
(* state of the relays is the source from which the other labels events.   *)
(***************************************************************************)
EXTENDS RelayCtrl

CONSTANTS DEBOUNCE_INTERVAL, DEBOUNCE_THRESHOLD, MaxPoll

VARIABLES
  pin, last_sample, sample_count, last_sample_ms, report,
  unpolled, held, span,
  pc,         \* the tick the superloop calls next: "comm", "motor" or "relay"
  holder,     \* who keeps the contactor closed, if not the coil relay
  open        \* ms the coil has been driven with the contactor open

Motor == INSTANCE MotorDetect WITH current_state <- motor, rstate <- state

(* A level is believed long before the start sequence is over: after some  *)
(* 30 ms of 3000.                                                          *)
ASSUME DebounceAssumption ==
  /\ DEBOUNCE_INTERVAL \in Nat \ {0} /\ DEBOUNCE_THRESHOLD \in Nat \ {0}
  /\ MaxPoll \in Nat \ {0}
  /\ DEBOUNCE_INTERVAL + MaxPoll < CLOCK
  /\ Motor!Settled <= STARTER_MAX

relayOwn == <<relayVars, sent, observers>>
sampling == <<last_sample, sample_count, last_sample_ms, unpolled, held, span>>
unitVars == <<ms_counter, relayOwn, motor, sampling, report, pin, pc, holder, open>>

(* The contactor is open when the unit is first powered. *)
UnitInit == /\ Init /\ Motor!Init /\ pin = FALSE
            /\ pc = "comm" /\ holder = "none" /\ open = 0

-----------------------------------------------------------------------------
(* The superloop. *)

Then(next) == pc' = next

(* While frames wait, comm_protocol_tick carries out their commands.       *)
PumpOn == RelayPumpOn
PumpOff == RelayPumpOff
PumpLock == RelayPumpLock
PumpUnlock == RelayPumpUnlock

Command ==
  /\ pc = "comm"
  /\ PumpOn \/ PumpOff \/ PumpLock \/ PumpUnlock
  /\ report' = <<>>
  /\ open' = IF small_no' THEN open ELSE 0
  /\ holder' = IF pin /\ nc /\ ~nc' THEN "unlock" ELSE holder
  /\ UNCHANGED <<pin, sampling, pc>>

CommDone ==
  /\ pc = "comm" /\ Then("motor")
  /\ UNCHANGED <<ms_counter, relayOwn, motor, sampling, report, pin, holder, open>>

MotorTick ==
  /\ pc = "motor" /\ Then("relay")
  /\ Motor!MotorDetectTick
  /\ IF motor' # motor
     THEN MotorChanges
     ELSE UNCHANGED relayOwn
  /\ UNCHANGED <<holder, open>>

RelayRound ==
  /\ pc = "relay" /\ Then("comm")
  /\ RelayTick
  /\ holder' = IF TripOnMotorLoss /\ pin THEN "trip" ELSE holder
  /\ open' = IF small_no' THEN open ELSE 0
  /\ report' = <<>>
  /\ UNCHANGED <<pin, sampling>>

-----------------------------------------------------------------------------
(* The contactor and the people at the panel. *)

ContactMoves(who) ==
  /\ Motor!PinChanges
  /\ holder' = who
  /\ open' = 0
  /\ UNCHANGED <<relayOwn, pc>>

(* The coil relay pulls the contactor in, sooner or later. *)
PullIn == ~pin /\ small_no /\ ~nc /\ ContactMoves("none")

GreenButton == ~pin /\ ~nc /\ ContactMoves("green")

(* The open NC relay interrupts the coil. *)
DropOut == pin /\ nc /\ ContactMoves("none")

(* The Red button, an overload, a dip of the mains.  The coil relay may    *)
(* pull the contactor in again.                                            *)
ExternalStop == pin /\ ~nc /\ ContactMoves("none")

(* An interrupted coil lets the contactor fall within a millisecond.       *)
TimePasses ==
  /\ ~(pin /\ nc)
  /\ Millisecond /\ Motor!Millisecond
  /\ open' = IF small_no /\ ~pin THEN open + 1 ELSE 0
  /\ UNCHANGED <<pc, holder>>

(* The Switching Unit restarts; a closed contactor keeps itself closed.    *)
Reboot ==
  /\ PowerCycle /\ Motor!PowerCycle
  /\ pc' = "comm" /\ open' = 0
  /\ holder' = IF pin /\ holder = "none" THEN "power" ELSE holder

UnitNext == \/ Command \/ CommDone \/ MotorTick \/ RelayRound
            \/ PullIn \/ GreenButton \/ DropOut \/ ExternalStop
            \/ TimePasses \/ Reboot

UnitSpec == UnitInit /\ [][UnitNext]_unitVars

-----------------------------------------------------------------------------
(***************************************************************************)
(* Properties.                                                             *)
(***************************************************************************)

UnitTypeOK ==
  /\ TypeOK /\ Motor!TypeOK
  /\ pc \in {"comm", "motor", "relay"}
  /\ holder \in {"none", "green", "trip", "unlock", "power"}
  /\ open \in Nat

(* A coil that does not get its contactor to close, or whose contactor has *)
(* been opened for good, is let go of within the limit of the relay timers *)
(* alone: the debounce window never adds to it, early in a run or late,    *)
(* also when ms_counter wraps and a grace period appears to begin again.   *)
OpenCoilReleased == open <= DryLimit

(* Once the unit has stopped driving the coil, the contactor is open, or   *)
(* somebody pressed Green, or the unit restarted, tripped, or unlocked     *)
(* while the contactor was still closed: a stop pulse always works.        *)
StoppedUnlessHeld == pin /\ ~small_no /\ ~nc => holder # "none"

(* A level of the feedback that holds for three late samples is believed   *)
(* (motor_detect_tick): relay_tick never works for longer than that with a *)
(* feedback that is out of date.                                           *)
DetectedInTime == Motor!DetectedInTime

(* A glitch of the feedback is never believed, across the wrap of the      *)
(* counter and with late polls, wherever the superloop and its commands    *)
(* stand: only the boot trusts a single reading.                           *)
GlitchFree == Motor!GlitchFree

(* The types, and the debounced level is never out of date for longer than *)
(* three late samples take (DetectedInTime).                               *)
DebounceInv == UnitTypeOK /\ DetectedInTime
=============================================================================
