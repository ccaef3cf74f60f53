------------------------------ MODULE RelayCtrl ------------------------------
(***************************************************************************)
(* The relay state machine of the Switching Unit (relay_ctrl.c): the three *)
(* relays, the five relay_* operations and the timer poll relay_tick, with *)
(* the debounced motor feedback as an input.                               *)
(*                                                                         *)
(* Time passes one millisecond at a time and the superloop calls           *)
(* relay_tick again within MaxLag milliseconds; that bound is an           *)
(* assumption about the other ticks of main.c, which never block longer    *)
(* than one byte of the software UART.                                     *)
(***************************************************************************)
EXTENDS Integers, Millis

CONSTANTS
  STARTER_MAX,    \* ms the starter winding is driven              (3000)
  STOP_PULSE,     \* ms the NC relay breaks the coil circuit        (500)
  COOLDOWN,       \* ms of rest before the next start            (170000)
  MOTOR_GRACE,    \* ms of RUNNING before the feedback counts      (2000)
  SECOND,         \* ms in the seconds that are reported           (1000)
  MaxLag          \* ms between two calls of relay_tick, at most

ASSUME TimingAssumption ==
  /\ STARTER_MAX \in Nat \ {0} /\ STOP_PULSE \in Nat \ {0}
  /\ COOLDOWN \in Nat \ {0} /\ MOTOR_GRACE \in Nat
  /\ SECOND \in Nat \ {0} /\ MaxLag \in Nat \ {0}
  /\ STARTER_MAX + MaxLag < CLOCK
  /\ COOLDOWN + MaxLag < CLOCK
  /\ STOP_PULSE + MaxLag < CLOCK
  /\ MOTOR_GRACE + 1 + MaxLag < CLOCK

RelayState == {"IDLE", "STARTING", "RUNNING", "STOPPING", "COOLDOWN", "LOCKED"}
Driving == {"STARTING", "RUNNING"}
Result == {"OK", "ERR_COOLDOWN", "ERR_ALREADY_ON", "ERR_ALREADY_OFF", "ERR_LOCKED"}

VARIABLES
  ms_counter,      \* systick.c
  state,
  state_enter_ms,
  large_no,        \* PC0: power to the starter winding
  small_no,        \* PC1: power to the contactor coil
  nc,              \* PC2: energised, it opens the coil's holding circuit
  motor,           \* motor_is_running(), the debounced feedback
  sent             \* what the last step handed to the caller or the UART

(* Observers: no action of the firmware reads them. *)
VARIABLES
  lag,             \* ms since relay_tick last ran
  wound,           \* ms the winding has been driven without a break
  dry,             \* ms the coil has been driven with no motor running
  rested,          \* ms since the coil was last driven, up to COOLDOWN
  waiver           \* what has cut that rest short: an unlock, a power cycle

relayVars == <<state, state_enter_ms, large_no, small_no, nc>>
observers == <<lag, wound, dry, rested, waiver>>
vars == <<ms_counter, relayVars, motor, sent, observers>>

Elapsed == Since(ms_counter, state_enter_ms)

Init ==
  /\ ms_counter = 0
  /\ state = "IDLE" /\ state_enter_ms = 0
  /\ large_no = FALSE /\ small_no = FALSE /\ nc = FALSE
  /\ motor = FALSE /\ sent = <<>>
  /\ lag = 0 /\ wound = 0 /\ dry = 0 /\ rested = COOLDOWN
  /\ waiver = "none"

-----------------------------------------------------------------------------
(* The helpers of relay_ctrl.c. *)

(* The definitions named ...Bug are the next one with a mistake in it: the *)
(* properties below have been seen to catch them.                          *)
EnterState(s) == state' = s /\ state_enter_ms' = ms_counter

AllRelaysSafe == large_no' = FALSE /\ small_no' = FALSE /\ nc' = FALSE

BreakCircuitBug == AllRelaysSafe

BreakCircuit == large_no' = FALSE /\ small_no' = FALSE /\ nc' = TRUE

(* Seconds, rounded down; 0 in every state but COOLDOWN. *)
CooldownRemaining ==
  IF state = "COOLDOWN" /\ Elapsed < COOLDOWN
  THEN (COOLDOWN - Elapsed) \div SECOND ELSE 0

Answer(result) == sent' = <<"result", result, CooldownRemaining>>
Event(evt, payload) == sent' = <<"event", evt, payload>>

(* A refused request changes nothing but the answer. *)
Refuse(states, result) ==
  /\ state \in states
  /\ Answer(result)
  /\ UNCHANGED relayVars

(* What the observers see of a step that takes no time. *)
Observe ==
  /\ wound' = IF large_no' THEN wound ELSE 0
  /\ dry' = IF small_no' /\ ~motor' THEN dry ELSE 0
  /\ rested' = IF small_no' THEN 0 ELSE rested
  /\ waiver' = CASE small_no' -> "none"
                 [] state = "LOCKED" /\ state' = "IDLE" -> "unlock"
                 [] OTHER -> waiver

InOneGo == UNCHANGED <<ms_counter, motor, lag>> /\ Observe

-----------------------------------------------------------------------------
(* The operations. *)

RelayPumpOnBug ==
  /\ \/ /\ state \in {"IDLE", "STARTING"}
        /\ large_no' = TRUE /\ small_no' = TRUE
        /\ EnterState("STARTING")
        /\ Answer("OK")
        /\ UNCHANGED nc
     \/ Refuse({"RUNNING"}, "ERR_ALREADY_ON")
     \/ Refuse({"COOLDOWN", "STOPPING"}, "ERR_COOLDOWN")
     \/ Refuse({"LOCKED"}, "ERR_LOCKED")
  /\ InOneGo

RelayPumpOn ==
  /\ \/ /\ state = "IDLE"
        /\ large_no' = TRUE /\ small_no' = TRUE
        /\ EnterState("STARTING")
        /\ Answer("OK")
        /\ UNCHANGED nc
     \/ Refuse(Driving, "ERR_ALREADY_ON")
     \/ Refuse({"COOLDOWN", "STOPPING"}, "ERR_COOLDOWN")
     \/ Refuse({"LOCKED"}, "ERR_LOCKED")
  /\ InOneGo

RelayPumpOff ==
  /\ \/ /\ state \in Driving
        /\ BreakCircuit
        /\ EnterState("STOPPING")
        /\ Answer("OK")
     \/ Refuse({"IDLE", "COOLDOWN", "STOPPING"}, "ERR_ALREADY_OFF")
     \/ Refuse({"LOCKED"}, "ERR_LOCKED")
  /\ InOneGo

RelayPumpLock ==
  /\ BreakCircuit
  /\ EnterState("LOCKED")
  /\ Answer("OK")
  /\ InOneGo

RelayPumpUnlock ==
  /\ \/ /\ state = "LOCKED"
        /\ nc' = FALSE
        /\ EnterState("IDLE")
        /\ Answer("OK")
        /\ UNCHANGED <<large_no, small_no>>
     \/ Refuse(RelayState \ {"LOCKED"}, "ERR_ALREADY_OFF")
  /\ InOneGo

-----------------------------------------------------------------------------
(* relay_tick: one disjunct per case of its switch that acts, and one for  *)
(* the calls on which no timer is due.                                     *)

MotorLostBug == state = "RUNNING" /\ Elapsed > MOTOR_GRACE + COOLDOWN /\ ~motor
RestDueBug == state = "COOLDOWN" /\ Elapsed >= STOP_PULSE
RestDueUnitBug == state = "COOLDOWN" /\ Elapsed >= COOLDOWN * SECOND
StarterDue == state = "STARTING" /\ Elapsed >= STARTER_MAX
MotorLost  == state = "RUNNING" /\ Elapsed > MOTOR_GRACE /\ ~motor
PulseDue   == state = "STOPPING" /\ Elapsed >= STOP_PULSE
RestDue    == state = "COOLDOWN" /\ Elapsed >= COOLDOWN

ReleaseStarter ==
  /\ StarterDue
  /\ large_no' = FALSE
  /\ EnterState("RUNNING")
  /\ sent' = <<>>
  /\ UNCHANGED <<small_no, nc>>

TripOnMotorLoss ==
  /\ MotorLost
  /\ AllRelaysSafe
  /\ EnterState("COOLDOWN")
  /\ Event("COOLDOWN_STARTED", COOLDOWN \div SECOND)

EndStopPulse ==
  /\ PulseDue
  /\ nc' = FALSE
  /\ EnterState("COOLDOWN")
  /\ Event("COOLDOWN_STARTED", COOLDOWN \div SECOND)
  /\ UNCHANGED <<large_no, small_no>>

EndCooldown ==
  /\ RestDue
  /\ EnterState("IDLE")
  /\ Event("COOLDOWN_ENDED", 0)
  /\ UNCHANGED <<large_no, small_no, nc>>

NothingDue ==
  /\ ~StarterDue /\ ~MotorLost /\ ~PulseDue /\ ~RestDue
  /\ sent' = <<>>
  /\ UNCHANGED relayVars

RelayTick ==
  /\ ReleaseStarter \/ TripOnMotorLoss \/ EndStopPulse \/ EndCooldown \/ NothingDue
  /\ lag' = 0
  /\ UNCHANGED <<ms_counter, motor>>
  /\ Observe

-----------------------------------------------------------------------------
(* The environment of the module: the clock, the feedback and the supply.  *)

Millisecond ==
  /\ lag < MaxLag
  /\ ms_counter' = Following(ms_counter)
  /\ lag' = lag + 1
  /\ wound' = IF large_no THEN wound + 1 ELSE 0
  /\ dry' = IF small_no /\ ~motor THEN dry + 1 ELSE 0
  /\ rested' = IF ~small_no /\ rested < COOLDOWN THEN rested + 1 ELSE rested
  /\ sent' = <<>>
  /\ UNCHANGED <<relayVars, motor, waiver>>

(* The motor starts or stops: our relays, the Green and the Red button, an *)
(* overload.                                                               *)
MotorChanges ==
  /\ motor' = ~motor
  /\ sent' = <<>>
  /\ UNCHANGED <<ms_counter, relayVars, lag>>
  /\ Observe

(* Reset or brown-out: RAM is lost, relay_init and motor_detect_init run   *)
(* before ms_counter moves.  The real rest goes on.                        *)
PowerCycle ==
  /\ AllRelaysSafe
  /\ ms_counter' = 0
  /\ state' = "IDLE" /\ state_enter_ms' = 0
  /\ sent' = <<>>
  /\ lag' = 0 /\ wound' = 0 /\ dry' = 0
  /\ rested' = IF small_no THEN 0 ELSE rested
  /\ waiver' = "power"
  /\ motor' \in BOOLEAN

Next == \/ RelayPumpOn \/ RelayPumpOff \/ RelayPumpLock \/ RelayPumpUnlock
        \/ RelayTick \/ Millisecond \/ MotorChanges \/ PowerCycle

Safety == Init /\ [][Next]_vars

(* The superloop never stops calling relay_tick and TIM2 never stops. *)
Spec == Safety /\ WF_vars(RelayTick) /\ WF_vars(Millisecond)

-----------------------------------------------------------------------------
(***************************************************************************)
(* Properties.                                                             *)
(***************************************************************************)

StarterLimit == STARTER_MAX - 1 + MaxLag
DryLimit     == STARTER_MAX - 1 + MOTOR_GRACE + 2 * MaxLag

TypeOK ==
  /\ ms_counter \in Instant /\ state_enter_ms \in Instant
  /\ state \in RelayState
  /\ large_no \in BOOLEAN /\ small_no \in BOOLEAN /\ nc \in BOOLEAN
  /\ motor \in BOOLEAN
  /\ lag \in 0 .. MaxLag /\ wound \in Nat /\ dry \in Nat
  /\ rested \in 0 .. COOLDOWN
  /\ waiver \in {"none", "unlock", "power"}

(* The relays agree with the state machine at every instant: the winding   *)
(* is driven only in the start sequence, the coil only while the pump is   *)
(* commanded on, and the NC contact is never open while either is driven.  *)
RelaysMatchState ==
  /\ large_no <=> (state = "STARTING")
  /\ small_no <=> (state \in Driving)
  /\ nc <=> (state \in {"STOPPING", "LOCKED"})

(* The starter winding is never driven longer than its limit plus one      *)
(* round of the superloop, whatever requests arrive during the start.      *)
StarterBounded == wound <= StarterLimit

(* The types, the relays and the starter winding (TypeOK,                  *)
(* RelaysMatchState, StarterBounded): what the board drives, at any        *)
(* instant, is what the state machine says, and never for too long.        *)
WindingInv == TypeOK /\ RelaysMatchState /\ StarterBounded

(* A coil whose motor does not run is let go of within the start sequence, *)
(* the grace period and two rounds of the superloop -- also when           *)
(* ms_counter wraps and the grace period appears to begin again.           *)
DryRunBounded == dry <= DryLimit

(* Between two runs of the coil lie COOLDOWN milliseconds, unless an       *)
(* unlock or a power cycle put the state machine back to IDLE.             *)
CoilTurnsOn == ~small_no /\ small_no'
RestBeforeStart == [][CoilTurnsOn => rested = COOLDOWN \/ waiver # "none"]_vars

(* The abstract actuator, seen through the relay state machine.            *)
Actuator == INSTANCE PumpActuator WITH
  mode <- CASE state = "IDLE" -> "ready"
            [] state \in Driving -> "on"
            [] state \in {"STOPPING", "COOLDOWN"} -> "resting"
            [] OTHER -> "locked",
  winding <- large_no,
  rested <- IF waiver = "none" THEN rested ELSE COOLDOWN

(* Every step of the relay state machine is a step its callers may rely on *)
(* or changes nothing they can see: in particular no path but the rest     *)
(* itself, an unlock or a power cycle makes the pump startable again.      *)
ActuatorSafety == Actuator!Safety

(* The superloop alone ends every start sequence and every rest.           *)
ActuatorLiveness == Actuator!Liveness
=============================================================================
