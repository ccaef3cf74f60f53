-------------------------- MODULE SwitchingUnitProofs --------------------------
(***************************************************************************)
(* The Switching Unit, proved for every value of its timings and every     *)
(* width of ms_counter, as long as TimingAssumption and DebounceAssumption *)
(* hold: first its relay state machine alone, then the unit at work.       *)
(***************************************************************************)
EXTENDS SwitchingUnit, TLAPS

(* In the start sequence the observer of the winding and the timer of the  *)
(* state machine agree, and the last poll saw that the limit was not yet   *)
(* reached; in every other state the winding is off.                       *)
StarterInv ==
  /\ state = "STARTING" => wound = Elapsed /\ wound <= STARTER_MAX - 1 + lag
  /\ state # "STARTING" => wound = 0

(* While the pump is on, either the motor was seen running at the last     *)
(* poll, or the grace period was not over then and the coil has been dry   *)
(* at most since the start sequence began.                                 *)
DryInv ==
  /\ motor => dry = 0
  /\ state = "STARTING" => dry <= wound
  /\ state = "RUNNING" =>
       \/ dry <= lag
       \/ Elapsed - lag <= MOTOR_GRACE /\ dry <= StarterLimit + Elapsed
  /\ state \notin Driving => dry = 0

(* The cooldown timer never runs ahead of the real rest of the coil, and   *)
(* IDLE means that the rest is over or was cut short.                      *)
RestInv ==
  /\ state \in Driving => rested = 0 /\ waiver = "none"
  /\ state = "COOLDOWN" => rested = COOLDOWN \/ Elapsed <= rested
  /\ state = "IDLE" => rested = COOLDOWN \/ waiver # "none"

IInv == TypeOK /\ RelaysMatchState /\ StarterInv /\ DryInv /\ RestInv

-----------------------------------------------------------------------------
(* Arithmetic of the wrapping millisecond counter, for every width. *)

(* The difference of two counter values is again a counter value, and it is *)
(* 0 when they are equal.                                                   *)
LEMMA SinceType ==
  ASSUME NEW now \in Instant, NEW then \in Instant
  PROVE  Since(now, then) \in Instant /\ Since(now, now) = 0
BY ClockAssumption DEF Instant, Since

(* One interrupt later the difference has grown by one, or wrapped to 0.    *)
LEMMA SinceFollowing ==
  ASSUME NEW now \in Instant, NEW then \in Instant
  PROVE  /\ Following(now) \in Instant
         /\ Since(Following(now), then)
              = IF Since(now, then) = CLOCK - 1 THEN 0 ELSE Since(now, then) + 1
BY ClockAssumption DEF Instant, Since, Following

-----------------------------------------------------------------------------
LEMMA InitIInv == Init => IInv
<1> SUFFICES ASSUME Init PROVE IInv
  OBVIOUS
<1>1. TypeOK
  <2>1. ms_counter \in Instant /\ state_enter_ms \in Instant
    BY ClockAssumption DEF Init, Instant
  <2>2. lag \in 0 .. MaxLag /\ rested \in 0 .. COOLDOWN
    BY TimingAssumption DEF Init
  <2> QED BY <2>1, <2>2 DEF Init, TypeOK, RelayState
<1>2. RelaysMatchState
  BY DEF Init, RelaysMatchState, Driving
<1>3. StarterInv /\ DryInv /\ RestInv
  BY DEF Init, StarterInv, DryInv, RestInv, Driving
<1> QED BY <1>1, <1>2, <1>3 DEF IInv

(* Entering a state starts its timer at 0. *)
LEMMA EnterStateElapsed ==
  ASSUME IInv, NEW s \in RelayState, EnterState(s), ms_counter' = ms_counter
  PROVE  Elapsed' = 0
<1>1. Elapsed' = Since(ms_counter, ms_counter)
  BY DEF Elapsed, EnterState, Since
<1> QED BY <1>1, SinceType DEF IInv, TypeOK

(* A step that keeps the clock and the state keeps the timer. *)
LEMMA SameElapsed ==
  ASSUME UNCHANGED relayVars, ms_counter' = ms_counter
  PROVE  Elapsed' = Elapsed
BY DEF relayVars, Elapsed, Since

(* An action that takes no time and asks for nothing of the relays. *)
LEMMA QuietIInv ==
  ASSUME IInv, UNCHANGED <<ms_counter, lag>>, UNCHANGED relayVars,
         motor' \in BOOLEAN, Observe
  PROVE  IInv'
<1>1. Elapsed' = Elapsed
  BY SameElapsed
<1> QED
  BY <1>1, TimingAssumption
  DEF IInv, TypeOK, RelaysMatchState, StarterInv, DryInv, RestInv, Observe,
      relayVars, Driving, RelayState, StarterLimit

-----------------------------------------------------------------------------
(* The requests. *)

LEMMA PumpOnIInv == IInv /\ RelayPumpOn => IInv'
<1> SUFFICES ASSUME IInv, RelayPumpOn PROVE IInv'
  OBVIOUS
<1>q. UNCHANGED <<ms_counter, lag, motor>> /\ Observe
  BY DEF RelayPumpOn, InOneGo
<1>1. CASE UNCHANGED relayVars
  BY <1>1, <1>q, QuietIInv DEF IInv, TypeOK
<1>2. CASE /\ state = "IDLE" /\ large_no' = TRUE /\ small_no' = TRUE
           /\ EnterState("STARTING") /\ UNCHANGED nc
  <2>1. Elapsed' = 0
    BY <1>2, <1>q, EnterStateElapsed DEF RelayState
  <2>2. TypeOK' /\ RelaysMatchState'
    BY <1>2, <1>q, TimingAssumption
    DEF IInv, TypeOK, RelaysMatchState, EnterState, Observe, RelayState, Driving
  <2>3. StarterInv' /\ DryInv' /\ RestInv'
    BY <1>2, <1>q, <2>1, TimingAssumption
    DEF IInv, TypeOK, RelaysMatchState, StarterInv, DryInv, RestInv,
        EnterState, Observe, Driving
  <2> QED BY <2>2, <2>3 DEF IInv
<1> QED BY <1>1, <1>2 DEF RelayPumpOn, Refuse

(* Breaking the circuit ends the start sequence and the run. *)
LEMMA BreakCircuitIInv ==
  ASSUME IInv, BreakCircuit, NEW s \in {"STOPPING", "LOCKED"}, EnterState(s),
         InOneGo
  PROVE  IInv'
<1>q. UNCHANGED <<ms_counter, lag, motor>> /\ Observe
  BY DEF InOneGo
<1>1. TypeOK' /\ RelaysMatchState'
  BY <1>q DEF IInv, TypeOK, RelaysMatchState, BreakCircuit, EnterState,
              Observe, RelayState, Driving
<1>2. StarterInv' /\ DryInv' /\ RestInv'
  BY <1>q DEF IInv, TypeOK, StarterInv, DryInv, RestInv, BreakCircuit,
              EnterState, Observe, Driving
<1> QED BY <1>1, <1>2 DEF IInv

LEMMA PumpOffIInv == IInv /\ RelayPumpOff => IInv'
<1> SUFFICES ASSUME IInv, RelayPumpOff PROVE IInv'
  OBVIOUS
<1>q. UNCHANGED <<ms_counter, lag, motor>> /\ Observe /\ InOneGo
  BY DEF RelayPumpOff, InOneGo
<1>1. CASE UNCHANGED relayVars
  BY <1>1, <1>q, QuietIInv DEF IInv, TypeOK
<1>2. CASE BreakCircuit /\ EnterState("STOPPING")
  BY <1>2, <1>q, BreakCircuitIInv
<1> QED BY <1>1, <1>2 DEF RelayPumpOff, Refuse

LEMMA PumpLockIInv == IInv /\ RelayPumpLock => IInv'
BY BreakCircuitIInv DEF RelayPumpLock

LEMMA PumpUnlockIInv == IInv /\ RelayPumpUnlock => IInv'
<1> SUFFICES ASSUME IInv, RelayPumpUnlock PROVE IInv'
  OBVIOUS
<1>q. UNCHANGED <<ms_counter, lag, motor>> /\ Observe
  BY DEF RelayPumpUnlock, InOneGo
<1>1. CASE UNCHANGED relayVars
  BY <1>1, <1>q, QuietIInv DEF IInv, TypeOK
<1>2. CASE /\ state = "LOCKED" /\ nc' = FALSE /\ EnterState("IDLE")
           /\ UNCHANGED <<large_no, small_no>>
  <2>1. TypeOK' /\ RelaysMatchState'
    BY <1>2, <1>q DEF IInv, TypeOK, RelaysMatchState, EnterState, Observe,
                      RelayState, Driving
  <2>2. StarterInv' /\ DryInv' /\ RestInv'
    BY <1>2, <1>q DEF IInv, TypeOK, RelaysMatchState, StarterInv, DryInv,
                      RestInv, EnterState, Observe, Driving
  <2> QED BY <2>1, <2>2 DEF IInv
<1> QED BY <1>1, <1>2 DEF RelayPumpUnlock, Refuse

-----------------------------------------------------------------------------
(* relay_tick, one step for each thing that may be due. *)

LEMMA TickIInv == IInv /\ RelayTick => IInv'
<1> SUFFICES ASSUME IInv, RelayTick PROVE IInv'
  OBVIOUS
<1>q. lag' = 0 /\ UNCHANGED <<ms_counter, motor>> /\ Observe
  BY DEF RelayTick
<1>t. /\ lag' \in 0 .. MaxLag /\ wound' \in Nat /\ dry' \in Nat
      /\ rested' \in 0 .. COOLDOWN
      /\ waiver' \in {"none", "unlock", "power"}
      /\ motor' => dry' = 0
  BY <1>q, TimingAssumption DEF IInv, TypeOK, Observe
<1>e. Elapsed \in Instant
  BY SinceType DEF Elapsed, IInv, TypeOK
<1>1. CASE ReleaseStarter
  <2>1. Elapsed' = 0
    BY <1>1, <1>q, EnterStateElapsed DEF ReleaseStarter, RelayState
  <2>2. TypeOK' /\ RelaysMatchState'
    BY <1>1, <1>q, <1>t DEF ReleaseStarter, StarterDue, IInv, TypeOK,
       RelaysMatchState, EnterState, RelayState, Driving
  <2>3. StarterInv' /\ RestInv'
    BY <1>1, <1>q DEF ReleaseStarter, StarterDue, IInv, RelaysMatchState,
       StarterInv, RestInv, EnterState, Observe, Driving
  <2>4. dry' <= StarterLimit
    BY <1>1, <1>q, TimingAssumption DEF ReleaseStarter, StarterDue, IInv,
       TypeOK, StarterInv, DryInv, Observe, StarterLimit
  <2>5. DryInv'
    BY <1>1, <1>q, <1>t, <2>1, <2>4, TimingAssumption
    DEF ReleaseStarter, DryInv, EnterState, Driving, StarterLimit
  <2> QED BY <2>2, <2>3, <2>5 DEF IInv
<1>2. CASE TripOnMotorLoss
  <2>1. Elapsed' = 0
    BY <1>2, <1>q, EnterStateElapsed DEF TripOnMotorLoss, RelayState
  <2>2. TypeOK' /\ RelaysMatchState'
    BY <1>2, <1>q, <1>t DEF TripOnMotorLoss, AllRelaysSafe, IInv, TypeOK,
       RelaysMatchState, EnterState, RelayState, Driving
  <2>3. StarterInv' /\ DryInv' /\ RestInv'
    BY <1>2, <1>q, <1>t, <2>1 DEF TripOnMotorLoss, AllRelaysSafe, StarterInv,
       DryInv, RestInv, EnterState, Observe, Driving
  <2> QED BY <2>2, <2>3 DEF IInv
<1>3. CASE EndStopPulse
  <2>1. Elapsed' = 0
    BY <1>3, <1>q, EnterStateElapsed DEF EndStopPulse, RelayState
  <2>2. TypeOK' /\ RelaysMatchState'
    BY <1>3, <1>q, <1>t DEF EndStopPulse, PulseDue, IInv, TypeOK,
       RelaysMatchState, EnterState, RelayState, Driving
  <2>3. StarterInv' /\ DryInv' /\ RestInv'
    BY <1>3, <1>q, <1>t, <2>1 DEF EndStopPulse, PulseDue, IInv, TypeOK,
       RelaysMatchState, StarterInv, DryInv, RestInv, EnterState, Observe,
       Driving
  <2> QED BY <2>2, <2>3 DEF IInv
<1>4. CASE EndCooldown
  <2>1. rested = COOLDOWN
    BY <1>4, <1>e, TimingAssumption, ClockAssumption
    DEF EndCooldown, RestDue, IInv, TypeOK, RestInv, Instant
  <2>2. TypeOK' /\ RelaysMatchState'
    BY <1>4, <1>q, <1>t DEF EndCooldown, RestDue, IInv, TypeOK,
       RelaysMatchState, EnterState, RelayState, Driving
  <2>3. StarterInv' /\ DryInv' /\ RestInv'
    BY <1>4, <1>q, <1>t, <2>1 DEF EndCooldown, RestDue, IInv,
       RelaysMatchState, StarterInv, DryInv, RestInv, EnterState, Observe,
       Driving
  <2> QED BY <2>2, <2>3 DEF IInv
<1>5. CASE NothingDue
  <2>1. Elapsed' = Elapsed /\ UNCHANGED relayVars
    BY <1>5, <1>q, SameElapsed DEF NothingDue
  <2>2. TypeOK' /\ RelaysMatchState'
    BY <1>q, <1>t, <2>1 DEF IInv, TypeOK, RelaysMatchState, relayVars
  <2>3. StarterInv'
    BY <1>5, <1>q, <1>e, <2>1, TimingAssumption
    DEF NothingDue, StarterDue, IInv, RelaysMatchState, StarterInv, Observe,
        relayVars, Instant
  <2>4. DryInv'
    <3>1. CASE state = "RUNNING" /\ ~motor
      <4>1. Elapsed <= MOTOR_GRACE
        BY <1>5, <1>e, <3>1, TimingAssumption
        DEF NothingDue, MotorLost, Instant
      <4>2. dry <= StarterLimit + Elapsed
        BY <3>1, <1>e, TimingAssumption
        DEF IInv, TypeOK, DryInv, StarterLimit, Instant
      <4> QED BY <3>1, <4>1, <4>2, <1>q, <1>e, <2>1, TimingAssumption
              DEF IInv, TypeOK, RelaysMatchState, DryInv, Observe, relayVars,
                  Driving, Instant
    <3>2. CASE state = "RUNNING" /\ motor
      BY <3>2, <1>q, <1>t, <2>1 DEF DryInv, relayVars, Driving
    <3>3. CASE state # "RUNNING"
      BY <3>3, <1>q, <2>1 DEF IInv, TypeOK, RelaysMatchState, StarterInv,
         DryInv, Observe, relayVars, Driving
    <3> QED BY <3>1, <3>2, <3>3
  <2>5. RestInv'
    BY <1>q, <2>1 DEF IInv, RelaysMatchState, RestInv, Observe, relayVars,
       Driving
  <2> QED BY <2>2, <2>3, <2>4, <2>5 DEF IInv
<1> QED BY <1>1, <1>2, <1>3, <1>4, <1>5 DEF RelayTick

-----------------------------------------------------------------------------
(* The clock, the motor and the supply. *)

LEMMA MillisecondIInv == IInv /\ Millisecond => IInv'
<1> SUFFICES ASSUME IInv, Millisecond PROVE IInv'
  OBVIOUS
<1> USE TimingAssumption
<1>s. UNCHANGED relayVars /\ UNCHANGED <<motor, waiver>>
  BY DEF Millisecond
<1>e. /\ Elapsed \in Instant
      /\ ms_counter' \in Instant
      /\ Elapsed' = IF Elapsed = CLOCK - 1 THEN 0 ELSE Elapsed + 1
  <2>1. Elapsed' = Since(Following(ms_counter), state_enter_ms)
    BY <1>s DEF Millisecond, Elapsed, relayVars, Since
  <2> QED BY <2>1, SinceType, SinceFollowing DEF Millisecond, Elapsed, IInv, TypeOK
<1>1. TypeOK' /\ RelaysMatchState'
  BY <1>s, <1>e DEF IInv, TypeOK, RelaysMatchState, Millisecond, relayVars
<1>2. StarterInv'
  <2>1. CASE state = "STARTING"
    <3>1. wound' = Elapsed + 1 /\ Elapsed + 1 <= STARTER_MAX - 1 + lag'
      BY <2>1, <1>s, <1>e DEF IInv, TypeOK, RelaysMatchState, StarterInv, Millisecond
    <3>2. Elapsed + 1 < CLOCK
      BY <3>1, <1>e, ClockAssumption DEF IInv, TypeOK, Millisecond, Instant
    <3> QED BY <2>1, <1>s, <1>e, <3>1, <3>2, ClockAssumption
            DEF StarterInv, relayVars, Instant
  <2>2. CASE state # "STARTING"
    BY <2>2, <1>s DEF IInv, RelaysMatchState, StarterInv, Millisecond, relayVars
  <2> QED BY <2>1, <2>2
<1>3. DryInv'
  <2>1. CASE state = "RUNNING" /\ ~motor
    <3>1. dry' = dry + 1 /\ lag' = lag + 1 /\ lag' <= MaxLag
      BY <2>1 DEF IInv, TypeOK, RelaysMatchState, Driving, Millisecond
    <3>2. CASE dry <= lag
      BY <2>1, <1>s, <3>1, <3>2 DEF IInv, TypeOK, DryInv, relayVars, Driving
    <3>3. CASE Elapsed - lag <= MOTOR_GRACE /\ dry <= StarterLimit + Elapsed
      <4>1. Elapsed # CLOCK - 1
        BY <3>1, <3>3, <1>e, ClockAssumption DEF IInv, TypeOK, Instant
      <4>2. StarterLimit \in Int
        BY DEF StarterLimit
      <4>3. Elapsed' - lag' <= MOTOR_GRACE /\ dry' <= StarterLimit + Elapsed'
        BY <3>1, <3>3, <4>1, <4>2, <1>e, ClockAssumption DEF IInv, TypeOK, Instant
      <4>4. StarterLimit' = StarterLimit
        BY DEF StarterLimit
      <4> QED BY <2>1, <1>s, <4>3, <4>4 DEF DryInv, relayVars, Driving
    <3> QED BY <2>1, <3>2, <3>3 DEF IInv, DryInv
  <2>2. CASE state = "STARTING" /\ ~motor
    BY <2>2, <1>s DEF IInv, TypeOK, RelaysMatchState, DryInv, Millisecond,
                      relayVars, Driving
  <2>3. CASE motor \/ state \notin Driving
    BY <2>3, <1>s, <1>1 DEF IInv, TypeOK, RelaysMatchState, DryInv, Millisecond,
                      relayVars, Driving
  <2> QED BY <2>1, <2>2, <2>3 DEF Driving
<1>4. RestInv'
  BY <1>s, <1>e, ClockAssumption
  DEF IInv, TypeOK, RelaysMatchState, RestInv, Millisecond, relayVars, Driving,
      Instant
<1> QED BY <1>1, <1>2, <1>3, <1>4 DEF IInv

LEMMA MotorChangesIInv == IInv /\ MotorChanges => IInv'
BY QuietIInv DEF MotorChanges, IInv, TypeOK

LEMMA PowerCycleIInv == IInv /\ PowerCycle => IInv'
<1> SUFFICES ASSUME IInv, PowerCycle PROVE IInv'
  OBVIOUS
<1>0. 0 \in Instant /\ 0 \in 0 .. MaxLag /\ 0 \in 0 .. COOLDOWN
  BY ClockAssumption, TimingAssumption DEF Instant
<1>1. TypeOK' /\ RelaysMatchState'
  BY <1>0 DEF IInv, TypeOK, RelaysMatchState, PowerCycle, AllRelaysSafe,
              RelayState, Driving
<1>2. StarterInv' /\ DryInv' /\ RestInv'
  BY DEF PowerCycle, StarterInv, DryInv, RestInv, Driving
<1> QED BY <1>1, <1>2 DEF IInv

LEMMA StutterIInv == IInv /\ UNCHANGED vars => IInv'
<1> SUFFICES ASSUME IInv, UNCHANGED vars PROVE IInv'
  OBVIOUS
<1>1. Elapsed' = Elapsed
  BY SameElapsed DEF vars
<1> QED
  BY <1>1 DEF IInv, TypeOK, RelaysMatchState, StarterInv, DryInv, RestInv, vars,
              relayVars, observers, StarterLimit

LEMMA NextIInv == IInv /\ [Next]_vars => IInv'
BY PumpOnIInv, PumpOffIInv, PumpLockIInv, PumpUnlockIInv, TickIInv,
   MillisecondIInv, MotorChangesIInv, PowerCycleIInv, StutterIInv
DEF Next

-----------------------------------------------------------------------------
(***************************************************************************)
(* The theorems about the relay state machine.                             *)
(***************************************************************************)

THEOREM SafetyIInv == Safety => []IInv
BY InitIInv, NextIInv, PTL DEF Safety

(* Every variable keeps its type, at every width of the clock. *)
THEOREM TypeCorrect == Safety => []TypeOK
BY SafetyIInv, PTL DEF IInv

(* The relays agree with the state machine: winding and coil are never     *)
(* driven outside a run, nor against an open NC contact.                   *)
THEOREM RelaysSafe == Safety => []RelaysMatchState
BY SafetyIInv, PTL DEF IInv

(* The starter winding is never driven longer than STARTER_MAX and one     *)
(* round of the superloop, and the relays are what the state says.         *)
THEOREM StarterSafe == Safety => []WindingInv
<1>1. IInv => WindingInv
  BY TimingAssumption DEF IInv, TypeOK, StarterInv, StarterBounded,
     StarterLimit, WindingInv
<1> QED BY <1>1, SafetyIInv, PTL

(* The coil of a motor that does not run is let go of in bounded time.     *)
THEOREM DryRunSafe == Safety => []DryRunBounded
<1>1. IInv => DryRunBounded
  <2> SUFFICES ASSUME IInv PROVE DryRunBounded
    OBVIOUS
  <2>e. Elapsed \in Instant
    BY SinceType DEF Elapsed, IInv, TypeOK
  <2>1. CASE state = "STARTING"
    BY <2>1, TimingAssumption
    DEF IInv, TypeOK, StarterInv, DryInv, DryRunBounded, DryLimit
  <2>2. CASE state = "RUNNING"
    BY <2>2, <2>e, TimingAssumption, ClockAssumption
    DEF IInv, TypeOK, DryInv, DryRunBounded, DryLimit, StarterLimit, Instant
  <2>3. CASE state \notin Driving
    BY <2>3, TimingAssumption DEF IInv, DryInv, DryRunBounded, DryLimit
  <2> QED BY <2>1, <2>2, <2>3 DEF Driving
<1> QED BY <1>1, SafetyIInv, PTL

(* Only IDLE turns the coil on: a run that begins comes after a whole      *)
(* rest, an unlock or a power cycle.                                       *)
THEOREM RestSafe == Safety => RestBeforeStart
<1>1. IInv /\ [Next]_vars => [CoilTurnsOn => rested = COOLDOWN \/ waiver # "none"]_vars
  <2> SUFFICES ASSUME IInv, Next, CoilTurnsOn
               PROVE  rested = COOLDOWN \/ waiver # "none"
    BY DEF vars
  <2>1. state \notin Driving
    BY DEF IInv, RelaysMatchState, CoilTurnsOn
  <2>2. state = "IDLE"
    BY <2>1 DEF CoilTurnsOn, Next, RelayPumpOn, RelayPumpOff, RelayPumpLock,
       RelayPumpUnlock, RelayTick, Refuse, BreakCircuit, ReleaseStarter,
       StarterDue, TripOnMotorLoss, AllRelaysSafe, EndStopPulse, EndCooldown,
       NothingDue, Millisecond, MotorChanges, PowerCycle, relayVars, Driving
  <2> QED BY <2>2 DEF IInv, RestInv
<1> QED BY <1>1, SafetyIInv, PTL DEF Safety, RestBeforeStart

(* A step that changes none of these is invisible through the refinement. *)
LEMMA Invisible ==
  ASSUME UNCHANGED <<state, large_no, rested, waiver>>
  PROVE  UNCHANGED (Actuator!vars)
BY DEF Actuator!vars

(* The relay state machine implements PumpActuator: one step for each      *)
(* action, and the abstract step it is.                                    *)
THEOREM Implements == Safety => ActuatorSafety
<1>1. Init => Actuator!Init
  <2> SUFFICES ASSUME Init PROVE Actuator!Init
    OBVIOUS
  <2>1. state = "IDLE" /\ rested = COOLDOWN /\ waiver = "none"
    BY DEF Init
  <2>2. large_no = FALSE
    BY Zenon DEF Init
  <2> QED BY <2>1, <2>2 DEF Actuator!Init, Driving
<1>2. IInv /\ [Next]_vars => [Actuator!Next]_(Actuator!vars)
  <2> SUFFICES ASSUME IInv, [Next]_vars PROVE [Actuator!Next]_(Actuator!vars)
    OBVIOUS
  <2> USE DEF IInv, TypeOK, RelaysMatchState, RestInv, Driving, RelayState
  <2>1. CASE RelayPumpOn
    <3>1. CASE state = "IDLE"
      <4>1. Actuator!Start
        BY <2>1, <3>1 DEF RelayPumpOn, Refuse, EnterState, Observe, InOneGo, Actuator!Start
      <4> QED BY <4>1 DEF Actuator!Next
    <3>2. CASE state # "IDLE"
      BY <2>1, <3>2, Invisible DEF RelayPumpOn, Refuse, relayVars, Observe, InOneGo
    <3> QED BY <3>1, <3>2
  <2>2. CASE RelayPumpOff
    <3>1. CASE state \in Driving
      <4>1. Actuator!Stop
        BY <2>2, <3>1 DEF RelayPumpOff, Refuse, BreakCircuit, EnterState,
                          Observe, InOneGo, Actuator!Stop
      <4> QED BY <4>1 DEF Actuator!Next
    <3>2. CASE state \notin Driving
      BY <2>2, <3>2, Invisible DEF RelayPumpOff, Refuse, relayVars, Observe, InOneGo
    <3> QED BY <3>1, <3>2
  <2>3. CASE RelayPumpLock
    <3>1. Actuator!Lock
      BY <2>3 DEF RelayPumpLock, BreakCircuit, EnterState, Observe, InOneGo, Actuator!Lock
    <3> QED BY <3>1 DEF Actuator!Next
  <2>4. CASE RelayPumpUnlock
    <3>1. CASE state = "LOCKED"
      <4>1. Actuator!Unlock
        BY <2>4, <3>1 DEF RelayPumpUnlock, Refuse, EnterState, Observe,
                          InOneGo, Actuator!Unlock
      <4> QED BY <4>1 DEF Actuator!Next
    <3>2. CASE state # "LOCKED"
      BY <2>4, <3>2, Invisible DEF RelayPumpUnlock, Refuse, relayVars, Observe, InOneGo
    <3> QED BY <3>1, <3>2
  <2>5. CASE RelayTick
    <3> USE <2>5 DEF RelayTick, Observe
    <3>1. CASE ReleaseStarter
      <4>1. Actuator!DropWinding
        BY <3>1 DEF ReleaseStarter, StarterDue, EnterState, Actuator!DropWinding
      <4> QED BY <4>1 DEF Actuator!Next
    <3>2. CASE TripOnMotorLoss
      <4>1. Actuator!Stop
        BY <3>2 DEF TripOnMotorLoss, MotorLost, AllRelaysSafe, EnterState, Actuator!Stop
      <4> QED BY <4>1 DEF Actuator!Next
    <3>3. CASE EndStopPulse
      BY <3>3 DEF EndStopPulse, PulseDue, EnterState, Actuator!vars
    <3>4. CASE EndCooldown
      <4>1. rested = COOLDOWN
        <5>1. Elapsed \in Instant
          BY SinceType DEF Elapsed
        <5> QED BY <3>4, <5>1, TimingAssumption, ClockAssumption
                DEF EndCooldown, RestDue, Instant
      <4>2. Actuator!Recover
        BY <3>4, <4>1 DEF EndCooldown, RestDue, EnterState, Actuator!Recover
      <4> QED BY <4>2 DEF Actuator!Next
    <3>5. CASE NothingDue
      BY <3>5, Invisible DEF NothingDue, relayVars
    <3> QED BY <3>1, <3>2, <3>3, <3>4, <3>5
  <2>6. CASE Millisecond
    <3>1. CASE state \notin Driving /\ rested < COOLDOWN /\ waiver = "none"
      <4>1. Actuator!Rest
        BY <2>6, <3>1 DEF Millisecond, relayVars, Actuator!Rest
      <4> QED BY <4>1 DEF Actuator!Next
    <3>2. CASE state \in Driving \/ ~(rested < COOLDOWN)
      BY <2>6, <3>2, Invisible DEF Millisecond, relayVars
    <3>3. CASE waiver # "none"
      BY <2>6, <3>3 DEF Millisecond, relayVars, Actuator!vars
    <3> QED BY <3>1, <3>2, <3>3
  <2>7. CASE MotorChanges
    BY <2>7, Invisible DEF MotorChanges, relayVars, Observe
  <2>8. CASE PowerCycle
    <3>1. Actuator!PowerCycle
      BY <2>8 DEF PowerCycle, AllRelaysSafe, Actuator!PowerCycle
    <3> QED BY <3>1 DEF Actuator!Next
  <2>9. CASE UNCHANGED vars
    BY <2>9, Invisible DEF vars, relayVars, observers
  <2> QED BY <2>1, <2>2, <2>3, <2>4, <2>5, <2>6, <2>7, <2>8, <2>9 DEF Next
<1> QED BY <1>1, <1>2, SafetyIInv, PTL DEF Safety, ActuatorSafety, Actuator!Safety

-----------------------------------------------------------------------------
(***************************************************************************)
(* The unit at work.                                                       *)
(***************************************************************************)

(* At most this long between two samples. *)
Window == DEBOUNCE_INTERVAL + MaxPoll - 1
Sampled == Since(ms_counter, last_sample_ms)

(* What c equal samples span at least, and may have taken at most. *)
Spanned(c) == (c - 1) * DEBOUNCE_INTERVAL
Waited(c) == c * Window

(* The equal samples span what their number says, and a level that is not  *)
(* believed yet has not held for longer than they and the last wait took.  *)
SampleInv ==
  /\ Sampled <= DEBOUNCE_INTERVAL - 1 + unpolled
  /\ span = Motor!Settled \/ Spanned(sample_count) + Sampled <= span
  /\ sample_count = DEBOUNCE_THRESHOLD => motor = last_sample
  /\ motor # pin => held <= (IF last_sample = pin THEN Waited(sample_count) ELSE 0) + Sampled

MotorInv == Motor!TypeOK /\ SampleInv

(* The contactor has been open no longer than the feedback has held, or    *)
(* the feedback is believed.  While RUNNING, either the grace period was   *)
(* not over at the last poll and the contactor has been open at most since *)
(* the start sequence began, or the motor was seen running at the last     *)
(* poll.                                                                   *)
OpenInv ==
  /\ open \in Nat
  /\ 0 < open => small_no /\ ~pin
  /\ open <= held \/ held = Motor!Settled
  /\ state = "STARTING" => open <= wound
  /\ state = "RUNNING" => \/ Elapsed - lag <= MOTOR_GRACE /\ open <= StarterLimit + Elapsed
                          \/ open <= Motor!Settled - 1 + lag

(* A stop pulse that has lasted a millisecond has opened the contactor. *)
PulseInv == pin /\ state = "STOPPING" => Elapsed = 0

-----------------------------------------------------------------------------
(* What the superloop does to the relays is a step of RelayCtrl. *)
LEMMA UnitRelay == IInv /\ [UnitNext]_unitVars => IInv'
<1> SUFFICES ASSUME IInv, [UnitNext]_unitVars PROVE IInv'
  OBVIOUS
<1>1. CASE Command
  BY <1>1, NextIInv DEF Command, PumpOn, PumpOff, PumpLock, PumpUnlock, Next
<1>2. CASE CommDone
  <2>1. UNCHANGED vars
    BY <1>2 DEF CommDone, relayOwn, vars
  <2> QED BY <2>1, StutterIInv
<1>3. CASE MotorTick
  <2>1. CASE motor' # motor
    BY <1>3, <2>1, MotorChangesIInv DEF MotorTick
  <2>2. CASE motor' = motor
    <3>1. UNCHANGED vars
      BY <1>3, <2>2 DEF MotorTick, Motor!MotorDetectTick, relayOwn, vars
    <3> QED BY <3>1, StutterIInv
  <2> QED BY <2>1, <2>2
<1>4. CASE RelayRound
  BY <1>4, TickIInv DEF RelayRound
<1>5. ASSUME NEW who, ContactMoves(who) PROVE IInv'
  <2>1. UNCHANGED vars
    BY <1>5 DEF ContactMoves, Motor!PinChanges, Motor!debounceVars, relayOwn, vars
  <2> QED BY <2>1, StutterIInv
<1>6. CASE TimePasses
  BY <1>6, MillisecondIInv DEF TimePasses
<1>7. CASE Reboot
  BY <1>7, PowerCycleIInv DEF Reboot
<1>8. CASE UNCHANGED unitVars
  <2>1. UNCHANGED vars
    BY <1>8 DEF unitVars, relayOwn, vars
  <2> QED BY <2>1, StutterIInv
<1> QED BY <1>1, <1>2, <1>3, <1>4, <1>5, <1>6, <1>7, <1>8
    DEF UnitNext, PullIn, GreenButton, DropOut, ExternalStop

-----------------------------------------------------------------------------
(* The debounced feedback. *)

(* Times of samples: one more sample is one more interval, or window. *)
LEMMA Windows ==
  /\ Window \in Nat \ {0} /\ DEBOUNCE_INTERVAL <= Window
  /\ Motor!Settled = DEBOUNCE_THRESHOLD * Window + 1 /\ Motor!Settled \in Nat \ {0}
  /\ \A c \in 1 .. DEBOUNCE_THRESHOLD :
       /\ c * Window \in Nat /\ c * Window <= DEBOUNCE_THRESHOLD * Window
       /\ (c + 1) * Window = c * Window + Window
       /\ c < DEBOUNCE_THRESHOLD => c * Window + Window <= DEBOUNCE_THRESHOLD * Window
       /\ (c - 1) * DEBOUNCE_INTERVAL \in Nat
       /\ c * DEBOUNCE_INTERVAL = (c - 1) * DEBOUNCE_INTERVAL + DEBOUNCE_INTERVAL
       /\ (c - 1) * DEBOUNCE_INTERVAL + DEBOUNCE_INTERVAL <= DEBOUNCE_THRESHOLD * Window
<1>1. Window \in Nat \ {0} /\ DEBOUNCE_INTERVAL <= Window
  BY DebounceAssumption DEF Window
<1>2. Motor!Settled = DEBOUNCE_THRESHOLD * Window + 1
  BY DEF Motor!Settled, Window
<1>3. ASSUME NEW a \in Nat, NEW b \in Nat, NEW w \in Nat, a <= b PROVE a * w \in Nat /\ a * w <= b * w
  <2>1. PICK d \in Nat : b = a + d
    BY <1>3
  <2>2. b * w = a * w + d * w /\ d * w \in Nat /\ a * w \in Nat
    BY <2>1
  <2> QED BY <2>2
<1>4. ASSUME NEW a \in Nat, NEW w \in Nat PROVE (a + 1) * w = a * w + w
  OBVIOUS
<1>5. DEBOUNCE_THRESHOLD * Window \in Nat
  BY <1>1, <1>3, DebounceAssumption
<1>6. ASSUME NEW c \in 1 .. DEBOUNCE_THRESHOLD
      PROVE  /\ c * Window \in Nat /\ c * Window <= DEBOUNCE_THRESHOLD * Window
             /\ (c + 1) * Window = c * Window + Window
             /\ c < DEBOUNCE_THRESHOLD => c * Window + Window <= DEBOUNCE_THRESHOLD * Window
             /\ (c - 1) * DEBOUNCE_INTERVAL \in Nat
             /\ c * DEBOUNCE_INTERVAL = (c - 1) * DEBOUNCE_INTERVAL + DEBOUNCE_INTERVAL
             /\ (c - 1) * DEBOUNCE_INTERVAL + DEBOUNCE_INTERVAL <= DEBOUNCE_THRESHOLD * Window
  <2>1. /\ c \in Nat /\ c - 1 \in Nat /\ c + 1 \in Nat /\ (c - 1) + 1 = c
        /\ DEBOUNCE_THRESHOLD \in Nat /\ DEBOUNCE_INTERVAL \in Nat /\ Window \in Nat
        /\ c <= DEBOUNCE_THRESHOLD
    BY <1>1, DebounceAssumption
  <2>2. c * Window \in Nat /\ c * Window <= DEBOUNCE_THRESHOLD * Window
    BY <1>3, <2>1
  <2>3. (c + 1) * Window = c * Window + Window
    BY <1>4, <2>1
  <2>4. c < DEBOUNCE_THRESHOLD => (c + 1) * Window <= DEBOUNCE_THRESHOLD * Window
    <3>1. c < DEBOUNCE_THRESHOLD => c + 1 <= DEBOUNCE_THRESHOLD
      BY <2>1
    <3> QED BY <1>3, <2>1, <3>1
  <2>5. (c - 1) * DEBOUNCE_INTERVAL \in Nat
    BY <1>3, <2>1
  <2>6. c * DEBOUNCE_INTERVAL = (c - 1) * DEBOUNCE_INTERVAL + DEBOUNCE_INTERVAL
    BY <1>4, <2>1
  <2>7. c * DEBOUNCE_INTERVAL <= c * Window
    <3>1. PICK d \in Nat : Window = DEBOUNCE_INTERVAL + d
      BY <1>1, <2>1
    <3>2. c * Window = c * DEBOUNCE_INTERVAL + c * d /\ c * d \in Nat /\ c * DEBOUNCE_INTERVAL \in Nat
      BY <1>3, <2>1, <3>1
    <3> QED BY <3>2
  <2>8. c * DEBOUNCE_INTERVAL \in Nat
    BY <1>3, <2>1
  <2>9. c * DEBOUNCE_INTERVAL <= DEBOUNCE_THRESHOLD * Window
    BY <1>5, <2>2, <2>7, <2>8
  <2> QED BY <2>2, <2>3, <2>4, <2>5, <2>6, <2>9
<1> QED BY <1>1, <1>2, <1>5, <1>6

(* The same, of Spanned and Waited. *)
LEMMA Samples ==
  /\ Window \in Nat \ {0} /\ DEBOUNCE_INTERVAL <= Window
  /\ Motor!Settled = Waited(DEBOUNCE_THRESHOLD) + 1 /\ Motor!Settled \in Nat \ {0}
  /\ Waited(1) = Window /\ Spanned(1) = 0
  /\ \A c \in 1 .. DEBOUNCE_THRESHOLD :
       /\ Waited(c) \in Nat /\ Waited(c) <= Waited(DEBOUNCE_THRESHOLD)
       /\ Waited(c + 1) = Waited(c) + Window
       /\ c < DEBOUNCE_THRESHOLD => Waited(c) + Window <= Waited(DEBOUNCE_THRESHOLD)
       /\ Spanned(c) \in Nat
       /\ Spanned(c + 1) = Spanned(c) + DEBOUNCE_INTERVAL
       /\ Spanned(c) + DEBOUNCE_INTERVAL <= Waited(DEBOUNCE_THRESHOLD)
<1>1. Waited(1) = Window /\ Spanned(1) = 0
  BY Windows, DebounceAssumption DEF Waited, Spanned
<1>2. ASSUME NEW c \in 1 .. DEBOUNCE_THRESHOLD
      PROVE  /\ Waited(c) \in Nat /\ Waited(c) <= Waited(DEBOUNCE_THRESHOLD)
             /\ Waited(c + 1) = Waited(c) + Window
             /\ c < DEBOUNCE_THRESHOLD => Waited(c) + Window <= Waited(DEBOUNCE_THRESHOLD)
             /\ Spanned(c) \in Nat
             /\ Spanned(c) + DEBOUNCE_INTERVAL <= Waited(DEBOUNCE_THRESHOLD)
  BY Windows DEF Waited, Spanned
<1>3. ASSUME NEW c \in 1 .. DEBOUNCE_THRESHOLD
      PROVE  Spanned(c + 1) = Spanned(c) + DEBOUNCE_INTERVAL
  <2>1. (c + 1) - 1 = c
    BY DebounceAssumption
  <2> QED BY <2>1, Windows DEF Spanned
<1> QED BY <1>1, <1>2, <1>3, Windows DEF Waited

(* The wait since the last sample is a counter value, and short. *)
LEMMA SampledType ==
  ASSUME MotorInv
  PROVE  Sampled \in Instant /\ Sampled \in Nat /\ Sampled <= Window
BY SinceType, ClockAssumption, DebounceAssumption, Samples
DEF MotorInv, SampleInv, Motor!TypeOK, Motor!Instant, Instant, Sampled, Window

(* The same again, of the samples that have been taken. *)
LEMMA Taken ==
  ASSUME MotorInv
  PROVE  /\ Window \in Nat /\ 0 < Window /\ DEBOUNCE_INTERVAL <= Window
         /\ DEBOUNCE_INTERVAL \in Nat /\ 0 < DEBOUNCE_INTERVAL
         /\ DEBOUNCE_THRESHOLD \in Nat /\ 1 <= DEBOUNCE_THRESHOLD
         /\ MaxPoll \in Nat
         /\ Motor!Settled \in Nat /\ 0 < Motor!Settled
         /\ Waited(1) = Window /\ Spanned(1) = 0
         /\ Waited(sample_count) \in Nat /\ Waited(sample_count) < Motor!Settled
         /\ Waited(sample_count + 1) = Waited(sample_count) + Window
         /\ sample_count < DEBOUNCE_THRESHOLD => Waited(sample_count) + Window < Motor!Settled
         /\ Spanned(sample_count) \in Nat
         /\ Spanned(sample_count + 1) = Spanned(sample_count) + DEBOUNCE_INTERVAL
         /\ Sampled \in Nat /\ Sampled <= Window
<1>1. sample_count \in 1 .. DEBOUNCE_THRESHOLD /\ DEBOUNCE_THRESHOLD \in 1 .. DEBOUNCE_THRESHOLD
  BY DebounceAssumption DEF MotorInv, Motor!TypeOK
<1>2. /\ Waited(DEBOUNCE_THRESHOLD) \in Nat /\ Waited(sample_count) \in Nat
      /\ Waited(sample_count) <= Waited(DEBOUNCE_THRESHOLD)
      /\ Waited(sample_count + 1) = Waited(sample_count) + Window
      /\ sample_count < DEBOUNCE_THRESHOLD
           => Waited(sample_count) + Window <= Waited(DEBOUNCE_THRESHOLD)
      /\ Spanned(sample_count) \in Nat
      /\ Spanned(sample_count + 1) = Spanned(sample_count) + DEBOUNCE_INTERVAL
  BY <1>1, Samples
<1> QED BY <1>2, Samples, SampledType, DebounceAssumption

(* What a step cannot change. *)
LEMMA Fixed ==
  /\ Motor!Settled' = Motor!Settled /\ Motor!Instant' = Motor!Instant
  /\ Waited(sample_count)' = Waited(sample_count')
  /\ Spanned(sample_count)' = Spanned(sample_count')
BY DEF Motor!Settled, Motor!Instant, Waited, Spanned, Window

LEMMA SampleStep == MotorInv /\ Motor!MotorDetectTick => MotorInv'
<1> SUFFICES ASSUME MotorInv, Motor!MotorDetectTick PROVE MotorInv'
  OBVIOUS
<1> USE Taken, Fixed
<1>1. CASE Motor!Sample
  <2>1. Sampled' = 0 /\ Sampled >= DEBOUNCE_INTERVAL
    <3>1. Sampled' = Since(ms_counter, ms_counter)
      BY <1>1 DEF Motor!MotorDetectTick, Motor!Sample, Sampled, Since
    <3> QED BY <1>1, <3>1, SinceType
            DEF Motor!Sample, Motor!SampleDue, Motor!Since, Sampled, Since,
                MotorInv, Motor!TypeOK, Motor!Instant, Instant
  <2>2. Motor!TypeOK'
    BY <1>1 DEF MotorInv, Motor!TypeOK, Motor!MotorDetectTick, Motor!Sample, Motor!Agreeing
  <2>3. SampleInv'
    <3>1. CASE pin # last_sample
      BY <1>1, <2>1, <3>1 DEF MotorInv, SampleInv, Motor!TypeOK, Motor!MotorDetectTick,
                          Motor!Sample, Motor!Agreeing
    <3>2. CASE pin = last_sample /\ sample_count < DEBOUNCE_THRESHOLD
      <4>1. /\ sample_count' = sample_count + 1 /\ last_sample' = pin /\ pin' = pin
            /\ held' = held /\ span' = span /\ unpolled' = 0
        BY <1>1, <3>2 DEF MotorInv, Motor!TypeOK, Motor!MotorDetectTick, Motor!Sample,
                          Motor!Agreeing
      <4>2. sample_count' = DEBOUNCE_THRESHOLD => motor' = last_sample'
        BY <1>1, <3>2, <4>1 DEF MotorInv, Motor!TypeOK, Motor!Sample, Motor!Agreeing
      <4>3. motor' # pin' => motor # pin
        BY <1>1, <4>1 DEF Motor!Sample
      <4>4. span' = Motor!Settled' \/ Spanned(sample_count)' + Sampled' <= span'
        BY <2>1, <4>1 DEF MotorInv, SampleInv, Motor!TypeOK
      <4>5. motor # pin => held <= Waited(sample_count + 1)
        BY <3>2 DEF MotorInv, SampleInv, Motor!TypeOK
      <4> QED BY <2>1, <4>1, <4>2, <4>3, <4>4, <4>5 DEF SampleInv
    <3>3. CASE pin = last_sample /\ sample_count = DEBOUNCE_THRESHOLD
      BY <1>1, <2>1, <3>3 DEF MotorInv, SampleInv, Motor!TypeOK, Motor!MotorDetectTick,
                          Motor!Sample, Motor!Agreeing
    <3> QED BY <3>1, <3>2, <3>3 DEF MotorInv, Motor!TypeOK
  <2> QED BY <2>2, <2>3 DEF MotorInv
<1>2. CASE Motor!NoSample
  <2>1. Sampled' = Sampled
    BY <1>2 DEF Motor!MotorDetectTick, Motor!NoSample, Since, Sampled, Motor!debounceVars
  <2>2. Sampled < DEBOUNCE_INTERVAL
    <3>1. ~(Sampled >= DEBOUNCE_INTERVAL)
      BY <1>2 DEF Motor!NoSample, Motor!SampleDue, Motor!Since, Since, Sampled
    <3> QED BY <3>1
  <2> QED BY <1>2, <2>1, <2>2 DEF MotorInv, SampleInv, Motor!TypeOK, Motor!MotorDetectTick,
                            Motor!NoSample, Motor!debounceVars
<1> QED BY <1>1, <1>2 DEF Motor!MotorDetectTick

LEMMA PassStep == MotorInv /\ Motor!Millisecond => MotorInv'
<1> SUFFICES ASSUME MotorInv, Motor!Millisecond PROVE MotorInv'
  OBVIOUS
<1> USE Taken, Fixed
<1>1. ms_counter' \in Motor!Instant /\ Sampled' = Sampled + 1
  <2>1. /\ ms_counter \in Instant /\ last_sample_ms \in Instant
        /\ ms_counter' = Following(ms_counter) /\ last_sample_ms' = last_sample_ms
    BY DEF MotorInv, Motor!TypeOK, Motor!Millisecond, Motor!Instant, Instant,
           Motor!Following, Following, Motor!debounceVars
  <2>2. Sampled' = Since(Following(ms_counter), last_sample_ms)
    BY <2>1 DEF Sampled, Since
  <2>3. Sampled < CLOCK - 1
    BY ClockAssumption, DebounceAssumption
    DEF MotorInv, SampleInv, Motor!TypeOK, Motor!Millisecond
  <2> QED BY <2>1, <2>2, <2>3, SinceFollowing, ClockAssumption
          DEF Sampled, Motor!Instant, Instant
<1>2. Motor!TypeOK'
  <2>1. Motor!Age(held) \in 0 .. Motor!Settled /\ Motor!Age(span) \in 0 .. Motor!Settled
    BY DEF MotorInv, Motor!TypeOK, Motor!Age
  <2>2. unpolled' \in 0 .. MaxPoll
    BY DEF MotorInv, Motor!TypeOK, Motor!Millisecond
  <2> QED BY <1>1, <2>1, <2>2
          DEF MotorInv, Motor!TypeOK, Motor!Millisecond, Motor!debounceVars
<1>3. SampleInv'
  <2>0. /\ Sampled \in Nat /\ unpolled \in Nat /\ held \in Nat /\ span \in Nat
        /\ DEBOUNCE_INTERVAL \in Nat /\ Waited(sample_count) \in Nat
        /\ Spanned(sample_count) \in Nat /\ Motor!Settled \in Nat
        /\ unpolled' = unpolled + 1 /\ held' = Motor!Age(held) /\ span' = Motor!Age(span)
        /\ UNCHANGED <<pin, motor, last_sample, sample_count>>
    BY DEF MotorInv, Motor!TypeOK, Motor!Millisecond, Motor!debounceVars
  <2> HIDE Taken
  <2>1. Sampled' <= DEBOUNCE_INTERVAL - 1 + unpolled'
    BY <1>1, <2>0 DEF MotorInv, SampleInv
  <2>2. span' = Motor!Settled \/ Spanned(sample_count) + Sampled' <= span'
    BY <1>1, <2>0 DEF MotorInv, SampleInv, Motor!TypeOK, Motor!Age
  <2>3. held' <= held + 1 /\ held' \in Nat
    BY <2>0 DEF MotorInv, Motor!TypeOK, Motor!Age
  <2>4. UNCHANGED <<pin, motor, last_sample, sample_count>>
    BY <2>0
  <2>5. motor # pin =>
          held' <= (IF last_sample = pin THEN Waited(sample_count) ELSE 0) + Sampled'
    BY <1>1, <2>0, <2>3 DEF MotorInv, SampleInv
  <2> QED BY <2>1, <2>2, <2>4, <2>5 DEF MotorInv, SampleInv
<1> QED BY <1>2, <1>3 DEF MotorInv

LEMMA PinStep == MotorInv /\ Motor!PinChanges => MotorInv'
<1> SUFFICES ASSUME MotorInv, Motor!PinChanges PROVE MotorInv'
  OBVIOUS
<1>1. Sampled' = Sampled
  BY DEF Motor!PinChanges, Motor!debounceVars, Sampled, Since
<1> USE Taken, Fixed
<1>2. Motor!TypeOK'
  BY DEF MotorInv, Motor!TypeOK, Motor!PinChanges, Motor!debounceVars
<1>3. Sampled' <= DEBOUNCE_INTERVAL - 1 + unpolled'
  BY <1>1 DEF MotorInv, SampleInv, Motor!PinChanges
<1>4. span' = Motor!Settled' \/ Spanned(sample_count)' + Sampled' <= span'
  BY <1>1 DEF MotorInv, SampleInv, Motor!PinChanges, Motor!debounceVars
<1>5. sample_count' = DEBOUNCE_THRESHOLD => motor' = last_sample'
  BY <1>1 DEF MotorInv, SampleInv, Motor!PinChanges, Motor!debounceVars
<1>6. held' <= (IF last_sample' = pin' THEN Waited(sample_count)' ELSE 0) + Sampled'
  BY <1>1 DEF MotorInv, Motor!TypeOK, Motor!PinChanges, Motor!debounceVars
<1> QED BY <1>2, <1>3, <1>4, <1>5, <1>6 DEF MotorInv, SampleInv

LEMMA BootStep == MotorInv /\ Motor!PowerCycle => MotorInv'
<1> SUFFICES ASSUME MotorInv, Motor!PowerCycle PROVE MotorInv'
  OBVIOUS
<1>1. Sampled' = 0 /\ 0 \in Motor!Instant
  BY ClockAssumption DEF Motor!PowerCycle, Sampled, Since, Motor!Instant
<1> QED BY <1>1, DebounceAssumption, Samples
        DEF MotorInv, SampleInv, Motor!TypeOK, Motor!PowerCycle

LEMMA AsideStep ==
  MotorInv /\ UNCHANGED <<ms_counter, motor, pin, sampling>> => MotorInv'
<1> SUFFICES ASSUME MotorInv, UNCHANGED <<ms_counter, motor, pin, sampling>> PROVE MotorInv'
  OBVIOUS
<1>1. Sampled' = Sampled
  BY DEF sampling, Sampled, Since
<1> QED BY <1>1 DEF MotorInv, SampleInv, Motor!TypeOK, sampling

(* Commands and relay_tick leave the feedback alone. *)
LEMMA AsideActions ==
  Command \/ CommDone \/ RelayRound \/ UNCHANGED unitVars
    => UNCHANGED <<ms_counter, motor, pin, sampling>>
BY DEF Command, CommDone, RelayRound, unitVars, PumpOn, PumpOff, PumpLock, PumpUnlock,
       RelayPumpOn, RelayPumpOff, RelayPumpLock, RelayPumpUnlock, InOneGo, RelayTick

LEMMA UnitMotor == MotorInv /\ [UnitNext]_unitVars => MotorInv'
BY SampleStep, PassStep, PinStep, BootStep, AsideStep, AsideActions
DEF UnitNext, MotorTick, TimePasses, Reboot, ContactMoves,
    PullIn, GreenButton, DropOut, ExternalStop

LEMMA InitMotor == UnitInit => MotorInv
<1> SUFFICES ASSUME UnitInit PROVE MotorInv
  OBVIOUS
<1>1. Sampled = 0 /\ 0 \in Motor!Instant
  BY ClockAssumption DEF UnitInit, Motor!Init, Sampled, Since, Motor!Instant
<1> QED BY <1>1, DebounceAssumption, Samples
        DEF MotorInv, SampleInv, Motor!TypeOK, UnitInit, Motor!Init

LEMMA MotorIsTimely == MotorInv => DetectedInTime
<1> SUFFICES ASSUME MotorInv, held = Motor!Settled PROVE motor = pin
  BY DEF DetectedInTime, Motor!DetectedInTime
<1> SUFFICES ASSUME motor # pin PROVE FALSE
  OBVIOUS
<1>1. /\ held <= (IF last_sample = pin THEN Waited(sample_count) ELSE 0) + Sampled
      /\ sample_count \in 1 .. DEBOUNCE_THRESHOLD
      /\ last_sample = pin => sample_count < DEBOUNCE_THRESHOLD
  BY DebounceAssumption DEF MotorInv, SampleInv, Motor!TypeOK
<1>2. 1 \in 1 .. DEBOUNCE_THRESHOLD
  BY DebounceAssumption
<1> QED BY <1>1, <1>2, Samples, SampledType, DebounceAssumption

(* Why a change of the debounced level is no glitch. *)
LEMMA NoGlitch ==
  MotorInv /\ [UnitNext]_unitVars =>
    (motor' # motor => \/ Motor!PowerCycle
                       \/ span' >= (DEBOUNCE_THRESHOLD - 1) * DEBOUNCE_INTERVAL)
<1> SUFFICES ASSUME MotorInv, [UnitNext]_unitVars, motor' # motor, ~Motor!PowerCycle
             PROVE  span' >= Spanned(DEBOUNCE_THRESHOLD)
  BY DEF Spanned
<1>1. Motor!MotorDetectTick
  BY AsideActions
  DEF UnitNext, MotorTick, TimePasses, Reboot, ContactMoves, Millisecond,
      Motor!PinChanges, Motor!debounceVars, PullIn, GreenButton, DropOut, ExternalStop
<1>2. /\ Motor!Sample /\ motor # pin /\ Motor!Agreeing >= DEBOUNCE_THRESHOLD
      /\ Sampled >= DEBOUNCE_INTERVAL
  BY <1>1 DEF Motor!MotorDetectTick, Motor!Sample, Motor!NoSample, Motor!debounceVars,
              Motor!SampleDue, Motor!Since, Sampled, Since
<1>3. DEBOUNCE_THRESHOLD \in 1 .. DEBOUNCE_THRESHOLD
  BY DebounceAssumption
<1>4. CASE pin # last_sample
  <2>1. DEBOUNCE_THRESHOLD = 1 /\ span' = 0
    BY <1>2, <1>4, DebounceAssumption DEF Motor!Agreeing, Motor!Sample
  <2> QED BY <2>1, Samples
<1>5. CASE pin = last_sample
  <2>1. sample_count # DEBOUNCE_THRESHOLD
    BY <1>2, <1>5 DEF MotorInv, SampleInv
  <2>2. sample_count + 1 = DEBOUNCE_THRESHOLD /\ span' = span
    BY <1>2, <1>5, <2>1, DebounceAssumption
    DEF Motor!Agreeing, Motor!Sample, MotorInv, Motor!TypeOK
  <2>3. CASE span = Motor!Settled
    BY <1>3, <2>2, <2>3, Samples, DebounceAssumption
  <2>4. CASE Spanned(sample_count) + Sampled <= span
    BY <1>2, <2>2, <2>4, Samples, SampledType, DebounceAssumption
    DEF MotorInv, Motor!TypeOK
  <2> QED BY <2>3, <2>4 DEF MotorInv, SampleInv
<1> QED BY <1>4, <1>5

-----------------------------------------------------------------------------
(* The contactor. *)

LEMMA Commands ==
  ASSUME IInv, Command
  PROVE  /\ UNCHANGED <<ms_counter, lag, motor, pin, sampling>> /\ Observe
         /\ open' = (IF small_no' THEN open ELSE 0)
         /\ holder' = (IF pin /\ nc /\ ~nc' THEN "unlock" ELSE holder)
         /\ \/ UNCHANGED relayVars
            \/ state = "IDLE" /\ state' = "STARTING" /\ small_no' = TRUE
            \/ state' = "STOPPING" /\ Elapsed' = 0 /\ small_no' = FALSE /\ nc' = TRUE
            \/ state' = "LOCKED" /\ small_no' = FALSE /\ nc' = TRUE
            \/ /\ state = "LOCKED" /\ state' = "IDLE"
               /\ small_no' = small_no /\ nc' = FALSE
<1>1. UNCHANGED <<ms_counter, lag>> /\ Observe
  BY DEF Command, PumpOn, PumpOff, PumpLock, PumpUnlock, RelayPumpOn, RelayPumpOff,
         RelayPumpLock, RelayPumpUnlock, InOneGo
<1>2. CASE PumpOn
  BY <1>1, <1>2, AsideActions
  DEF Command, PumpOn, RelayPumpOn, Refuse, EnterState
<1>3. CASE PumpOff
  <2>1. EnterState("STOPPING") => Elapsed' = 0
    BY <1>1, EnterStateElapsed DEF RelayState
  <2> QED BY <1>1, <1>3, <2>1, AsideActions
          DEF Command, PumpOff, RelayPumpOff, Refuse, EnterState, BreakCircuit
<1>4. CASE PumpLock
  BY <1>1, <1>4, AsideActions
  DEF Command, PumpLock, RelayPumpLock, EnterState, BreakCircuit
<1>5. CASE PumpUnlock
  BY <1>1, <1>5, AsideActions
  DEF Command, PumpUnlock, RelayPumpUnlock, Refuse, EnterState
<1> QED BY <1>2, <1>3, <1>4, <1>5 DEF Command

LEMMA Limits ==
  /\ StarterLimit \in Nat /\ StarterLimit = STARTER_MAX - 1 + MaxLag
  /\ StarterLimit' = StarterLimit
  /\ Motor!Settled \in Nat /\ 0 < Motor!Settled /\ Motor!Settled <= STARTER_MAX
  /\ Motor!Settled' = Motor!Settled
  /\ STARTER_MAX \in Nat /\ MOTOR_GRACE \in Nat /\ MaxLag \in Nat
BY TimingAssumption, DebounceAssumption, Samples DEF StarterLimit, Motor!Settled

LEMMA Later ==
  ASSUME NEW s \in Nat, NEW l \in Nat, 0 < s
  PROVE  0 <= s - 1 + l
OBVIOUS

(* A contactor that is not driven, or has just moved, has not been open. *)
LEMMA NotOpen ==
  ASSUME IInv', MotorInv', open' = 0
  PROVE  OpenInv'
<1>1. lag' \in Nat /\ held' \in Nat /\ wound' \in Nat
  BY Limits DEF IInv, TypeOK, MotorInv, Motor!TypeOK
<1>2. open' <= Motor!Settled' - 1 + lag'
  <2>1. Motor!Settled \in Nat /\ 0 < Motor!Settled
    BY Limits
  <2>2. Motor!Settled' = Motor!Settled
    BY Limits
  <2>3. 0 <= Motor!Settled - 1 + lag'
    BY <1>1, <2>1, Later
  <2> QED BY <2>2, <2>3
<1>3. open' \in Nat /\ ~(0 < open') /\ open' <= held' /\ open' <= wound'
  BY <1>1
<1> QED BY <1>2, <1>3 DEF OpenInv

(* The timer of the state machine is a natural number. *)
LEMMA ElapsedNat == IInv => Elapsed \in Instant /\ Elapsed \in Nat
BY SinceType, ClockAssumption DEF Elapsed, IInv, TypeOK, Instant

(* A step that takes no time and leaves the coil as it was. *)
LEMMA StillOpen ==
  ASSUME IInv, OpenInv, UNCHANGED <<open, pin, held, ms_counter, lag>>, UNCHANGED relayVars,
         wound' = IF large_no' THEN wound ELSE 0
  PROVE  OpenInv'
<1>1. Elapsed' = Elapsed
  BY SameElapsed
<1> QED BY <1>1, Limits DEF OpenInv, IInv, RelaysMatchState, relayVars

LEMMA CommandOpen ==
  IInv /\ IInv' /\ MotorInv' /\ OpenInv /\ Command => OpenInv'
<1> SUFFICES ASSUME IInv, IInv', MotorInv', OpenInv, Command PROVE OpenInv'
  OBVIOUS
<1>1. CASE UNCHANGED relayVars /\ small_no
  BY <1>1, Commands, StillOpen DEF Observe, relayVars, sampling
<1>2. CASE ~(UNCHANGED relayVars /\ small_no)
  <2>1. ~small_no => open = 0
    BY DEF OpenInv
  <2>2. state \in {"IDLE", "LOCKED"} => ~small_no
    BY DEF IInv, RelaysMatchState, Driving
  <2>3. open' = 0
    BY <1>2, <2>1, <2>2, Commands DEF relayVars
  <2> QED BY <2>3, NotOpen
<1> QED BY <1>1, <1>2

LEMMA RoundOpen ==
  IInv /\ IInv' /\ MotorInv /\ MotorInv' /\ OpenInv /\ RelayRound => OpenInv'
<1> SUFFICES ASSUME IInv, IInv', MotorInv, MotorInv', OpenInv, RelayRound PROVE OpenInv'
  OBVIOUS
<1>1. /\ RelayTick /\ UNCHANGED <<pin, held>> /\ lag' = 0
      /\ open' = (IF small_no' THEN open ELSE 0)
  BY DEF RelayRound, RelayTick, sampling
<1>2. ASSUME ~small_no' PROVE OpenInv'
  BY <1>1, <1>2, NotOpen
<1>3. ASSUME ReleaseStarter, small_no' PROVE OpenInv'
  <2>1. Elapsed' = 0
    BY <1>1, <1>3, EnterStateElapsed DEF ReleaseStarter, RelayTick, RelayState
  <2>2. open \in Nat /\ open <= wound /\ wound \in Nat /\ wound <= STARTER_MAX - 1 + lag /\ lag <= MaxLag /\ lag \in Nat
    BY <1>3, Limits DEF OpenInv, ReleaseStarter, StarterDue, IInv, StarterInv, TypeOK
  <2>3. open <= StarterLimit
    BY <2>2, Limits
  <2>4. state' = "RUNNING"
    BY <1>3 DEF ReleaseStarter, EnterState
  <2>5. 0 < open' => small_no' /\ ~pin'
    BY <1>1, <1>3 DEF OpenInv
  <2> QED BY <1>1, <1>3, <2>1, <2>2, <2>3, <2>4, <2>5, Limits DEF OpenInv
<1>4. ASSUME NothingDue, small_no' PROVE OpenInv'
  <2>0. /\ UNCHANGED relayVars /\ small_no /\ open' = open /\ open \in Nat
        /\ Elapsed' = Elapsed /\ Elapsed \in Nat /\ held \in Nat
        /\ wound' = (IF large_no' THEN wound ELSE 0)
    <3>1. UNCHANGED relayVars /\ ms_counter' = ms_counter
      BY <1>1, <1>4 DEF NothingDue, RelayTick
    <3>2. open \in Nat /\ held \in Nat
      BY Limits DEF OpenInv, MotorInv, Motor!TypeOK
    <3>3. wound' = (IF large_no' THEN wound ELSE 0)
      BY <1>1 DEF RelayTick, Observe
    <3> QED BY <1>1, <1>4, <3>1, <3>2, <3>3, SameElapsed, ElapsedNat DEF relayVars
  <2>1. CASE state = "STARTING"
    BY <1>1, <2>0, <2>1, Limits DEF OpenInv, IInv, RelaysMatchState, relayVars
  <2>2. CASE state = "RUNNING" /\ Elapsed <= MOTOR_GRACE
    <3>1. open <= StarterLimit + Elapsed
      BY <2>0, <2>2, Limits DEF OpenInv, IInv, TypeOK
    <3> QED BY <1>1, <2>0, <2>2, <3>1, Limits DEF OpenInv, relayVars
  <2>3. CASE state = "RUNNING" /\ motor
    <3>1. open <= Motor!Settled - 1
      <4>1. CASE open = 0
        BY <4>1, Limits
      <4>2. CASE 0 < open
        <5>1. held # Motor!Settled
          BY <2>3, <4>2, MotorIsTimely
          DEF OpenInv, DetectedInTime, Motor!DetectedInTime, MotorInv, Motor!TypeOK
        <5>2. open <= held /\ held <= Motor!Settled
          BY <5>1, <2>0, Limits DEF OpenInv, MotorInv, Motor!TypeOK
        <5> QED BY <5>1, <5>2, <2>0, Limits
      <4> QED BY <4>1, <4>2, <2>0
    <3> QED BY <1>1, <2>0, <2>3, <3>1, Limits DEF OpenInv, relayVars
  <2>4. ~MotorLost /\ state \in Driving
    BY <1>4, <2>0 DEF NothingDue, IInv, RelaysMatchState
  <2> QED BY <2>0, <2>1, <2>2, <2>3, <2>4, Limits
          DEF MotorLost, Driving, IInv, TypeOK
<1>5. ~small_no' \/ ReleaseStarter \/ NothingDue
  <2>1. ASSUME EndStopPulse \/ EndCooldown PROVE ~small_no'
    BY <2>1 DEF EndStopPulse, PulseDue, EndCooldown, RestDue, IInv, RelaysMatchState, Driving
  <2> QED BY <1>1, <2>1 DEF RelayTick, TripOnMotorLoss, AllRelaysSafe
<1> QED BY <1>2, <1>3, <1>4, <1>5

LEMMA TimeOpen ==
  IInv /\ IInv' /\ MotorInv /\ MotorInv' /\ OpenInv /\ TimePasses => OpenInv'
<1> SUFFICES ASSUME IInv, IInv', MotorInv, MotorInv', OpenInv, TimePasses PROVE OpenInv'
  OBVIOUS
<1>1. CASE ~(small_no /\ ~pin)
  BY <1>1, NotOpen DEF TimePasses
<1>2. CASE small_no /\ ~pin
  <2>1. /\ open' = open + 1 /\ lag' = lag + 1 /\ UNCHANGED relayVars /\ pin' = pin
        /\ wound' = (IF large_no THEN wound + 1 ELSE 0)
        /\ held' = Motor!Age(held)
    BY <1>2 DEF TimePasses, Millisecond, Motor!Millisecond
  <2>2. /\ Elapsed \in Nat /\ Elapsed \in Instant
        /\ Elapsed' = (IF Elapsed = CLOCK - 1 THEN 0 ELSE Elapsed + 1)
    <3>1. Elapsed' = Since(Following(ms_counter), state_enter_ms)
      BY <2>1 DEF TimePasses, Millisecond, Elapsed, relayVars, Since
    <3> QED BY <3>1, SinceFollowing, ElapsedNat DEF Elapsed, IInv, TypeOK
  <2>3. /\ open \in Nat /\ held \in Nat /\ held <= Motor!Settled /\ wound \in Nat
        /\ lag \in Nat /\ lag' <= MaxLag
    BY Limits DEF OpenInv, MotorInv, Motor!TypeOK, IInv, TypeOK
  <2>4. open' <= held' \/ held' = Motor!Settled
    BY <2>1, <2>3, Limits DEF OpenInv, Motor!Age
  <2>5. state = "STARTING" => open' <= wound'
    BY <2>1, <2>3 DEF OpenInv, IInv, RelaysMatchState
  <2>6. state = "RUNNING" => \/ Elapsed' - lag' <= MOTOR_GRACE /\ open' <= StarterLimit + Elapsed'
                             \/ open' <= Motor!Settled - 1 + lag'
    <3>1. CASE Elapsed - lag <= MOTOR_GRACE /\ open <= StarterLimit + Elapsed
      <4>1. Elapsed' = Elapsed + 1
        BY <2>1, <2>2, <2>3, <3>1, Limits, TimingAssumption, ClockAssumption
      <4> QED BY <2>1, <2>2, <2>3, <3>1, <4>1, Limits
    <3>2. CASE open <= Motor!Settled - 1 + lag
      BY <2>1, <2>3, <3>2, Limits
    <3> QED BY <3>1, <3>2 DEF OpenInv
  <2> QED BY <1>2, <2>1, <2>3, <2>4, <2>5, <2>6, Limits DEF OpenInv, relayVars
<1> QED BY <1>1, <1>2

LEMMA UnitOpen ==
  IInv /\ IInv' /\ MotorInv /\ MotorInv' /\ OpenInv /\ [UnitNext]_unitVars => OpenInv'
<1> SUFFICES ASSUME IInv, IInv', MotorInv, MotorInv', OpenInv, [UnitNext]_unitVars
             PROVE  OpenInv'
  OBVIOUS
<1>1. ASSUME CommDone \/ MotorTick \/ UNCHANGED unitVars PROVE OpenInv'
  <2>1. UNCHANGED <<open, pin, held, ms_counter, lag>> /\ UNCHANGED relayVars
    BY <1>1 DEF CommDone, MotorTick, unitVars, relayOwn, observers, sampling,
                MotorChanges, Motor!MotorDetectTick
  <2>2. wound' = IF large_no' THEN wound ELSE 0
    BY <1>1, <2>1 DEF CommDone, MotorTick, unitVars, relayOwn, observers, MotorChanges,
                Observe, IInv, RelaysMatchState, StarterInv, relayVars
  <2> QED BY <2>1, <2>2, StillOpen
<1>2. ASSUME NEW who, ContactMoves(who) PROVE OpenInv'
  BY <1>2, NotOpen DEF ContactMoves
<1>3. CASE Reboot
  BY <1>3, NotOpen DEF Reboot
<1> QED BY <1>1, <1>2, <1>3, CommandOpen, RoundOpen, TimeOpen
    DEF UnitNext, PullIn, GreenButton, DropOut, ExternalStop

LEMMA OpenIsBounded == IInv /\ OpenInv => OpenCoilReleased
<1> SUFFICES ASSUME IInv, OpenInv PROVE open <= DryLimit
  BY DEF OpenCoilReleased
<1>1. /\ lag \in Nat /\ lag <= MaxLag /\ wound \in Nat /\ Elapsed \in Nat /\ open \in Nat
      /\ DryLimit = StarterLimit + MOTOR_GRACE + MaxLag
  <2>1. Elapsed \in Nat
    BY SinceType, ClockAssumption DEF Elapsed, IInv, TypeOK, Instant
  <2> QED BY <2>1, Limits DEF IInv, TypeOK, OpenInv, DryLimit
<1>2. CASE state = "STARTING"
  BY <1>1, <1>2, Limits DEF IInv, StarterInv, OpenInv
<1>3. CASE state = "RUNNING"
  BY <1>1, <1>3, Limits DEF OpenInv
<1>4. CASE state \notin Driving
  BY <1>1, <1>4, Limits DEF OpenInv, IInv, RelaysMatchState
<1> QED BY <1>2, <1>3, <1>4 DEF Driving

(* A stop pulse works, and everything else that stops driving the coil     *)
(* leaves its mark.                                                        *)
HoldInv == PulseInv /\ StoppedUnlessHeld

LEMMA UnitHold ==
  IInv /\ HoldInv /\ [UnitNext]_unitVars => HoldInv'
<1> SUFFICES ASSUME IInv, HoldInv, [UnitNext]_unitVars PROVE HoldInv'
  OBVIOUS
<1>1. ASSUME UNCHANGED relayVars, UNCHANGED <<ms_counter, pin, holder>> PROVE HoldInv'
  <2>1. Elapsed' = Elapsed
    BY <1>1, SameElapsed
  <2> QED BY <1>1, <2>1 DEF HoldInv, PulseInv, StoppedUnlessHeld, relayVars
<1>2. ASSUME Command, ~UNCHANGED relayVars PROVE HoldInv'
  <2>1. PulseInv'
    BY <1>2, Commands DEF PulseInv
  <2>2. state = "LOCKED" => nc
    BY DEF IInv, RelaysMatchState
  <2>3. StoppedUnlessHeld'
    BY <1>2, <2>2, Commands DEF StoppedUnlessHeld
  <2> QED BY <2>1, <2>3 DEF HoldInv
<1>3. ASSUME Command, UNCHANGED relayVars PROVE HoldInv'
  BY <1>1, <1>3, Commands DEF relayVars
<1>4. ASSUME CommDone \/ MotorTick \/ UNCHANGED unitVars PROVE HoldInv'
  BY <1>1, <1>4 DEF CommDone, MotorTick, unitVars, relayOwn, MotorChanges,
                    Motor!MotorDetectTick
<1>5. ASSUME RelayRound PROVE HoldInv'
  <2>0. /\ UNCHANGED <<ms_counter, pin>> /\ RelayTick
        /\ holder' = (IF TripOnMotorLoss /\ pin THEN "trip" ELSE holder)
    BY <1>5 DEF RelayRound, RelayTick
  <2>1. CASE ReleaseStarter
    BY <2>1 DEF ReleaseStarter, StarterDue, EnterState, HoldInv, PulseInv,
                StoppedUnlessHeld, IInv, RelaysMatchState, Driving
  <2>2. CASE TripOnMotorLoss
    BY <2>0, <2>2 DEF TripOnMotorLoss, EnterState, HoldInv, PulseInv, StoppedUnlessHeld
  <2>3. CASE EndStopPulse
    <3>1. ~pin
      BY <2>3, TimingAssumption DEF EndStopPulse, PulseDue, HoldInv, PulseInv
    <3> QED BY <2>0, <3>1 DEF HoldInv, PulseInv, StoppedUnlessHeld
  <2>4. CASE EndCooldown
    BY <2>0, <2>4 DEF EndCooldown, RestDue, TripOnMotorLoss, MotorLost, EnterState,
                      HoldInv, PulseInv, StoppedUnlessHeld
  <2>5. CASE NothingDue
    BY <1>1, <2>0, <2>5 DEF NothingDue, TripOnMotorLoss
  <2> QED BY <2>0, <2>1, <2>2, <2>3, <2>4, <2>5 DEF RelayTick
<1>6. ASSUME TimePasses PROVE HoldInv'
  <2>1. UNCHANGED relayVars /\ UNCHANGED <<pin, holder>> /\ ~(pin /\ nc)
    BY <1>6 DEF TimePasses, Millisecond, Motor!Millisecond
  <2> QED BY <2>1 DEF HoldInv, PulseInv, StoppedUnlessHeld, relayVars, IInv, RelaysMatchState
<1>7. ASSUME PullIn \/ GreenButton \/ DropOut \/ ExternalStop PROVE HoldInv'
  BY <1>7 DEF PullIn, GreenButton, DropOut, ExternalStop, ContactMoves, Motor!PinChanges,
              relayOwn, relayVars, HoldInv, PulseInv, StoppedUnlessHeld, IInv,
              RelaysMatchState
<1>8. ASSUME Reboot PROVE HoldInv'
  BY <1>8 DEF Reboot, PowerCycle, Motor!PowerCycle, HoldInv, PulseInv, StoppedUnlessHeld
<1> QED BY <1>2, <1>3, <1>4, <1>5, <1>6, <1>7, <1>8 DEF UnitNext

-----------------------------------------------------------------------------
UInv == IInv /\ MotorInv /\ OpenInv /\ HoldInv

LEMMA InitUInv == UnitInit => UInv
<1> SUFFICES ASSUME UnitInit PROVE UInv
  OBVIOUS
<1>1. IInv /\ MotorInv
  BY InitIInv, InitMotor DEF UnitInit
<1>2. OpenInv
  <2>1. open = 0 /\ state = "IDLE"
    BY DEF UnitInit, Init
  <2>2. held \in Nat
    BY <1>1, Limits DEF MotorInv, Motor!TypeOK
  <2> QED BY <2>1, <2>2 DEF OpenInv
<1>3. HoldInv
  BY DEF UnitInit, HoldInv, PulseInv, StoppedUnlessHeld
<1> QED BY <1>1, <1>2, <1>3 DEF UInv

LEMMA NextUInv == UInv /\ [UnitNext]_unitVars => UInv'
BY UnitRelay, UnitMotor, UnitOpen, UnitHold DEF UInv

(* What the four parts of the unit keep at every instant (UInv): the relay *)
(* state machine, the debounced feedback, the time its contactor has been  *)
(* open, and who holds it closed.                                          *)
THEOREM UnitInvariant == UnitSpec => []UInv
BY InitUInv, NextUInv, PTL DEF UnitSpec

(* The superloop's own variables are of their types. *)
LoopTypeOK ==
  /\ pc \in {"comm", "motor", "relay"}
  /\ holder \in {"none", "green", "trip", "unlock", "power"}

LEMMA LoopTypes == UnitSpec => []LoopTypeOK
<1>1. UnitInit => LoopTypeOK
  BY DEF UnitInit, LoopTypeOK
<1>2. LoopTypeOK /\ [UnitNext]_unitVars => LoopTypeOK'
  BY DEF LoopTypeOK, UnitNext, unitVars, Command, CommDone, MotorTick, RelayRound, Then,
         PullIn, GreenButton, DropOut, ExternalStop, ContactMoves, TimePasses, Reboot
<1> QED BY <1>1, <1>2, PTL DEF UnitSpec

(* The types of the unit hold, and the debounced level is never out of     *)
(* date for longer than three late samples take, whatever the superloop    *)
(* was doing meanwhile and wherever ms_counter wraps (DebounceInv).        *)
THEOREM FeedbackIsTimely == UnitSpec => []DebounceInv
<1>1. UInv /\ LoopTypeOK => DebounceInv
  BY MotorIsTimely
  DEF UInv, LoopTypeOK, DebounceInv, UnitTypeOK, IInv, MotorInv, OpenInv
<1> QED BY <1>1, UnitInvariant, LoopTypes, PTL

(* Every change of the debounced level but the one at boot rests on samples *)
(* that span the whole debounce window (GlitchFree), with the commands and  *)
(* the relay ticks of the superloop in between.                             *)
THEOREM FeedbackIsGlitchFree == UnitSpec => GlitchFree
<1>1. UInv /\ [UnitNext]_unitVars =>
        [motor' # motor =>
           \/ Motor!PowerCycle
           \/ span' >= (DEBOUNCE_THRESHOLD - 1) * DEBOUNCE_INTERVAL]_(Motor!vars)
  BY NoGlitch DEF UInv
<1> QED BY <1>1, UnitInvariant, PTL DEF UnitSpec, GlitchFree, Motor!GlitchFree

(* A coil whose contactor does not close, or is held open, is let go of     *)
(* within the limit of the relay timers alone (OpenCoilReleased).           *)
THEOREM OpenCoilSafe == UnitSpec => []OpenCoilReleased
<1>1. UInv => OpenCoilReleased
  BY OpenIsBounded DEF UInv
<1> QED BY <1>1, UnitInvariant, PTL

(* Once the unit has stopped driving the coil, a contactor that is still    *)
(* closed is held by the Green button, by a trip, an unlock or a restart    *)
(* (StoppedUnlessHeld): a stop pulse always opens it.                       *)
THEOREM StopWorks == UnitSpec => []StoppedUnlessHeld
<1>1. UInv => StoppedUnlessHeld
  BY DEF UInv, HoldInv
<1> QED BY <1>1, UnitInvariant, PTL
=============================================================================
