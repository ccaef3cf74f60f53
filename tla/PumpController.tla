---------------------------- MODULE PumpController ----------------------------
(***************************************************************************)
(* The Control Unit's pump controller (PumpController.cc).  The main loop, *)
(* the controller's worker and the tasks of the button and of MQTT call it *)
(* at once; nothing is locked but the claim of a start.  A step of a task  *)
(* ends where the code blocks: a tune of two seconds, an exchange with the *)
(* Switching Unit, a timer command, a write to NVS.                        *)
(*                                                                         *)
(* Time and the readings behind stall detection are left open: a timer may *)
(* fire at any moment, and every reading is any level of the tank.         *)
(* A definition that ends in Bug is a mutant of the one that follows it.   *)
(***************************************************************************)
EXTENDS Naturals

CONSTANTS
  Caller,       \* the tasks of the button and of MQTT
  MaxTimers,    \* lockout timers for which there is memory
  MaxRestarts   \* restarts of the Control Unit

ASSUME ControllerAssumption ==
  /\ Caller \cap {"main", "worker"} = {}
  /\ MaxTimers \in Nat \ {0} /\ MaxRestarts \in Nat

VARIABLES
  motor,              \* the motor runs
  motorRunning,       \* SwitchingUnitManager's belief, getCurrentMotorState
  startInProgress,    \* _pumpStartInProgress
  restartRequired,    \* manualPumpRestartRequired
  isLockoutTimerActive,
  lockoutTimer,       \* manualLockoutTimer, 0 for NULL
  ticking,            \* the lockout timers that will fire
  nvsActive,          \* the lockout as NVS records it
  featureEnabled,     \* _lockoutFeatureEnabled, in memory and in NVS
  recalibrating,      \* isRecalibrationModeActive
  monitoringState,
  monitoringTimer,    \* pumpMonitoringTimer is not NULL
  notified, todo,     \* notification bits: pending, and taken by the worker
  pc, reason,         \* per task: where it is, and why it starts or stops
  restarts

(* Observers: of the run under way, whether it began automatically,        *)
(* whether stall detection watches it and whether a stop of it has failed  *)
(* ("adrift"); and what has happened since the start of the program that   *)
(* the code is not prepared for.                                           *)
VARIABLES run, disturbance

lockout == <<isLockoutTimerActive, lockoutTimer, ticking, nvsActive>>
monitor == <<monitoringState, monitoringTimer>>
flags == <<restartRequired, featureEnabled, recalibrating>>
bits == <<notified, todo>>
calls == <<pc, reason>>
belief == <<motor, motorRunning, run>>
controller == <<belief, startInProgress, flags, lockout, monitor, bits, calls, restarts>>
vars == <<controller, disturbance>>

Task == {"main", "worker"} \cup Caller
Why == {"none", "auto", "manual"}
(* GRACE_PERIOD is MONITORING here: only the clock tells them apart. *)
Monitoring == {"MONITORING", "STALL_SUSPECTED"}
Timer == 1 .. MaxTimers

(* A level of the tank: up to minWaterLevelToStart, up to 10 % above it,   *)
(* between, within 10 % below maxWaterLevelToStop, and from there on;      *)
(* "none" when getSensorData fails.                                        *)
Level == {"low", "near", "middle", "brim", "full"}
Reading == Level \cup {"none"}

(* Where a task is: in a start, in a stop, between a lockout's old timer   *)
(* and its new one, and between a change of isLockoutTimerActive and the   *)
(* write to NVS that follows it.                                           *)
Claimed == {"send_on", "arm", "lock_on", "erase_on", "set_on", "record_on"}
Starting == Claimed \cup {"boot", "erase_expired", "expired", "erase_start", "claim"}
Stopping == {"send_off", "lock_off", "erase_off", "set_off", "record_off"}
Settling == {"erase_on", "erase_off", "set_on", "set_off"}
Erasing == {"erase_on", "erase_off", "erase_expired", "erase_start", "erase_idle"}
Recording == {"record_on", "record_off"}
Writing == Erasing \cup Recording

(* The program starts, for the first time or again: the pump may run, and  *)
(* the lockout that NVS records is taken up again or, when it is over, or  *)
(* all but over, struck off.                                               *)
Init ==
  /\ motor \in BOOLEAN /\ motorRunning = FALSE /\ run = {}
  /\ startInProgress = FALSE
  /\ featureEnabled \in BOOLEAN /\ recalibrating = FALSE
  /\ nvsActive \in BOOLEAN
  /\ isLockoutTimerActive = nvsActive /\ restartRequired = nvsActive
  /\ lockoutTimer = (IF nvsActive THEN 1 ELSE 0) /\ ticking = {lockoutTimer} \ {0}
  /\ monitoringState = "IDLE" /\ monitoringTimer = FALSE
  /\ notified = {} /\ todo = {}
  /\ pc = [t \in Task |-> IF t = "main" THEN "boot" ELSE "idle"]
  /\ reason = [t \in Task |-> "none"]
  /\ restarts = 0 /\ disturbance = "none"

Call(t, label, why) ==
  /\ pc' = [pc EXCEPT ![t] = label] /\ reason' = [reason EXCEPT ![t] = why]
Goto(t, label) == Call(t, label, "none")

-----------------------------------------------------------------------------
(* The lockout.                                                            *)

(* The end of turnWaterPumpOn and of turnWaterPumpOff. *)
Return(t) ==
  /\ Goto(t, "idle")
  /\ startInProgress' = (startInProgress /\ pc[t] \notin Claimed)

TurnWaterPumpOn(t, why) ==
  IF motorRunning THEN Goto(t, "idle") ELSE Call(t, "claim", why)

(* Mutant: the handle is forgotten, the timer is not deleted. *)
StopManualLockoutTimerBug ==
  /\ lockoutTimer' = 0 /\ UNCHANGED <<ticking, nvsActive>>
  /\ isLockoutTimerActive' = FALSE

(* stopManualLockoutTimer, up to its write to NVS: a caller goes on there  *)
(* if the flag was set.                                                    *)
StopManualLockoutTimer ==
  /\ ticking' = ticking \ {lockoutTimer} /\ lockoutTimer' = 0
  /\ isLockoutTimerActive' = FALSE
  /\ UNCHANGED nvsActive

(* updateLockoutNVSStatus(false), and how the caller goes on.              *)
EraseRecord(t) ==
  /\ pc[t] \in Erasing /\ nvsActive' = FALSE
  /\ \/ pc[t] = "erase_on" /\ Goto(t, "set_on") /\ UNCHANGED restartRequired
     \/ pc[t] = "erase_off" /\ Goto(t, "set_off") /\ UNCHANGED restartRequired
     \/ pc[t] = "erase_expired" /\ Goto(t, "expired") /\ UNCHANGED restartRequired
     \/ pc[t] = "erase_idle" /\ Goto(t, "idle") /\ UNCHANGED restartRequired
     \/ pc[t] = "erase_start" /\ TurnWaterPumpOn(t, "manual") /\ restartRequired' = FALSE
  /\ UNCHANGED <<belief, startInProgress, featureEnabled, recalibrating, isLockoutTimerActive,
                 lockoutTimer, ticking, monitor, bits, restarts>>

(* startManualLockoutTimer: the old timer goes, ... *)
ClearLockout(t) ==
  /\ pc[t] \in {"lock_on", "lock_off"} /\ StopManualLockoutTimer
  /\ IF isLockoutTimerActive
     THEN Goto(t, IF pc[t] = "lock_on" THEN "erase_on" ELSE "erase_off")
     ELSE Goto(t, IF pc[t] = "lock_on" THEN "set_on" ELSE "set_off")
  /\ UNCHANGED <<belief, startInProgress, flags, monitor, bits, restarts>>

(* ... a new one comes, if there is memory for it, ... *)
StartLockout(t) ==
  /\ pc[t] \in {"set_on", "set_off"}
  /\ IF ticking = Timer
     THEN Return(t) /\ UNCHANGED lockout
     ELSE /\ lockoutTimer' = CHOOSE i \in Timer \ ticking : TRUE
          /\ ticking' = ticking \cup {lockoutTimer'}
          /\ isLockoutTimerActive' = TRUE
          /\ Goto(t, IF pc[t] = "set_on" THEN "record_on" ELSE "record_off")
          /\ UNCHANGED <<nvsActive, startInProgress>>
  /\ UNCHANGED <<belief, flags, monitor, bits, restarts>>

(* ... and NVS is told, with the time it began.                            *)
RecordLockout(t) ==
  /\ pc[t] \in Recording /\ Return(t)
  /\ nvsActive' = TRUE
  /\ UNCHANGED <<belief, flags, isLockoutTimerActive, lockoutTimer, ticking, monitor, bits,
                 restarts>>

TimerFires(i) ==
  /\ i \in ticking /\ ticking' = ticking \ {i}
  /\ notified' = notified \cup {"expired"}
  /\ UNCHANGED <<belief, startInProgress, flags, isLockoutTimerActive, lockoutTimer,
                 nvsActive, monitor, todo, calls, restarts>>

-----------------------------------------------------------------------------
(* turnWaterPumpOn begins with the test its callers make too: it is made   *)
(* before the critical section.                                            *)

(* Mutant: the claim does not look at the flag it sets. *)
ClaimBug(t) ==
  /\ pc[t] = "claim" /\ Call(t, "send_on", reason[t])
  /\ startInProgress' = TRUE
  /\ UNCHANGED <<belief, flags, lockout, monitor, bits, restarts>>

Claim(t) ==
  /\ pc[t] = "claim"
  /\ IF startInProgress THEN Goto(t, "idle") ELSE Call(t, "send_on", reason[t])
  /\ startInProgress' = TRUE
  /\ UNCHANGED <<belief, flags, lockout, monitor, bits, restarts>>

(* The Switching Unit accepts, ... *)
Accepted(t) ==
  /\ pc[t] = "send_on" /\ Goto(t, "arm")
  /\ motor' = TRUE /\ motorRunning' = TRUE
  /\ run' = IF disturbance = "overlap" THEN {} ELSE {reason[t]} \cap {"auto"}
  /\ UNCHANGED <<startInProgress, flags, lockout, monitor, bits, restarts>>

(* ... or refuses: it is locked, the exchange fails or, with the time that *)
(* is left of it, it is in cooldown.                                       *)
Refused(t) ==
  /\ pc[t] = "send_on"
  /\ \/ Return(t) /\ UNCHANGED restartRequired
     \/ /\ restartRequired' = TRUE
        /\ IF featureEnabled THEN Goto(t, "lock_on") /\ UNCHANGED startInProgress
                             ELSE Return(t)
  /\ UNCHANGED <<belief, featureEnabled, recalibrating, lockout, monitor, bits, restarts>>

(* A run is watched unless it calibrates.  The window of the grace period  *)
(* depends on the level and on the stored priming period.                  *)
Watch ==
  /\ monitoringState' = "MONITORING" /\ monitoringTimer' = TRUE
  /\ run' = IF disturbance = "overlap" THEN run ELSE run \cup {"watched"}

Arm(t) ==
  /\ pc[t] = "arm" /\ Return(t)
  /\ IF recalibrating
     THEN monitoringState' = "IDLE" /\ monitoringTimer' = FALSE /\ run' = run \ {"watched"}
     ELSE Watch
  /\ UNCHANGED <<motor, motorRunning, flags, lockout, bits, restarts>>

-----------------------------------------------------------------------------
(* turnWaterPumpOff.                                                       *)

TurnWaterPumpOff(t, why) ==
  /\ motorRunning
  /\ Call(t, "send_off", why) /\ monitoringState' = "IDLE"

(* A manual stop needs a lockout up to 10 % above the start level. *)
NeedsLockout(t, reading) ==
  IF reason[t] = "manual" THEN reading \in {"low", "near", "none"} ELSE restartRequired

(* The observer of a run whose stop failed; there is nothing to observe of *)
(* a run that others began, or after operations overlapped.                *)
Adrift == IF run = {} \/ disturbance = "overlap" THEN {} ELSE run \cup {"adrift"}

(* A stop that fails is logged, and the pump runs on; the rest of the      *)
(* handler is the same.                                                    *)
SendOff(t) ==
  /\ pc[t] = "send_off"
  /\ \/ motor' = FALSE /\ motorRunning' = FALSE /\ run' = {}
     \/ UNCHANGED <<motor, motorRunning>> /\ run' = Adrift
  /\ monitoringTimer' = FALSE
  /\ \E needed \in {NeedsLockout(t, reading) : reading \in Reading} :
       IF needed
       THEN restartRequired' = TRUE /\ Goto(t, IF featureEnabled THEN "lock_off" ELSE "idle")
       ELSE UNCHANGED restartRequired /\ Goto(t, "idle")
  /\ UNCHANGED <<startInProgress, featureEnabled, recalibrating, lockout, monitoringState,
                 bits, restarts>>

-----------------------------------------------------------------------------
(* The main loop, and the thresholds a command changes.                    *)

MayAutoStart == ~restartRequired \/ ~featureEnabled \/ ~isLockoutTimerActive

AutoStart(t) ==
  /\ ~motorRunning /\ MayAutoStart
  /\ restartRequired' = FALSE /\ TurnWaterPumpOn(t, "auto")
  /\ UNCHANGED <<recalibrating, monitoringState>>

(* A calibration is over when the level rose by 10 %. *)
StopAtMaximum(t) ==
  /\ TurnWaterPumpOff(t, "auto")
  /\ recalibrating' \in {recalibrating, FALSE}
  /\ UNCHANGED restartRequired

HandleWaterLevelChange(t, level) ==
  /\ pc[t] = "idle" /\ t # "worker"
  /\ \/ level = "low" /\ AutoStart(t)
     \/ level = "full" /\ StopAtMaximum(t)
  /\ UNCHANGED <<belief, startInProgress, featureEnabled, lockout, monitoringTimer, bits,
                 restarts>>

(* After a start of the program: a motor that is believed to run is put    *)
(* under control.                                                          *)
SyncWithHardwareState ==
  /\ pc["main"] = "boot" /\ Goto("main", "idle")
  /\ IF motorRunning THEN Watch ELSE UNCHANGED <<monitor, run>>
  /\ UNCHANGED <<motor, motorRunning, startInProgress, flags, lockout, bits, restarts>>

-----------------------------------------------------------------------------
(* The button and MQTT; a toggle is one of the first two.                  *)

(* The level is less than 10 % below the maximum. *)
AttemptManualPumpStart(c) ==
  /\ pc[c] = "idle" /\ ~motorRunning
  /\ StopManualLockoutTimer
  /\ IF isLockoutTimerActive
     THEN Goto(c, "erase_start") /\ UNCHANGED restartRequired
     ELSE TurnWaterPumpOn(c, "manual") /\ restartRequired' = FALSE
  /\ UNCHANGED <<belief, startInProgress, featureEnabled, recalibrating, monitor, bits,
                 restarts>>

ManualStop(c) ==
  /\ pc[c] = "idle" /\ TurnWaterPumpOff(c, "manual")
  /\ UNCHANGED <<belief, startInProgress, flags, lockout, monitoringTimer, bits, restarts>>

SetRecalibrationMode(c, enable) ==
  /\ pc[c] = "idle" /\ recalibrating' = enable
  /\ IF enable THEN StopManualLockoutTimer ELSE UNCHANGED lockout
  /\ IF enable /\ isLockoutTimerActive THEN Goto(c, "erase_idle") ELSE UNCHANGED calls
  /\ UNCHANGED <<belief, startInProgress, restartRequired, featureEnabled, monitor, bits,
                 restarts>>

SetLockoutFeatureEnabled(c, enabled) ==
  /\ pc[c] = "idle" /\ ~motorRunning
  /\ featureEnabled' = enabled
  /\ UNCHANGED <<belief, startInProgress, restartRequired, recalibrating, lockout, monitor,
                 bits, calls, restarts>>

-----------------------------------------------------------------------------
(* The worker and the timers that wake it.                                 *)

(* Mutant: the notification overwrites the bits that wait. *)
StallTimerFiresBug ==
  /\ monitoringTimer /\ "stall" \notin notified
  /\ notified' = {"stall"}
  /\ UNCHANGED <<belief, startInProgress, flags, lockout, monitor, todo, calls, restarts>>

StallTimerFires ==
  /\ monitoringTimer /\ "stall" \notin notified
  /\ notified' = notified \cup {"stall"}
  /\ UNCHANGED <<belief, startInProgress, flags, lockout, monitor, todo, calls, restarts>>

(* Mutant: a calibration that begins in the middle of a run ends its watch. *)
StallVerdictBug ==
  IF recalibrating \/ monitoringState = "IDLE" THEN {"IDLE"} ELSE Monitoring

(* Where a check may lead: time, the smoothed level and the confirmation   *)
(* readings decide.                                                        *)
StallVerdict ==
  IF recalibrating \/ monitoringState = "IDLE" THEN {monitoringState} ELSE Monitoring

ProcessStallDetection ==
  \/ monitoringState' \in StallVerdict /\ UNCHANGED <<restartRequired, calls>>
  \/ /\ monitoringState = "STALL_SUSPECTED" /\ ~recalibrating
     /\ restartRequired' = TRUE
     /\ \/ TurnWaterPumpOff("worker", "auto")
        \/ ~motorRunning /\ UNCHANGED <<monitoringState, calls>>

AfterStallCheck == notified \ {"stall"}

(* The worker takes all bits at once; a stall check comes first. *)
TakeNotifications ==
  /\ pc["worker"] = "idle" /\ todo = {} /\ notified # {}
  /\ todo' = AfterStallCheck /\ notified' = {}
  /\ IF "stall" \in notified THEN ProcessStallDetection
                              ELSE UNCHANGED <<monitoringState, restartRequired, calls>>
  /\ UNCHANGED <<belief, startInProgress, featureEnabled, recalibrating, lockout,
                 monitoringTimer, restarts>>

HandleLockoutExpired ==
  /\ pc["worker"] = "idle" /\ "expired" \in todo /\ todo' = {}
  /\ isLockoutTimerActive' = FALSE /\ restartRequired' = FALSE
  /\ Goto("worker", "erase_expired")
  /\ UNCHANGED <<belief, startInProgress, featureEnabled, recalibrating, lockoutTimer,
                 ticking, nvsActive, monitor, notified, restarts>>

(* ... which ends, after the write to NVS, with a start, if the level asks *)
(* for one.                                                                *)
RestartIfLow ==
  /\ pc["worker"] = "expired"
  /\ \/ TurnWaterPumpOn("worker", "auto") /\ restartRequired' = FALSE
     \/ Goto("worker", "idle") /\ UNCHANGED restartRequired
  /\ UNCHANGED <<belief, startInProgress, featureEnabled, recalibrating, lockout, monitor,
                 bits, restarts>>

-----------------------------------------------------------------------------
(* The Switching Unit reports that the motor started or stopped without a  *)
(* command: a button, the overload relay, a trip, an answer that was late. *)
MotorEvent ==
  /\ motor' = ~motor /\ motorRunning' = motor' /\ run' = {}
  /\ UNCHANGED <<startInProgress, flags, lockout, monitor, bits, calls, restarts>>

(* restoreLockoutStateFromNVS. *)
RestoreLockout ==
  \E restored \in {FALSE, nvsActive} :
    /\ isLockoutTimerActive' = restored /\ nvsActive' = restored
    /\ restartRequired' = restored
    /\ lockoutTimer' = (IF restored THEN 1 ELSE 0) /\ ticking' = {lockoutTimer'} \ {0}

(* The Control Unit restarts, the Switching Unit does not. *)
Restart ==
  /\ restarts < MaxRestarts /\ restarts' = restarts + 1
  /\ motorRunning' = FALSE /\ run' = {} /\ startInProgress' = FALSE
  /\ recalibrating' = FALSE
  /\ RestoreLockout
  /\ monitoringState' = "IDLE" /\ monitoringTimer' = FALSE
  /\ notified' = {} /\ todo' = {}
  /\ pc' = [t \in Task |-> IF t = "main" THEN "boot" ELSE "idle"]
  /\ reason' = [t \in Task |-> "none"]
  /\ UNCHANGED <<motor, featureEnabled>>

Step(t) ==
  \/ Claim(t) \/ Accepted(t) \/ Refused(t) \/ Arm(t)
  \/ SendOff(t)
  \/ ClearLockout(t) \/ EraseRecord(t) \/ StartLockout(t) \/ RecordLockout(t)

Worker ==
  \/ TakeNotifications \/ HandleLockoutExpired \/ RestartIfLow

Request(c) ==
  \/ AttemptManualPumpStart(c)
  \/ ManualStop(c)
  \/ \E b \in BOOLEAN : SetRecalibrationMode(c, b) \/ SetLockoutFeatureEnabled(c, b)

(* Two operations or two writes of the lockout's record are under way at   *)
(* once; or the lockout's switch, timer or expiry comes in the middle of   *)
(* an operation.                                                           *)
Overlap ==
  \/ \E t \in Task : /\ pc[t] \in Starting \cup Stopping
                     /\ \E u \in Task \ {t} : pc[u] \in Claimed \cup Stopping
  \/ \E t, u \in Task : t # u /\ pc[t] \in Writing /\ pc[u] \in Writing
  \/ \E t \in Task : \/ pc[t] \in Starting /\ featureEnabled' # featureEnabled
                     \/ pc[t] \in Settling /\ pc'[t] = pc[t] /\ lockoutTimer' # lockoutTimer
                     \/ pc[t] \in {"lock_on", "lock_off"} /\ "expired" \in notified \cup todo

Switch == isLockoutTimerActive /\ featureEnabled' # featureEnabled

Next ==
  /\ \/ \E t \in Task : Step(t)
     \/ Worker \/ SyncWithHardwareState
     \/ \E t \in Task, level \in Level : HandleWaterLevelChange(t, level)
     \/ \E c \in Caller : Request(c)
     \/ \E i \in Timer : TimerFires(i)
     \/ StallTimerFires \/ MotorEvent \/ Restart
  /\ disturbance' = IF restarts' # restarts THEN "none"
                    ELSE IF disturbance = "overlap" \/ Overlap THEN "overlap"
                    ELSE IF Switch THEN "switch" ELSE disturbance

Spec == Init /\ [][Next]_vars

(* Every exchange with the Switching Unit ends in an answer or a timeout,  *)
(* and FreeRTOS runs each ready task and the daemon of its timers.         *)
Fairness ==
  /\ \A t \in Task : WF_controller(Step(t))
  /\ WF_controller(Worker)
  /\ \A i \in Timer : WF_controller(TimerFires(i))

FairSpec == Spec /\ Fairness

-----------------------------------------------------------------------------
(* Types, and where a task may be. *)
TypeOK ==
  /\ motor \in BOOLEAN /\ motorRunning \in BOOLEAN /\ run \subseteq {"auto", "watched", "adrift"}
  /\ startInProgress \in BOOLEAN
  /\ restartRequired \in BOOLEAN /\ featureEnabled \in BOOLEAN /\ recalibrating \in BOOLEAN
  /\ isLockoutTimerActive \in BOOLEAN /\ nvsActive \in BOOLEAN
  /\ lockoutTimer \in 0 .. MaxTimers /\ ticking \subseteq Timer
  /\ monitoringState \in {"IDLE"} \cup Monitoring /\ monitoringTimer \in BOOLEAN
  /\ notified \subseteq {"stall", "expired"} /\ todo \subseteq {"expired"}
  /\ pc \in [Task -> {"idle", "erase_idle"} \cup Starting \cup Stopping]
  /\ reason \in [Task -> Why]
  /\ restarts \in 0 .. MaxRestarts
  /\ disturbance \in {"none", "switch", "overlap"}

(* At most one task is in the middle of a start, and the flag says so: the *)
(* critical section of turnWaterPumpOn (548-553) is the only lock there is *)
(* around the two seconds of the tune and the command to the relay.        *)
OneStarter ==
  /\ \A t, u \in Task : pc[t] \in Claimed /\ pc[u] \in Claimed => t = u
  /\ startInProgress <=> \E t \in Task : pc[t] \in Claimed

(* A pump that this unit started in normal mode runs under stall detection *)
(* until a stop, whatever commands, timers, restarts and modes came in     *)
(* between, unless operations overlapped.  After a stop that failed        *)
(* nothing watches the pump that runs on ("adrift").                       *)
Watched ==
  (motorRunning /\ "watched" \in run /\ "adrift" \notin run /\ disturbance # "overlap"
     /\ \A t \in Task : pc[t] \notin Starting \cup Stopping)
  => monitoringState \in Monitoring /\ monitoringTimer

(* The lockout keeps the pump from starting by itself: no run that began   *)
(* automatically coexists with a lockout in force, unless operations       *)
(* overlapped, the feature was switched in the middle of a lockout, or the *)
(* stop failed that the lockout came with.                                 *)
LockoutHolds ==
  disturbance = "none" /\ "adrift" \notin run =>
    ~(isLockoutTimerActive /\ featureEnabled /\ motorRunning /\ "auto" \in run)

(* Unless operations overlapped, a lockout in force has a timer that will  *)
(* end it or an expiry that waits to be handled, no other timer is left to *)
(* cut a later lockout short, and NVS says the same as the flag whenever   *)
(* no task stands between its change of the flag and its write to NVS:     *)
(* what a restart takes up again is the lockout that was in force.         *)
LockoutBacked ==
  disturbance # "overlap" =>
    /\ isLockoutTimerActive => lockoutTimer \in ticking \/ "expired" \in notified \cup todo
    /\ ticking \subseteq {lockoutTimer}
    /\ ticking # {} => isLockoutTimerActive
    /\ (\A t \in Task : pc[t] \notin Writing) => (nvsActive <=> isLockoutTimerActive)

(* Every claim of a start is given back, also by a start that is refused:  *)
(* otherwise the pump would never start again.                             *)
StartReleased == []<>~startInProgress

(* Every lockout ends, also one that a restart has taken up again, unless  *)
(* operations overlapped.                                                  *)
LockoutEnds ==
  [](disturbance # "overlap") => []<>~isLockoutTimerActive

(* The types, and a lockout that keeps its promise: no automatic run       *)
(* during it, and flag, timer and NVS agree (LockoutHolds, LockoutBacked). *)
LockoutInv == TypeOK /\ LockoutHolds /\ LockoutBacked

(* What must come to its end does: starts and lockouts.                    *)
PumpProgress == StartReleased /\ LockoutEnds

(* For TLC with MaxRestarts = 0, as a VIEW: after an overlap, which only a *)
(* restart ends, no action reads `run` or `nvsActive` and no invariant but *)
(* TypeOK looks at them, so that states which differ only there are one.   *)
Told ==
  IF disturbance = "overlap"
  THEN <<motor, motorRunning, startInProgress, flags, isLockoutTimerActive, lockoutTimer,
         ticking, monitor, bits, calls, restarts, disturbance>>
  ELSE vars
=============================================================================
