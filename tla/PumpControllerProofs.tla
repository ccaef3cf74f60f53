------------------------ MODULE PumpControllerProofs ------------------------
(***************************************************************************)
(* The critical section of turnWaterPumpOn, the watch over a run and the   *)
(* lockout, proved for any number of tasks, timers and restarts.           *)
(***************************************************************************)
EXTENDS PumpController, TLAPS

Label == {"idle", "erase_idle"} \cup Starting \cup Stopping

(* What the critical section rests on: where the tasks are, and the flag. *)
IInv ==
  /\ pc \in [Task -> Label] /\ startInProgress \in BOOLEAN
  /\ OneStarter

LEMMA InitIInv == Init => IInv
BY DEF Init, IInv, OneStarter, Label, Starting, Stopping, Claimed

-----------------------------------------------------------------------------
(* A step that moves no task and leaves the flag alone. *)
LEMMA StayIInv ==
  ASSUME IInv, UNCHANGED <<pc, startInProgress>>
  PROVE  IInv'
BY DEF IInv, OneStarter

(* A task moves and neither enters nor leaves the middle of a start. *)
LEMMA MoveIInv ==
  ASSUME IInv, NEW t \in Task, NEW label \in Label,
         pc' = [pc EXCEPT ![t] = label],
         label \in Claimed <=> pc[t] \in Claimed,
         startInProgress' = startInProgress
  PROVE  IInv'
<1>1. pc' \in [Task -> Label] /\ startInProgress' \in BOOLEAN BY DEF IInv
<1>2. \A u \in Task : pc'[u] \in Claimed <=> pc[u] \in Claimed BY DEF IInv
<1>3. OneStarter' BY <1>2 DEF IInv, OneStarter
<1> QED BY <1>1, <1>3 DEF IInv

(* A task claims the start that nobody has claimed. *)
LEMMA EnterIInv ==
  ASSUME IInv, NEW t \in Task, ~startInProgress,
         pc' = [pc EXCEPT ![t] = "send_on"], startInProgress' = TRUE
  PROVE  IInv'
<1>1. "send_on" \in Claimed /\ "send_on" \in Label BY DEF Label, Starting, Claimed
<1>2. pc' \in [Task -> Label] /\ startInProgress' \in BOOLEAN BY <1>1 DEF IInv
<1>3. \A u \in Task : pc'[u] \in Claimed <=> u = t BY <1>1 DEF IInv, OneStarter
<1>4. OneStarter' BY <1>3 DEF OneStarter
<1> QED BY <1>2, <1>4 DEF IInv

(* A task returns, from the middle of a start or not. *)
LEMMA ReturnIInv ==
  ASSUME IInv, NEW t \in Task, Return(t)
  PROVE  IInv'
<1>1. "idle" \notin Claimed /\ "idle" \in Label BY DEF Label, Claimed
<1>2. /\ pc' = [pc EXCEPT ![t] = "idle"]
      /\ startInProgress' = (startInProgress /\ pc[t] \notin Claimed)
  BY DEF Return, Goto, Call
<1>3. pc' \in [Task -> Label] /\ startInProgress' \in BOOLEAN BY <1>1, <1>2 DEF IInv
<1>4. \A u \in Task : pc'[u] \in Claimed <=> u # t /\ pc[u] \in Claimed
  BY <1>1, <1>2 DEF IInv
<1>5. OneStarter' BY <1>2, <1>4 DEF IInv, OneStarter
<1> QED BY <1>3, <1>5 DEF IInv

-----------------------------------------------------------------------------
LEMMA ClaimIInv == ASSUME IInv, NEW t \in Task, Claim(t) PROVE IInv'
<1>1. pc[t] = "claim" /\ startInProgress' = TRUE BY DEF Claim
<1>2. CASE startInProgress
  <2>1. pc' = [pc EXCEPT ![t] = "idle"] BY <1>2 DEF Claim, Goto, Call
  <2>2. "idle" \in Label /\ "idle" \notin Claimed /\ pc[t] \notin Claimed
    BY <1>1 DEF Label, Claimed
  <2>3. startInProgress' = startInProgress BY <1>1, <1>2 DEF IInv
  <2> QED BY <2>1, <2>2, <2>3, MoveIInv
<1>3. CASE ~startInProgress
  <2>1. pc' = [pc EXCEPT ![t] = "send_on"] BY <1>3 DEF Claim, Call
  <2> QED BY <1>1, <1>3, <2>1, EnterIInv
<1> QED BY <1>2, <1>3

(* A call begins, or the worker or the start-up goes on, outside a start. *)
Outside ==
  {"idle", "boot", "erase_expired", "expired", "erase_start", "erase_idle", "claim"}

LEMMA OutsideIInv ==
  ASSUME IInv, NEW t \in Task, pc[t] \in Outside,
         NEW label \in Outside \cup {"send_off"},
         pc' = [pc EXCEPT ![t] = label], startInProgress' = startInProgress
  PROVE  IInv'
BY MoveIInv DEF Outside, Label, Starting, Stopping, Claimed

LEMMA TurnOnIInv ==
  ASSUME IInv, NEW t \in Task, pc[t] \in Outside, NEW why,
         TurnWaterPumpOn(t, why), startInProgress' = startInProgress
  PROVE  IInv'
<1>1. PICK label \in {"idle", "claim"} : pc' = [pc EXCEPT ![t] = label]
  BY DEF TurnWaterPumpOn, Goto, Call
<1> QED BY <1>1, OutsideIInv DEF Outside

(* A write to NVS in a start, in a stop or outside. *)
LEMMA EraseIInv == ASSUME IInv, NEW t \in Task, EraseRecord(t) PROVE IInv'
<1>1. startInProgress' = startInProgress BY DEF EraseRecord
<1>2. CASE pc[t] \in {"erase_on", "erase_off"}
  <2>1. PICK label \in {"set_on", "set_off"} :
          pc' = [pc EXCEPT ![t] = label] /\ (label = "set_on" <=> pc[t] = "erase_on")
    BY <1>2 DEF EraseRecord, Goto, Call
  <2> QED BY <1>1, <1>2, <2>1, MoveIInv DEF Label, Starting, Stopping, Claimed
<1>3. CASE pc[t] \in {"erase_expired", "erase_idle"}
  <2>1. PICK label \in {"expired", "idle"} : pc' = [pc EXCEPT ![t] = label]
    BY <1>3 DEF EraseRecord, Goto, Call
  <2> QED BY <1>1, <1>3, <2>1, OutsideIInv DEF Outside
<1>4. CASE pc[t] = "erase_start"
  BY <1>1, <1>4, TurnOnIInv DEF EraseRecord, Outside
<1> QED BY <1>2, <1>3, <1>4 DEF EraseRecord, Erasing

(* The other steps of a start and of a stop. *)
LEMMA StepIInv == ASSUME IInv, NEW t \in Task, Step(t) PROVE IInv'
<1> USE DEF Label, Starting, Stopping, Claimed
<1>1. CASE Claim(t) BY <1>1, ClaimIInv
<1>2. CASE Accepted(t)
  <2>1. /\ pc' = [pc EXCEPT ![t] = "arm"] /\ pc[t] = "send_on"
        /\ startInProgress' = startInProgress
    BY <1>2 DEF Accepted, Goto, Call
  <2> QED BY <2>1, MoveIInv
<1>3. CASE Refused(t)
  <2>1. CASE Return(t) BY <2>1, ReturnIInv
  <2>2. CASE ~Return(t)
    <3>1. /\ pc' = [pc EXCEPT ![t] = "lock_on"] /\ pc[t] = "send_on"
          /\ startInProgress' = startInProgress
      BY <1>3, <2>2 DEF Refused, Goto, Call
    <3> QED BY <3>1, MoveIInv
  <2> QED BY <2>1, <2>2
<1>4. CASE Arm(t) BY <1>4, ReturnIInv DEF Arm
<1>5. CASE SendOff(t)
  <2>1. PICK label \in {"lock_off", "idle"} : pc' = [pc EXCEPT ![t] = label]
    BY <1>5 DEF SendOff, Goto, Call
  <2>2. pc[t] = "send_off" /\ startInProgress' = startInProgress BY <1>5 DEF SendOff
  <2> QED BY <2>1, <2>2, MoveIInv
<1>6. CASE ClearLockout(t)
  <2>1. startInProgress' = startInProgress BY <1>6 DEF ClearLockout
  <2>2. CASE pc[t] = "lock_on"
    <3>1. PICK label \in {"erase_on", "set_on"} : pc' = [pc EXCEPT ![t] = label]
      BY <1>6, <2>2 DEF ClearLockout, Goto, Call
    <3> QED BY <2>1, <2>2, <3>1, MoveIInv
  <2>3. CASE pc[t] = "lock_off"
    <3>1. PICK label \in {"erase_off", "set_off"} : pc' = [pc EXCEPT ![t] = label]
      BY <1>6, <2>3 DEF ClearLockout, Goto, Call
    <3> QED BY <2>1, <2>3, <3>1, MoveIInv
  <2> QED BY <1>6, <2>2, <2>3 DEF ClearLockout
<1>7. CASE StartLockout(t)
  <2>1. CASE Return(t) BY <2>1, ReturnIInv
  <2>2. CASE ~Return(t)
    <3>1. PICK label \in {"record_on", "record_off"} :
            pc' = [pc EXCEPT ![t] = label] /\ (label = "record_on" <=> pc[t] = "set_on")
      BY <1>7, <2>2 DEF StartLockout, Goto, Call
    <3>2. startInProgress' = startInProgress /\ pc[t] \in {"set_on", "set_off"}
      BY <1>7, <2>2 DEF StartLockout
    <3> QED BY <3>1, <3>2, MoveIInv
  <2> QED BY <2>1, <2>2
<1>8. CASE EraseRecord(t) BY <1>8, EraseIInv
<1>9. CASE RecordLockout(t) BY <1>9, ReturnIInv DEF RecordLockout
<1> QED BY <1>1, <1>2, <1>3, <1>4, <1>5, <1>6, <1>7, <1>8, <1>9 DEF Step

LEMMA TurnOffIInv ==
  ASSUME IInv, NEW t \in Task, pc[t] \in Outside, NEW why,
         TurnWaterPumpOff(t, why), startInProgress' = startInProgress
  PROVE  IInv'
<1>1. pc' = [pc EXCEPT ![t] = "send_off"] BY DEF TurnWaterPumpOff, Call
<1> QED BY <1>1, OutsideIInv

LEMMA WorkerIInv == ASSUME IInv, Worker PROVE IInv'
<1> DEFINE w == "worker"
<1> USE DEF Outside
<1>0. w \in Task BY DEF Task
<1>1. CASE TakeNotifications
  <2>1. pc[w] = "idle" /\ startInProgress' = startInProgress BY <1>1 DEF TakeNotifications
  <2>2. CASE UNCHANGED pc BY <2>1, <2>2, StayIInv
  <2>3. CASE TurnWaterPumpOff(w, "auto") BY <1>0, <2>1, <2>3, TurnOffIInv
  <2>4. UNCHANGED pc \/ TurnWaterPumpOff(w, "auto")
    BY <1>1 DEF TakeNotifications, ProcessStallDetection, calls
  <2> QED BY <2>2, <2>3, <2>4
<1>2. CASE HandleLockoutExpired
  <2>1. /\ pc[w] = "idle" /\ startInProgress' = startInProgress
        /\ pc' = [pc EXCEPT ![w] = "erase_expired"]
    BY <1>2 DEF HandleLockoutExpired, Goto, Call
  <2> QED BY <1>0, <2>1, OutsideIInv
<1>3. CASE RestartIfLow
  <2>1. pc[w] = "expired" /\ startInProgress' = startInProgress BY <1>3 DEF RestartIfLow
  <2>2. CASE TurnWaterPumpOn(w, "auto") BY <1>0, <2>1, <2>2, TurnOnIInv
  <2>3. CASE pc' = [pc EXCEPT ![w] = "idle"] BY <1>0, <2>1, <2>3, OutsideIInv
  <2> QED BY <1>3, <2>2, <2>3 DEF RestartIfLow, Goto, Call
<1> QED BY <1>1, <1>2, <1>3 DEF Worker

LEMMA LevelIInv ==
  ASSUME IInv, NEW t \in Task, NEW level \in Level, HandleWaterLevelChange(t, level)
  PROVE  IInv'
<1>1. pc[t] \in Outside /\ startInProgress' = startInProgress
  BY DEF HandleWaterLevelChange, Outside
<1>2. CASE AutoStart(t) BY <1>1, <1>2, TurnOnIInv DEF AutoStart
<1>3. CASE StopAtMaximum(t) BY <1>1, <1>3, TurnOffIInv DEF StopAtMaximum
<1> QED BY <1>2, <1>3 DEF HandleWaterLevelChange

LEMMA RequestIInv == ASSUME IInv, NEW c \in Caller, Request(c) PROVE IInv'
<1>0. c \in Task BY DEF Task
<1> USE DEF Outside
<1>1. CASE AttemptManualPumpStart(c)
  <2>1. pc[c] = "idle" /\ startInProgress' = startInProgress BY <1>1 DEF AttemptManualPumpStart
  <2>2. CASE isLockoutTimerActive
    <3>1. pc' = [pc EXCEPT ![c] = "erase_start"]
      BY <1>1, <2>2 DEF AttemptManualPumpStart, Goto, Call
    <3> QED BY <1>0, <2>1, <3>1, OutsideIInv
  <2>3. CASE ~isLockoutTimerActive
    BY <1>0, <1>1, <2>1, <2>3, TurnOnIInv DEF AttemptManualPumpStart
  <2> QED BY <2>2, <2>3
<1>2. CASE ManualStop(c) BY <1>0, <1>2, TurnOffIInv DEF ManualStop
<1>3. ASSUME NEW b \in BOOLEAN, SetRecalibrationMode(c, b) PROVE IInv'
  <2>1. pc[c] = "idle" /\ startInProgress' = startInProgress BY <1>3 DEF SetRecalibrationMode
  <2>2. CASE pc' = [pc EXCEPT ![c] = "erase_idle"] BY <1>0, <2>1, <2>2, OutsideIInv
  <2>3. CASE UNCHANGED pc BY <2>1, <2>3, StayIInv
  <2> QED BY <1>3, <2>2, <2>3 DEF SetRecalibrationMode, Goto, Call, calls
<1>4. ASSUME NEW b \in BOOLEAN, SetLockoutFeatureEnabled(c, b) PROVE IInv'
  BY <1>4, StayIInv DEF SetLockoutFeatureEnabled, calls
<1> QED BY <1>1, <1>2, <1>3, <1>4 DEF Request

LEMMA RestartIInv == ASSUME Restart PROVE IInv'
<1>1. startInProgress' = FALSE /\ pc' = [t \in Task |-> IF t = "main" THEN "boot" ELSE "idle"]
  BY DEF Restart
<1> QED BY <1>1 DEF IInv, OneStarter, Label, Starting, Stopping, Claimed

LEMMA NextIInv == IInv /\ [Next]_vars => IInv'
<1> SUFFICES ASSUME IInv, [Next]_vars PROVE IInv' OBVIOUS
<1>1. ASSUME NEW t \in Task, Step(t) PROVE IInv' BY <1>1, StepIInv
<1>2. CASE Worker BY <1>2, WorkerIInv
<1>3. CASE SyncWithHardwareState
  <2>1. /\ pc["main"] = "boot" /\ startInProgress' = startInProgress
        /\ pc' = [pc EXCEPT !["main"] = "idle"] /\ "main" \in Task
    BY <1>3 DEF SyncWithHardwareState, Goto, Call, Task
  <2> QED BY <2>1, OutsideIInv DEF Outside
<1>4. ASSUME NEW t \in Task, NEW level \in Level, HandleWaterLevelChange(t, level)
      PROVE  IInv'
  BY <1>4, LevelIInv
<1>5. ASSUME NEW c \in Caller, Request(c) PROVE IInv' BY <1>5, RequestIInv
<1>6. ASSUME NEW i \in Timer, TimerFires(i) PROVE IInv'
  BY <1>6, StayIInv DEF TimerFires, calls
<1>7. CASE StallTimerFires BY <1>7, StayIInv DEF StallTimerFires, calls
<1>8. CASE MotorEvent BY <1>8, StayIInv DEF MotorEvent, calls
<1>9. CASE Restart BY <1>9, RestartIInv
<1>10. CASE UNCHANGED vars BY <1>10, StayIInv DEF vars, controller, calls
<1> QED BY <1>1, <1>2, <1>3, <1>4, <1>5, <1>6, <1>7, <1>8, <1>9, <1>10 DEF Next

(* turnWaterPumpOn's critical section does what it is for: of any number   *)
(* of tasks at most one is in the middle of a start, and the flag is taken *)
(* exactly as long as one is.                                              *)
THEOREM StartExclusive == Spec => []OneStarter
<1>1. IInv => OneStarter BY DEF IInv
<1> QED BY <1>1, InitIInv, NextIInv, PTL DEF Spec

-----------------------------------------------------------------------------
(* A run under watch stays so while no task is about to stop the pump: the *)
(* caller's reset of the monitoring and the command to the relay are two   *)
(* steps, and only between them may a running pump be unwatched.           *)
NobodyStops == \A t \in Task : pc[t] # "send_off"
WatchInv ==
  motorRunning /\ "watched" \in run /\ "adrift" \notin run /\ NobodyStops
    => monitoringState \in Monitoring /\ monitoringTimer

(* A step of one task that leaves the watch alone. *)
LEMMA WatchMoves ==
  ASSUME IInv, WatchInv, NEW t \in Task, pc[t] # "send_off", NEW label,
         pc' = [pc EXCEPT ![t] = label], UNCHANGED <<motorRunning, run, monitor>>
  PROVE  WatchInv'
<1>1. NobodyStops' => NobodyStops
  BY DEF IInv, NobodyStops
<1> QED BY <1>1 DEF WatchInv, monitor

LEMMA WatchStays ==
  ASSUME WatchInv, UNCHANGED <<pc, motorRunning, run, monitor>>
  PROVE  WatchInv'
BY DEF WatchInv, NobodyStops, monitor

(* Where a run is forgotten, or its stop failed, there is nothing to watch. *)
LEMMA WatchEnds == ASSUME "watched" \notin run' \/ "adrift" \in run' PROVE WatchInv'
BY DEF WatchInv

LEMMA TurnOffWatch ==
  ASSUME IInv, NEW t \in Task, NEW why, TurnWaterPumpOff(t, why)
  PROVE  WatchInv'
<1>1. pc'[t] = "send_off" BY DEF TurnWaterPumpOff, Call, IInv
<1> QED BY <1>1 DEF WatchInv, NobodyStops

LEMMA TurnOnWatch ==
  ASSUME IInv, WatchInv, NEW t \in Task, pc[t] # "send_off", NEW why, TurnWaterPumpOn(t, why),
         UNCHANGED <<motorRunning, run, monitor>>
  PROVE  WatchInv'
<1>1. PICK label : pc' = [pc EXCEPT ![t] = label]
  BY DEF TurnWaterPumpOn, Goto, Call
<1> QED BY <1>1, WatchMoves

LEMMA StepWatch == ASSUME IInv, WatchInv, NEW t \in Task, Step(t) PROVE WatchInv'
<1>1. CASE Claim(t)
  <2>1. pc[t] # "send_off" /\ UNCHANGED <<motorRunning, run, monitor>>
    BY <1>1 DEF Claim, belief
  <2>2. PICK label : pc' = [pc EXCEPT ![t] = label]
    BY <1>1 DEF Claim, Goto, Call
  <2> QED BY <2>1, <2>2, WatchMoves
<1>2. CASE Accepted(t)
  <2>1. "watched" \notin run' BY <1>2 DEF Accepted
  <2> QED BY <2>1, WatchEnds
<1>3. CASE Refused(t)
  <2>1. pc[t] # "send_off" /\ UNCHANGED <<motorRunning, run, monitor>>
    BY <1>3 DEF Refused, belief
  <2>2. PICK label : pc' = [pc EXCEPT ![t] = label]
    BY <1>3 DEF Refused, Return, Goto, Call
  <2> QED BY <2>1, <2>2, WatchMoves
<1>4. CASE Arm(t)
  <2>1. CASE recalibrating
    <3>1. "watched" \notin run' BY <1>4, <2>1 DEF Arm
    <3> QED BY <3>1, WatchEnds
  <2>2. CASE ~recalibrating
    BY <1>4, <2>2 DEF Arm, Watch, WatchInv, Monitoring
  <2> QED BY <2>1, <2>2
<1>5. CASE SendOff(t)
  <2>1. run' = {} \/ "adrift" \in run' BY <1>5 DEF SendOff, Adrift
  <2> QED BY <2>1, WatchEnds
<1>6. CASE ClearLockout(t)
  <2>1. pc[t] # "send_off" /\ UNCHANGED <<motorRunning, run, monitor>>
    BY <1>6 DEF ClearLockout, belief
  <2>2. PICK label : pc' = [pc EXCEPT ![t] = label]
    BY <1>6 DEF ClearLockout, Goto, Call
  <2> QED BY <2>1, <2>2, WatchMoves
<1>7. CASE EraseRecord(t) \/ StartLockout(t) \/ RecordLockout(t)
  <2>1. pc[t] # "send_off" /\ UNCHANGED <<motorRunning, run, monitor>>
    BY <1>7 DEF EraseRecord, StartLockout, RecordLockout, Erasing, Recording, belief
  <2>2. PICK label : pc' = [pc EXCEPT ![t] = label]
    BY <1>7 DEF EraseRecord, StartLockout, RecordLockout, TurnWaterPumpOn, Return, Goto, Call
  <2> QED BY <2>1, <2>2, WatchMoves
<1> QED BY <1>1, <1>2, <1>3, <1>4, <1>5, <1>6, <1>7 DEF Step

LEMMA WorkerWatch == ASSUME IInv, WatchInv, Worker PROVE WatchInv'
<1> DEFINE w == "worker"
<1>0. w \in Task BY DEF Task
<1>1. CASE TakeNotifications
  <2>1. UNCHANGED <<motorRunning, run, monitoringTimer>> BY <1>1 DEF TakeNotifications, belief
  <2>2. CASE UNCHANGED <<pc, monitoringState>>
    BY <2>1, <2>2, WatchStays DEF monitor
  <2>3. CASE TurnWaterPumpOff(w, "auto") BY <1>0, <2>3, TurnOffWatch
  <2>4. CASE monitoringState' \in StallVerdict /\ UNCHANGED pc
    <3>1. monitoringState \in Monitoring => monitoringState' \in Monitoring
      BY <2>4 DEF StallVerdict, Monitoring
    <3> QED BY <2>1, <2>4, <3>1 DEF WatchInv, NobodyStops
  <2> QED BY <1>1, <2>2, <2>3, <2>4 DEF TakeNotifications, ProcessStallDetection, calls
<1>2. CASE HandleLockoutExpired
  <2>1. /\ pc[w] # "send_off" /\ UNCHANGED <<motorRunning, run, monitor>>
        /\ pc' = [pc EXCEPT ![w] = "erase_expired"]
    BY <1>2 DEF HandleLockoutExpired, belief, Goto, Call
  <2> QED BY <1>0, <2>1, WatchMoves
<1>3. CASE RestartIfLow
  <2>1. pc[w] # "send_off" /\ UNCHANGED <<motorRunning, run, monitor>>
    BY <1>3 DEF RestartIfLow, belief
  <2>2. CASE TurnWaterPumpOn(w, "auto") BY <1>0, <2>1, <2>2, TurnOnWatch
  <2>3. CASE pc' = [pc EXCEPT ![w] = "idle"] BY <1>0, <2>1, <2>3, WatchMoves
  <2> QED BY <1>3, <2>2, <2>3 DEF RestartIfLow, Goto, Call
<1> QED BY <1>1, <1>2, <1>3 DEF Worker

LEMMA CallsWatch ==
  ASSUME IInv, WatchInv, NEW t \in Task,
         \/ \E level \in Level : HandleWaterLevelChange(t, level)
         \/ t \in Caller /\ Request(t)
  PROVE  WatchInv'
<1>1. ASSUME NEW level \in Level, HandleWaterLevelChange(t, level) PROVE WatchInv'
  <2>1. CASE AutoStart(t)
    <3>1. pc[t] # "send_off" /\ UNCHANGED <<motorRunning, run, monitor>>
      BY <1>1, <2>1 DEF HandleWaterLevelChange, AutoStart, belief, monitor
    <3> QED BY <2>1, <3>1, TurnOnWatch DEF AutoStart
  <2>2. CASE StopAtMaximum(t) BY <2>2, TurnOffWatch DEF StopAtMaximum
  <2> QED BY <1>1, <2>1, <2>2 DEF HandleWaterLevelChange
<1>2. ASSUME NEW b \in BOOLEAN, AttemptManualPumpStart(t) \/ SetRecalibrationMode(t, b)
      PROVE  WatchInv'
  <2>1. pc[t] # "send_off" /\ UNCHANGED <<motorRunning, run, monitor>>
    BY <1>2 DEF AttemptManualPumpStart, SetRecalibrationMode, belief
  <2>2. CASE \E label : pc' = [pc EXCEPT ![t] = label] BY <2>1, <2>2, WatchMoves
  <2>3. CASE UNCHANGED pc BY <2>1, <2>3, WatchStays
  <2> QED BY <1>2, <2>2, <2>3 DEF AttemptManualPumpStart, SetRecalibrationMode, TurnWaterPumpOn,
          Goto, Call, calls
<1>3. CASE ManualStop(t) BY <1>3, TurnOffWatch DEF ManualStop
<1>4. ASSUME NEW b \in BOOLEAN, SetLockoutFeatureEnabled(t, b) PROVE WatchInv'
  BY <1>4, WatchStays DEF SetLockoutFeatureEnabled, calls, belief
<1> QED BY <1>1, <1>2, <1>3, <1>4 DEF Request

LEMMA NextWatch == IInv /\ WatchInv /\ [Next]_vars => WatchInv'
<1> SUFFICES ASSUME IInv, WatchInv, [Next]_vars PROVE WatchInv' OBVIOUS
<1>1. ASSUME NEW t \in Task, Step(t) PROVE WatchInv' BY <1>1, StepWatch
<1>2. CASE Worker BY <1>2, WorkerWatch
<1>3. CASE SyncWithHardwareState
  <2>1. CASE motorRunning BY <1>3, <2>1 DEF SyncWithHardwareState, Watch, WatchInv, Monitoring
  <2>2. CASE ~motorRunning BY <1>3, <2>2 DEF SyncWithHardwareState, WatchInv
  <2> QED BY <2>1, <2>2
<1>4. ASSUME NEW t \in Task, NEW level \in Level, HandleWaterLevelChange(t, level)
      PROVE  WatchInv'
  BY <1>4, CallsWatch
<1>5. ASSUME NEW c \in Caller, Request(c) PROVE WatchInv'
  <2>1. c \in Task BY DEF Task
  <2> QED BY <1>5, <2>1, CallsWatch
<1>6. ASSUME NEW i \in Timer, TimerFires(i) PROVE WatchInv'
  BY <1>6, WatchStays DEF TimerFires, calls, belief
<1>7. CASE StallTimerFires BY <1>7, WatchStays DEF StallTimerFires, calls, belief
<1>8. CASE MotorEvent BY <1>8, WatchEnds DEF MotorEvent
<1>9. CASE Restart BY <1>9, WatchEnds DEF Restart
<1>10. CASE UNCHANGED vars BY <1>10, WatchStays DEF vars, controller, calls, belief
<1> QED BY <1>1, <1>2, <1>3, <1>4, <1>5, <1>6, <1>7, <1>8, <1>9, <1>10 DEF Next

(* A pump that this unit started in normal mode runs under stall detection *)
(* until a stop, for any number of tasks, timers and restarts, unless      *)
(* operations overlapped or a stop of it has failed.                       *)
THEOREM RunsWatched == Spec => []Watched
<1>1. Init => WatchInv BY DEF Init, WatchInv
<1>2. IInv /\ WatchInv => Watched
  BY DEF WatchInv, NobodyStops, Watched, Stopping
<1> QED BY <1>1, <1>2, InitIInv, NextIInv, NextWatch, PTL DEF Spec

-----------------------------------------------------------------------------
(* Types. *)

LEMMA CallType ==
  ASSUME TypeOK, NEW t \in Task, NEW label \in Label, NEW why \in Why, Call(t, label, why)
  PROVE  pc' \in [Task -> Label] /\ reason' \in [Task -> Why]
BY DEF TypeOK, Label, Call

LEMMA GotoType ==
  ASSUME TypeOK, NEW t \in Task, NEW label \in Label, Goto(t, label)
  PROVE  pc' \in [Task -> Label] /\ reason' \in [Task -> Why]
BY CallType DEF Goto, Why

LEMMA TurnType ==
  ASSUME TypeOK, NEW t \in Task, NEW why \in Why, TurnWaterPumpOn(t, why) \/ TurnWaterPumpOff(t, why)
  PROVE  pc' \in [Task -> Label] /\ reason' \in [Task -> Why]
<1>1. {"idle", "claim", "send_off"} \subseteq Label BY DEF Label, Starting, Stopping
<1> QED BY <1>1, CallType, GotoType DEF TurnWaterPumpOn, TurnWaterPumpOff

LEMMA ReturnType ==
  ASSUME TypeOK, NEW t \in Task, Return(t)
  PROVE  pc' \in [Task -> Label] /\ reason' \in [Task -> Why] /\ startInProgress' \in BOOLEAN
<1>1. "idle" \in Label BY DEF Label
<1>2. startInProgress' \in BOOLEAN BY DEF Return, TypeOK
<1> QED BY <1>1, <1>2, GotoType DEF Return

LEMMA StopTimerType ==
  ASSUME TypeOK, StopManualLockoutTimer
  PROVE  /\ isLockoutTimerActive' \in BOOLEAN /\ nvsActive' \in BOOLEAN
         /\ lockoutTimer' \in 0 .. MaxTimers /\ ticking' \subseteq Timer
<1>1. isLockoutTimerActive' \in BOOLEAN /\ nvsActive' \in BOOLEAN
  BY DEF StopManualLockoutTimer, TypeOK
<1>2. lockoutTimer' = 0 /\ 0 \in 0 .. MaxTimers BY ControllerAssumption DEF StopManualLockoutTimer
<1>3. ticking' \subseteq Timer BY DEF TypeOK, StopManualLockoutTimer
<1> QED BY <1>1, <1>2, <1>3

(* What the type invariant says, with the disturbance left out: that one   *)
(* is set in the same way by every action.                                 *)
Typed ==
  /\ motor \in BOOLEAN /\ motorRunning \in BOOLEAN /\ run \subseteq {"auto", "watched", "adrift"}
  /\ startInProgress \in BOOLEAN
  /\ restartRequired \in BOOLEAN /\ featureEnabled \in BOOLEAN /\ recalibrating \in BOOLEAN
  /\ isLockoutTimerActive \in BOOLEAN /\ nvsActive \in BOOLEAN
  /\ lockoutTimer \in 0 .. MaxTimers /\ ticking \subseteq Timer
  /\ monitoringState \in {"IDLE"} \cup Monitoring /\ monitoringTimer \in BOOLEAN
  /\ notified \subseteq {"stall", "expired"} /\ todo \subseteq {"expired"}
  /\ pc \in [Task -> Label] /\ reason \in [Task -> Why]
  /\ restarts \in 0 .. MaxRestarts

LEMMA TypedOK == TypeOK <=> Typed /\ disturbance \in {"none", "switch", "overlap"}
BY DEF TypeOK, Typed, Label

LEMMA TypedOKNext == Typed' /\ disturbance' \in {"none", "switch", "overlap"} => TypeOK'
BY DEF TypeOK, Typed, Label

LEMMA InitTyped == Init => TypeOK
<1> SUFFICES ASSUME Init PROVE TypeOK OBVIOUS
<1>1. {0, 1} \subseteq 0 .. MaxTimers /\ 1 \in Timer /\ 0 \in 0 .. MaxRestarts
  BY ControllerAssumption DEF Timer
<1>2. /\ pc \in [Task -> {"idle", "erase_idle"} \cup Starting \cup Stopping]
      /\ reason \in [Task -> Why]
  BY DEF Init, Starting, Why
<1> QED BY <1>1, <1>2 DEF Init, TypeOK

LEMMA StepTyped == ASSUME TypeOK, NEW t \in Task, Step(t) PROVE Typed'
<1> USE TypedOK DEF Typed, belief, flags, lockout, monitor, bits, calls
<1>0. /\ Claimed \cup Stopping \cup {"idle", "expired"} \subseteq Label
      /\ {"auto", "manual", reason[t]} \subseteq Why
  BY DEF Label, Starting, Why
<1> USE DEF Claimed, Stopping
<1>1. CASE Claim(t)
  <2>1. pc' \in [Task -> Label] /\ reason' \in [Task -> Why]
    BY <1>0, <1>1, CallType, GotoType DEF Claim
  <2> QED BY <1>1, <2>1 DEF Claim
<1>2. CASE Accepted(t)
  <2>1. pc' \in [Task -> Label] /\ reason' \in [Task -> Why]
    BY <1>0, <1>2, GotoType DEF Accepted
  <2> QED BY <1>2, <2>1 DEF Accepted
<1>3. CASE Refused(t)
  <2>1. pc' \in [Task -> Label] /\ reason' \in [Task -> Why] /\ startInProgress' \in BOOLEAN
    BY <1>0, <1>3, GotoType, ReturnType DEF Refused
  <2> QED BY <1>3, <2>1 DEF Refused
<1>4. CASE Arm(t)
  <2>1. pc' \in [Task -> Label] /\ reason' \in [Task -> Why] /\ startInProgress' \in BOOLEAN
    BY <1>4, ReturnType DEF Arm
  <2> QED BY <1>4, <2>1 DEF Arm, Watch, Monitoring
<1>5. CASE SendOff(t)
  <2>1. pc' \in [Task -> Label] /\ reason' \in [Task -> Why]
    BY <1>0, <1>5, GotoType DEF SendOff
  <2> QED BY <1>5, <2>1 DEF SendOff, Adrift
<1>6. CASE ClearLockout(t)
  <2>1. pc' \in [Task -> Label] /\ reason' \in [Task -> Why]
    BY <1>0, <1>6, GotoType DEF ClearLockout
  <2> QED BY <1>6, <2>1, StopTimerType DEF ClearLockout
<1>7. CASE StartLockout(t)
  <2>1. pc' \in [Task -> Label] /\ reason' \in [Task -> Why] /\ startInProgress' \in BOOLEAN
    BY <1>0, <1>7, ReturnType, GotoType DEF StartLockout
  <2>2. ticking # Timer => (CHOOSE i \in Timer \ ticking : TRUE) \in Timer
    OBVIOUS
  <2>3. /\ isLockoutTimerActive' \in BOOLEAN /\ nvsActive' \in BOOLEAN
        /\ lockoutTimer' \in 0 .. MaxTimers /\ ticking' \subseteq Timer
    <3>1. CASE ticking = Timer BY <1>7, <3>1 DEF StartLockout
    <3>2. CASE ticking # Timer
      <4>1. lockoutTimer' \in Timer BY <1>7, <2>2, <3>2 DEF StartLockout
      <4>2. Timer \subseteq 0 .. MaxTimers BY ControllerAssumption DEF Timer
      <4> QED BY <1>7, <3>2, <4>1, <4>2 DEF StartLockout
    <3> QED BY <3>1, <3>2
  <2> QED BY <1>7, <2>1, <2>3 DEF StartLockout
<1>8. CASE EraseRecord(t)
  <2>1. pc' \in [Task -> Label] /\ reason' \in [Task -> Why]
    BY <1>0, <1>8, GotoType, TurnType DEF EraseRecord
  <2>2. restartRequired' \in BOOLEAN BY <1>8 DEF EraseRecord
  <2> QED BY <1>8, <2>1, <2>2 DEF EraseRecord
<1>9. CASE RecordLockout(t)
  <2>1. pc' \in [Task -> Label] /\ reason' \in [Task -> Why] /\ startInProgress' \in BOOLEAN
    BY <1>9, ReturnType DEF RecordLockout
  <2> QED BY <1>9, <2>1 DEF RecordLockout
<1> QED BY <1>1, <1>2, <1>3, <1>4, <1>5, <1>6, <1>7, <1>8, <1>9 DEF Step

LEMMA WorkerTyped == ASSUME TypeOK, Worker PROVE Typed'
<1> USE TypedOK DEF Typed, belief, flags, lockout, monitor, bits, calls
<1>0. "worker" \in Task /\ {"idle", "erase_expired"} \subseteq Label /\ {"none", "auto"} \subseteq Why
  BY DEF Task, Label, Starting, Why
<1>1. CASE TakeNotifications
  <2>1. pc' \in [Task -> Label] /\ reason' \in [Task -> Why]
    BY <1>0, <1>1, TurnType DEF TakeNotifications, ProcessStallDetection
  <2>2. monitoringState' \in {"IDLE"} \cup Monitoring /\ restartRequired' \in BOOLEAN
    BY <1>1 DEF TakeNotifications, ProcessStallDetection, StallVerdict, TurnWaterPumpOff
  <2> QED BY <1>1, <2>1, <2>2 DEF TakeNotifications, AfterStallCheck
<1>2. CASE HandleLockoutExpired
  <2>1. pc' \in [Task -> Label] /\ reason' \in [Task -> Why]
    BY <1>0, <1>2, GotoType DEF HandleLockoutExpired
  <2> QED BY <1>2, <2>1 DEF HandleLockoutExpired
<1>3. CASE RestartIfLow
  <2>1. pc' \in [Task -> Label] /\ reason' \in [Task -> Why]
    BY <1>0, <1>3, GotoType, TurnType DEF RestartIfLow
  <2> QED BY <1>3, <2>1 DEF RestartIfLow
<1> QED BY <1>1, <1>2, <1>3 DEF Worker

LEMMA CallsTyped ==
  ASSUME TypeOK, NEW t \in Task,
         \/ \E level \in Level : HandleWaterLevelChange(t, level)
         \/ t \in Caller /\ Request(t)
  PROVE  Typed'
<1> USE TypedOK DEF Typed, belief, flags, lockout, monitor, bits, calls
<1>0. {"auto", "manual"} \subseteq Why /\ {"erase_start", "erase_idle"} \subseteq Label
  BY DEF Why, Label, Starting
<1>1. ASSUME NEW level \in Level, HandleWaterLevelChange(t, level) PROVE Typed'
  <2>1. pc' \in [Task -> Label] /\ reason' \in [Task -> Why]
    BY <1>0, <1>1, TurnType DEF HandleWaterLevelChange, AutoStart, StopAtMaximum
  <2>2. /\ monitoringState' \in {"IDLE"} \cup Monitoring /\ restartRequired' \in BOOLEAN
        /\ recalibrating' \in BOOLEAN
    BY <1>1 DEF HandleWaterLevelChange, AutoStart, StopAtMaximum, TurnWaterPumpOff
  <2> QED BY <1>1, <2>1, <2>2 DEF HandleWaterLevelChange
<1>2. CASE AttemptManualPumpStart(t)
  <2>1. pc' \in [Task -> Label] /\ reason' \in [Task -> Why]
    BY <1>0, <1>2, TurnType, GotoType DEF AttemptManualPumpStart
  <2>2. restartRequired' \in BOOLEAN BY <1>2 DEF AttemptManualPumpStart
  <2> QED BY <1>2, <2>1, <2>2, StopTimerType DEF AttemptManualPumpStart
<1>3. CASE ManualStop(t)
  <2>1. pc' \in [Task -> Label] /\ reason' \in [Task -> Why]
    BY <1>0, <1>3, TurnType DEF ManualStop
  <2>2. monitoringState' = "IDLE" BY <1>3 DEF ManualStop, TurnWaterPumpOff
  <2> QED BY <1>3, <2>1, <2>2 DEF ManualStop
<1>4. ASSUME NEW b \in BOOLEAN, SetRecalibrationMode(t, b) PROVE Typed'
  <2>1. pc' \in [Task -> Label] /\ reason' \in [Task -> Why]
    BY <1>0, <1>4, GotoType DEF SetRecalibrationMode
  <2> QED BY <1>4, <2>1, StopTimerType DEF SetRecalibrationMode
<1>5. ASSUME NEW b \in BOOLEAN, SetLockoutFeatureEnabled(t, b) PROVE Typed'
  BY <1>5 DEF SetLockoutFeatureEnabled
<1> QED BY <1>1, <1>2, <1>3, <1>4, <1>5 DEF Request

LEMMA RestartTyped == ASSUME TypeOK, Restart PROVE Typed'
<1>1. /\ pc' \in [Task -> Label] /\ reason' \in [Task -> Why]
  BY DEF Restart, Label, Starting, Why
<1>2. {0, 1} \subseteq 0 .. MaxTimers /\ 1 \in Timer BY ControllerAssumption DEF Timer
<1>3. PICK restored \in {FALSE, nvsActive} :
        /\ isLockoutTimerActive' = restored /\ nvsActive' = restored
        /\ restartRequired' = restored
        /\ lockoutTimer' = (IF restored THEN 1 ELSE 0) /\ ticking' = {lockoutTimer'} \ {0}
  BY DEF Restart, RestoreLockout
<1>4. restored \in BOOLEAN BY DEF TypeOK
<1>5. isLockoutTimerActive' \in BOOLEAN /\ nvsActive' \in BOOLEAN /\ restartRequired' \in BOOLEAN
  BY <1>3, <1>4
<1>6. lockoutTimer' \in 0 .. MaxTimers /\ ticking' \subseteq Timer
  BY <1>2, <1>3
<1>7. restarts' \in 0 .. MaxRestarts BY ControllerAssumption DEF Restart, TypeOK
<1> QED BY <1>1, <1>5, <1>6, <1>7 DEF Restart, Typed, TypeOK

LEMMA EventTyped ==
  ASSUME TypeOK,
         \/ SyncWithHardwareState \/ StallTimerFires \/ MotorEvent
         \/ \E i \in Timer : TimerFires(i)
  PROVE  Typed'
<1> USE TypedOK DEF Typed, belief, flags, lockout, monitor, bits, calls
<1>1. CASE SyncWithHardwareState
  <2>1. pc' \in [Task -> Label] /\ reason' \in [Task -> Why]
    BY <1>1, GotoType DEF SyncWithHardwareState, Task, Label
  <2>2. /\ monitoringState' \in {"IDLE"} \cup Monitoring /\ monitoringTimer' \in BOOLEAN
        /\ run' \subseteq {"auto", "watched", "adrift"}
    BY <1>1 DEF SyncWithHardwareState, Watch, Monitoring
  <2> QED BY <1>1, <2>1, <2>2 DEF SyncWithHardwareState
<1>2. CASE StallTimerFires BY <1>2 DEF StallTimerFires
<1>3. CASE MotorEvent
  <2>1. motor' \in BOOLEAN /\ motorRunning' \in BOOLEAN /\ run' = {} BY <1>3 DEF MotorEvent
  <2> QED BY <1>3, <2>1 DEF MotorEvent
<1>4. ASSUME NEW i \in Timer, TimerFires(i) PROVE Typed'
  BY <1>4 DEF TimerFires
<1> QED BY <1>1, <1>2, <1>3, <1>4

LEMMA NextTyped == TypeOK /\ [Next]_vars => TypeOK'
<1> SUFFICES ASSUME TypeOK, [Next]_vars PROVE TypeOK' OBVIOUS
<1>1. CASE UNCHANGED vars
  BY <1>1 DEF vars, controller, belief, flags, lockout, monitor, bits, calls, TypeOK
<1>2. CASE Next
  <2>1. ASSUME NEW c \in Caller, Request(c) PROVE Typed'
    BY <2>1, CallsTyped DEF Task
  <2>2. Typed'
    BY <1>2, <2>1, StepTyped, WorkerTyped, CallsTyped, EventTyped, RestartTyped DEF Next
  <2>3. disturbance' \in {"none", "switch", "overlap"} BY <1>2, TypedOK DEF Next
  <2> QED BY <2>2, <2>3, TypedOKNext
<1> QED BY <1>1, <1>2

-----------------------------------------------------------------------------
(* What the lockout rests on: while nothing overlaps, a task that has torn *)
(* the old timer down and not yet set the new one up finds neither a       *)
(* timer, nor an expiry, nor a lockout in force.                           *)
Pending == notified \cup todo
Backed ==
  /\ isLockoutTimerActive => lockoutTimer \in ticking \/ "expired" \in Pending
  /\ ticking \subseteq {lockoutTimer}
  /\ ticking # {} => isLockoutTimerActive
  /\ "expired" \in Pending => ticking = {}
  /\ \A t \in Task : pc[t] \in Settling =>
       ~isLockoutTimerActive /\ ticking = {} /\ "expired" \notin Pending

(* While a task stands between its change of the flag and its write, the   *)
(* flag has the value that will be written; two such tasks cross.          *)
Crossing == \E t, u \in Task : t # u /\ pc[t] \in Writing /\ pc[u] \in Writing
NvsAgrees ==
  /\ (\A t \in Task : pc[t] \notin Writing) => (nvsActive <=> isLockoutTimerActive)
  /\ \A t \in Task : /\ pc[t] \in Erasing => ~isLockoutTimerActive
                     /\ pc[t] \in Recording => isLockoutTimerActive

(* And no automatic start is under way that a lockout in force forbids; a  *)
(* task that will set a lockout up has said so in restartRequired.         *)
Blocked == isLockoutTimerActive /\ featureEnabled
Opening == {"claim", "send_on"}
Coming == Opening \cup {"erase_expired", "expired", "erase_start"}
Locking == {"lock_on", "lock_off", "erase_on", "erase_off", "set_on", "set_off"}
AutoRun == "auto" \in run /\ "adrift" \notin run
Alone ==
  \A t \in Task : pc[t] \in Starting \cup Stopping =>
    \A u \in Task \ {t} : pc[u] \notin Claimed \cup Stopping
Forbidden ==
  /\ Blocked => restartRequired
  /\ \A t \in Task : pc[t] \in Coming => ~Blocked
  /\ \A t \in Task : pc[t] \in Opening \cup Locking => ~AutoRun
  /\ Alone => \A t \in Task : pc[t] \in Locking => restartRequired
  /\ ~(Blocked /\ motorRunning /\ AutoRun)
AutoRuns == "auto" \in run => motorRunning

LInv ==
  /\ TypeOK /\ AutoRuns
  /\ disturbance # "overlap" => Backed /\ (Crossing \/ NvsAgrees)
  /\ disturbance = "none" => Forbidden

LEMMA InitLInv == Init => LInv
<1> SUFFICES ASSUME Init PROVE LInv OBVIOUS
<1>1. \A t \in Task : pc[t] \in {"boot", "idle"} BY DEF Init
<1>2. Backed BY <1>1 DEF Init, Backed, Pending, Settling
<1>3. NvsAgrees BY <1>1 DEF Init, NvsAgrees, Writing, Erasing, Recording
<1>4. AutoRuns /\ Forbidden
  BY <1>1 DEF Init, AutoRuns, AutoRun, Forbidden, Blocked, Coming, Opening, Locking
<1> QED BY <1>2, <1>3, <1>4, InitTyped DEF LInv

(* What a step leaves behind when nothing overlapped in it. *)
Orderly ==
  /\ Alone /\ ~Crossing
  /\ \A t \in Task : pc[t] \in {"lock_on", "lock_off"} => "expired" \notin Pending
  /\ \A t \in Task : pc[t] \in Starting => featureEnabled' = featureEnabled

LEMMA Calm ==
  ASSUME TypeOK, Next, ~Restart, disturbance' # "overlap"
  PROVE  /\ disturbance # "overlap" /\ Orderly
         /\ disturbance' = "none" => disturbance = "none" /\ ~Switch
<1>1. restarts' = restarts
  <2>1. ASSUME NEW t \in Task, Step(t) PROVE restarts' = restarts
    BY <2>1 DEF Step, Claim, Accepted, Refused, Arm, SendOff, ClearLockout, EraseRecord,
       StartLockout, RecordLockout
  <2>2. CASE Worker
    BY <2>2 DEF Worker, TakeNotifications, HandleLockoutExpired, RestartIfLow
  <2>3. ASSUME NEW c \in Caller, Request(c) PROVE restarts' = restarts
    BY <2>3 DEF Request, AttemptManualPumpStart, ManualStop, SetRecalibrationMode,
       SetLockoutFeatureEnabled
  <2> QED BY <2>1, <2>2, <2>3 DEF Next, SyncWithHardwareState, HandleWaterLevelChange,
          TimerFires, StallTimerFires, MotorEvent
<1>2. disturbance # "overlap" /\ ~Overlap BY <1>1 DEF Next
<1>3. Orderly BY <1>2 DEF Overlap, Orderly, Alone, Crossing, Pending
<1>4. disturbance' = "none" => disturbance = "none" /\ ~Switch BY <1>1 DEF Next
<1> QED BY <1>2, <1>3, <1>4

LEMMA Moves ==
  ASSUME TypeOK, NEW t \in Task, NEW label, pc' = [pc EXCEPT ![t] = label]
  PROVE  \A u \in Task : pc'[u] = IF u = t THEN label ELSE pc[u]
BY DEF TypeOK

-----------------------------------------------------------------------------
(* The timer behind the lockout. *)

LEMMA BackedStays ==
  ASSUME Backed, UNCHANGED <<isLockoutTimerActive, lockoutTimer, ticking>>,
         ("expired" \in Pending') <=> ("expired" \in Pending),
         \A t \in Task : pc'[t] \in Settling => pc[t] \in Settling
  PROVE  Backed'
BY DEF Backed

(* Tearing the timer down leaves none behind. *)
LEMMA BackedStops ==
  ASSUME Backed, StopManualLockoutTimer
  PROVE  ~isLockoutTimerActive' /\ ticking' = {} /\ lockoutTimer' = 0
BY DEF Backed, StopManualLockoutTimer

LEMMA StopsBacked ==
  ASSUME Backed, StopManualLockoutTimer, UNCHANGED bits,
         \A t \in Task : pc'[t] \in Settling =>
            pc[t] \in Settling \/ "expired" \notin Pending
  PROVE  Backed'
BY BackedStops DEF Backed, Pending, bits

LEMMA StepBacked ==
  ASSUME TypeOK, Backed, Orderly, NEW t \in Task, Step(t)
  PROVE  Backed'
<1> USE DEF Settling, lockout
<1>1. CASE Claim(t) \/ Accepted(t) \/ Refused(t) \/ Arm(t) \/ SendOff(t)
  <2>1. PICK label \in {"idle", "send_on", "arm", "lock_on", "lock_off"} :
          pc' = [pc EXCEPT ![t] = label]
    BY <1>1 DEF Claim, Accepted, Refused, Arm, SendOff, Return, Goto, Call
  <2>2. UNCHANGED <<lockout, bits>>
    BY <1>1 DEF Claim, Accepted, Refused, Arm, SendOff
  <2> QED BY <2>1, <2>2, Moves, BackedStays DEF bits, Pending
<1>2. CASE ClearLockout(t)
  <2>1. /\ pc[t] \in {"lock_on", "lock_off"} /\ StopManualLockoutTimer /\ UNCHANGED bits
        /\ \E label : pc' = [pc EXCEPT ![t] = label]
    BY <1>2 DEF ClearLockout, Goto, Call
  <2>2. "expired" \notin Pending BY <2>1 DEF Orderly
  <2> QED BY <2>1, <2>2, StopsBacked
<1>3. CASE StartLockout(t)
  <2>0. PICK label \in {"idle", "record_on", "record_off"} : pc' = [pc EXCEPT ![t] = label]
    BY <1>3 DEF StartLockout, Return, Goto, Call
  <2>1. pc[t] \in Settling /\ UNCHANGED bits BY <1>3 DEF StartLockout
  <2>2. \A u \in Task : pc'[u] \notin Settling
    <3>1. \A u \in Task \ {t} : pc[u] \notin Settling
      BY <2>1 DEF Orderly, Alone, Stopping, Starting, Claimed
    <3>2. \A u \in Task : pc'[u] = IF u = t THEN label ELSE pc[u] BY <2>0, Moves
    <3> QED BY <3>1, <3>2
  <2>3. ticking = {} /\ "expired" \notin Pending' /\ ticking # Timer
    <3>1. 1 \in Timer BY ControllerAssumption DEF Timer
    <3>2. ticking = {} /\ "expired" \notin Pending BY <2>1 DEF Backed
    <3> QED BY <2>1, <3>1, <3>2 DEF Pending, bits
  <2>4. /\ ticking' = {lockoutTimer'} /\ isLockoutTimerActive'
    BY <1>3, <2>3 DEF StartLockout
  <2> QED BY <2>2, <2>3, <2>4 DEF Backed
<1>4. CASE EraseRecord(t)
  <2>1. UNCHANGED <<isLockoutTimerActive, lockoutTimer, ticking, bits>> BY <1>4 DEF EraseRecord
  <2>2. PICK label \in {"idle", "claim", "expired", "set_on", "set_off"} :
          /\ pc' = [pc EXCEPT ![t] = label]
          /\ label \in {"set_on", "set_off"} => pc[t] \in {"erase_on", "erase_off"}
    BY <1>4 DEF EraseRecord, TurnWaterPumpOn, Goto, Call
  <2> QED BY <2>1, <2>2, Moves, BackedStays DEF bits, Pending
<1>5. CASE RecordLockout(t)
  <2>1. /\ UNCHANGED <<isLockoutTimerActive, lockoutTimer, ticking, bits>>
        /\ pc' = [pc EXCEPT ![t] = "idle"]
    BY <1>5 DEF RecordLockout, Return, Goto, Call
  <2> QED BY <2>1, Moves, BackedStays DEF bits, Pending
<1> QED BY <1>1, <1>2, <1>3, <1>4, <1>5 DEF Step

LEMMA TurnOnMoves ==
  ASSUME TypeOK, NEW t \in Task, NEW why, TurnWaterPumpOn(t, why)
  PROVE  /\ \A u \in Task \ {t} : pc'[u] = pc[u]
         /\ pc'[t] = IF motorRunning THEN "idle" ELSE "claim"
BY DEF TurnWaterPumpOn, Goto, Call, TypeOK

LEMMA TurnOffMoves ==
  ASSUME TypeOK, NEW t \in Task, NEW why, TurnWaterPumpOff(t, why)
  PROVE  /\ \A u \in Task \ {t} : pc'[u] = pc[u]
         /\ pc'[t] = "send_off"
BY DEF TurnWaterPumpOff, Call, TypeOK

LEMMA WorkerBacked == ASSUME TypeOK, Backed, Worker PROVE Backed'
<1> USE DEF Settling, lockout
<1>0. "worker" \in Task BY DEF Task
<1>1. CASE TakeNotifications
  <2>1. UNCHANGED lockout /\ (("expired" \in Pending') <=> ("expired" \in Pending))
    BY <1>1 DEF TakeNotifications, AfterStallCheck, Pending
  <2>2. \A t \in Task : pc'[t] \in Settling => pc[t] \in Settling
    <3>1. pc' = pc \/ TurnWaterPumpOff("worker", "auto")
      BY <1>1 DEF TakeNotifications, ProcessStallDetection, calls
    <3> QED BY <1>0, <3>1, TurnOffMoves
  <2> QED BY <2>1, <2>2, BackedStays
<1>2. CASE HandleLockoutExpired
  <2>1. /\ "expired" \in Pending /\ pc' = [pc EXCEPT !["worker"] = "erase_expired"]
        /\ ~isLockoutTimerActive' /\ UNCHANGED <<lockoutTimer, ticking>> /\ notified' = notified
        /\ todo' = {}
    BY <1>2 DEF HandleLockoutExpired, Goto, Call, Pending
  <2>2. ticking' = {} BY <2>1 DEF Backed
  <2>3. \A t \in Task : pc'[t] \notin Settling BY <1>0, <2>1, Moves DEF Backed
  <2> QED BY <2>1, <2>2, <2>3 DEF Backed
<1>3. CASE RestartIfLow
  <2>1. UNCHANGED <<lockout, bits>> BY <1>3 DEF RestartIfLow
  <2>2. \A t \in Task : pc'[t] \in Settling => pc[t] \in Settling
    BY <1>0, <1>3, TurnOnMoves, Moves DEF RestartIfLow, Goto, Call
  <2> QED BY <2>1, <2>2, BackedStays DEF bits, Pending
<1> QED BY <1>1, <1>2, <1>3 DEF Worker

LEMMA CallsBacked ==
  ASSUME TypeOK, Backed, NEW t \in Task,
         \/ \E level \in Level : HandleWaterLevelChange(t, level)
         \/ t \in Caller /\ Request(t)
  PROVE  Backed'
<1> USE DEF Settling, lockout
<1>1. ASSUME NEW level \in Level, HandleWaterLevelChange(t, level) PROVE Backed'
  <2>1. UNCHANGED <<lockout, bits>> BY <1>1 DEF HandleWaterLevelChange
  <2>2. \A u \in Task : pc'[u] \in Settling => pc[u] \in Settling
    BY <1>1, TurnOnMoves, TurnOffMoves DEF HandleWaterLevelChange, AutoStart, StopAtMaximum
  <2> QED BY <2>1, <2>2, BackedStays DEF bits, Pending
<1>2. CASE AttemptManualPumpStart(t)
  <2>1. \A u \in Task : pc'[u] \in Settling => pc[u] \in Settling
    BY <1>2, TurnOnMoves, Moves DEF AttemptManualPumpStart, Goto, Call
  <2> QED BY <1>2, <2>1, StopsBacked DEF AttemptManualPumpStart
<1>3. CASE ManualStop(t)
  <2>1. \A u \in Task : pc'[u] \in Settling => pc[u] \in Settling
    BY <1>3, TurnOffMoves DEF ManualStop
  <2>2. UNCHANGED <<lockout, bits>> BY <1>3 DEF ManualStop
  <2> QED BY <2>1, <2>2, BackedStays DEF bits, Pending
<1>4. ASSUME NEW b \in BOOLEAN, SetRecalibrationMode(t, b) PROVE Backed'
  <2>1. UNCHANGED bits /\ \A u \in Task : pc'[u] \in Settling => pc[u] \in Settling
    BY <1>4, Moves DEF SetRecalibrationMode, Goto, Call, calls
  <2>2. CASE StopManualLockoutTimer BY <2>1, <2>2, StopsBacked
  <2>3. CASE UNCHANGED lockout BY <2>1, <2>3, BackedStays DEF bits, Pending
  <2> QED BY <1>4, <2>2, <2>3 DEF SetRecalibrationMode
<1>5. ASSUME NEW b \in BOOLEAN, SetLockoutFeatureEnabled(t, b) PROVE Backed'
  BY <1>5, BackedStays DEF SetLockoutFeatureEnabled, calls, bits, Pending
<1> QED BY <1>1, <1>2, <1>3, <1>4, <1>5 DEF Request

LEMMA NextBacked ==
  ASSUME TypeOK, Backed, Orderly, Next, ~Restart
  PROVE  Backed'
<1> USE DEF Settling, lockout
<1>1. CASE SyncWithHardwareState
  <2>1. /\ UNCHANGED <<lockout, bits>> /\ "main" \in Task /\ pc' = [pc EXCEPT !["main"] = "idle"]
    BY <1>1 DEF SyncWithHardwareState, Goto, Call, Task
  <2> QED BY <2>1, Moves, BackedStays DEF bits, Pending
<1>2. ASSUME NEW i \in Timer, TimerFires(i) PROVE Backed'
  <2>1. /\ i \in ticking /\ ticking' = ticking \ {i} /\ notified' = notified \cup {"expired"}
        /\ pc' = pc /\ UNCHANGED <<isLockoutTimerActive, lockoutTimer, todo>>
    BY <1>2 DEF TimerFires, calls
  <2>2. ticking' = {} BY <2>1 DEF Backed
  <2>3. \A t \in Task : pc'[t] \notin Settling BY <2>1 DEF Backed
  <2> QED BY <2>1, <2>2, <2>3 DEF Backed, Pending
<1>3. CASE StallTimerFires
  <2>1. UNCHANGED lockout /\ pc' = pc /\ (("expired" \in Pending') <=> ("expired" \in Pending))
    BY <1>3 DEF StallTimerFires, Pending, calls
  <2> QED BY <2>1, BackedStays
<1>4. CASE MotorEvent
  <2>1. UNCHANGED lockout /\ pc' = pc /\ UNCHANGED bits BY <1>4 DEF MotorEvent, calls
  <2> QED BY <2>1, BackedStays DEF bits, Pending
<1>5. ASSUME NEW c \in Caller, Request(c) PROVE Backed' BY <1>5, CallsBacked DEF Task
<1> QED BY <1>1, <1>2, <1>3, <1>4, <1>5, StepBacked, WorkerBacked, CallsBacked DEF Next

-----------------------------------------------------------------------------
(* No automatic run against a lockout in force. *)

LEMMA ForbiddenStays ==
  ASSUME Forbidden, AutoRuns, Orderly,
         restartRequired => restartRequired', Blocked' => Blocked,
         AutoRun' => AutoRun,
         \A t \in Task :
           /\ pc'[t] \in Coming => pc[t] \in Coming \/ ~Blocked'
           /\ pc'[t] \in Opening \cup Locking => pc[t] \in Opening \cup Locking \/ ~AutoRun'
           /\ pc'[t] \in Locking => pc[t] \in Locking \/ restartRequired'
  PROVE  Forbidden'
BY DEF Forbidden, AutoRuns, AutoRun, Orderly

(* A reset of restartRequired, where no lockout is in force. *)
LEMMA ForbiddenResets ==
  ASSUME Forbidden, ~Blocked', AutoRun' => AutoRun,
         \A t \in Task :
           pc'[t] \in Opening \cup Locking => pc[t] \in Opening \cup Locking \/ ~AutoRun',
         Alone' => \A t \in Task : pc'[t] \notin Locking
  PROVE  Forbidden'
BY DEF Forbidden

(* A start begins: no other task is setting a lockout up, or the two       *)
(* overlap from now on.                                                    *)
LEMMA TurnOnForbidden ==
  ASSUME TypeOK, Forbidden, AutoRuns, NEW t \in Task, NEW why, TurnWaterPumpOn(t, why),
         pc[t] \notin Locking, UNCHANGED <<run, motorRunning>>, ~Blocked',
         motorRunning => \A u \in Task : pc[u] \notin Locking
  PROVE  Forbidden'
<1> USE DEF Coming, Opening, Locking, AutoRun
<1>1. /\ \A u \in Task \ {t} : pc'[u] = pc[u]
      /\ pc'[t] = IF motorRunning THEN "idle" ELSE "claim"
  BY TurnOnMoves
<1>2. Alone' => \A u \in Task : pc'[u] \notin Locking
  BY <1>1 DEF Alone, Starting, Stopping, Claimed
<1> QED BY <1>1, <1>2, ForbiddenResets DEF AutoRuns

LEMMA EraseForbidden ==
  ASSUME TypeOK, Forbidden, AutoRuns, Orderly, NEW t \in Task, EraseRecord(t)
  PROVE  Forbidden'
<1> USE DEF Coming, Opening, Locking, AutoRun
<1>1. UNCHANGED <<run, motorRunning, isLockoutTimerActive, featureEnabled>>
  BY DEF EraseRecord, belief
<1>2. CASE pc[t] = "erase_start"
  <2>1. TurnWaterPumpOn(t, "manual") BY <1>2 DEF EraseRecord
  <2>2. ~Blocked' BY <1>1, <1>2 DEF Forbidden, Blocked
  <2>3. \A u \in Task : pc[u] \notin Locking
    BY <1>2 DEF Orderly, Alone, Starting, Stopping, Claimed
  <2> QED BY <1>1, <1>2, <2>1, <2>2, <2>3, TurnOnForbidden
<1>3. CASE pc[t] # "erase_start"
  <2>1. PICK label \in {"idle", "expired", "set_on", "set_off"} :
          /\ pc' = [pc EXCEPT ![t] = label] /\ UNCHANGED restartRequired
          /\ label = "expired" => pc[t] = "erase_expired"
          /\ label \in {"set_on", "set_off"} => pc[t] \in {"erase_on", "erase_off"}
    BY <1>3 DEF EraseRecord, Goto, Call
  <2>2. \A u \in Task : pc'[u] = IF u = t THEN label ELSE pc[u] BY <2>1, Moves
  <2> QED BY <1>1, <2>1, <2>2, ForbiddenStays DEF Blocked
<1> QED BY <1>2, <1>3

LEMMA StepForbidden ==
  ASSUME TypeOK, Forbidden, AutoRuns, Orderly, NEW t \in Task, Step(t)
  PROVE  Forbidden'
<1> USE DEF Coming, Opening, Locking, AutoRun
<1>1. CASE Claim(t)
  <2>1. /\ pc[t] = "claim"
        /\ UNCHANGED <<restartRequired, run, isLockoutTimerActive, featureEnabled>>
    BY <1>1 DEF Claim, belief, lockout, flags
  <2>2. PICK label \in {"idle", "send_on"} : pc' = [pc EXCEPT ![t] = label]
    BY <1>1 DEF Claim, Goto, Call
  <2>3. \A u \in Task : pc'[u] = IF u = t THEN label ELSE pc[u] BY <2>2, Moves
  <2> QED BY <2>1, <2>3, ForbiddenStays DEF Blocked
<1>2. CASE Accepted(t)
  <2>1. /\ pc[t] = "send_on" /\ pc' = [pc EXCEPT ![t] = "arm"] /\ motorRunning'
        /\ UNCHANGED <<restartRequired, isLockoutTimerActive, featureEnabled>>
    BY <1>2 DEF Accepted, Goto, Call, flags, lockout
  <2>2. ~Blocked' BY <2>1 DEF Forbidden, Blocked
  <2>3. \A u \in Task : pc'[u] = IF u = t THEN "arm" ELSE pc[u] BY <2>1, Moves
  <2>4. \A u \in Task : pc'[u] \notin Opening \cup Locking
    BY <2>1, <2>3 DEF Orderly, Alone, Starting, Stopping, Claimed
  <2> QED BY <2>2, <2>4 DEF Forbidden
<1>3. CASE Refused(t)
  <2>1. /\ pc[t] = "send_on" /\ (restartRequired => restartRequired')
        /\ UNCHANGED <<run, isLockoutTimerActive, featureEnabled>>
    BY <1>3 DEF Refused, belief, lockout
  <2>2. PICK label \in {"idle", "lock_on"} :
          pc' = [pc EXCEPT ![t] = label] /\ (label = "lock_on" => restartRequired')
    BY <1>3 DEF Refused, Return, Goto, Call
  <2>3. \A u \in Task : pc'[u] = IF u = t THEN label ELSE pc[u] BY <2>2, Moves
  <2> QED BY <2>1, <2>2, <2>3, ForbiddenStays DEF Blocked
<1>4. CASE Arm(t)
  <2>1. /\ pc' = [pc EXCEPT ![t] = "idle"] /\ (AutoRun' => AutoRun)
        /\ UNCHANGED <<restartRequired, isLockoutTimerActive, featureEnabled>>
    BY <1>4 DEF Arm, Watch, Return, Goto, Call, flags, lockout
  <2>2. \A u \in Task : pc'[u] = IF u = t THEN "idle" ELSE pc[u] BY <2>1, Moves
  <2> QED BY <2>1, <2>2, ForbiddenStays DEF Blocked
<1>5. CASE SendOff(t)
  <2>1. /\ ~AutoRun' /\ (restartRequired => restartRequired')
        /\ UNCHANGED <<isLockoutTimerActive, featureEnabled>>
    BY <1>5 DEF SendOff, Adrift, lockout
  <2>2. PICK label \in {"idle", "lock_off"} :
          pc' = [pc EXCEPT ![t] = label] /\ (label = "lock_off" => restartRequired')
    BY <1>5 DEF SendOff, Goto, Call
  <2>3. \A u \in Task : pc'[u] = IF u = t THEN label ELSE pc[u] BY <2>2, Moves
  <2> QED BY <2>1, <2>2, <2>3, ForbiddenStays DEF Blocked
<1>6. CASE ClearLockout(t)
  <2>1. /\ pc[t] \in {"lock_on", "lock_off"} /\ ~isLockoutTimerActive'
        /\ UNCHANGED <<restartRequired, run>>
    BY <1>6 DEF ClearLockout, StopManualLockoutTimer, flags, belief
  <2>2. PICK label \in {"erase_on", "erase_off", "set_on", "set_off"} :
          pc' = [pc EXCEPT ![t] = label]
    BY <1>6 DEF ClearLockout, Goto, Call
  <2>3. \A u \in Task : pc'[u] = IF u = t THEN label ELSE pc[u] BY <2>2, Moves
  <2> QED BY <2>1, <2>2, <2>3, ForbiddenStays DEF Blocked
<1>7. CASE StartLockout(t)
  <2>0. PICK label \in {"idle", "record_on", "record_off"} : pc' = [pc EXCEPT ![t] = label]
    BY <1>7 DEF StartLockout, Return, Goto, Call
  <2>1. pc[t] \in {"set_on", "set_off"} /\ UNCHANGED <<restartRequired, run>>
    BY <1>7 DEF StartLockout, flags, belief
  <2>2. \A u \in Task : pc'[u] = IF u = t THEN label ELSE pc[u] BY <2>0, Moves
  <2>3. \A u \in Task : pc'[u] \notin Coming \cup Locking
    BY <2>1, <2>2 DEF Orderly, Alone, Starting, Stopping, Claimed
  <2>4. restartRequired' /\ ~AutoRun' BY <2>1 DEF Forbidden, Orderly
  <2> QED BY <2>3, <2>4 DEF Forbidden
<1>8. CASE EraseRecord(t) BY <1>8, EraseForbidden
<1>9. CASE RecordLockout(t)
  <2>1. /\ pc' = [pc EXCEPT ![t] = "idle"]
        /\ UNCHANGED <<restartRequired, run, isLockoutTimerActive, featureEnabled>>
    BY <1>9 DEF RecordLockout, Return, Goto, Call, flags, belief
  <2>2. \A u \in Task : pc'[u] = IF u = t THEN "idle" ELSE pc[u] BY <2>1, Moves
  <2> QED BY <2>1, <2>2, ForbiddenStays DEF Blocked
<1> QED BY <1>1, <1>2, <1>3, <1>4, <1>5, <1>6, <1>7, <1>8, <1>9 DEF Step

LEMMA TurnOffForbidden ==
  ASSUME TypeOK, Forbidden, AutoRuns, Orderly, NEW t \in Task, NEW why, TurnWaterPumpOff(t, why),
         UNCHANGED <<run, isLockoutTimerActive, featureEnabled>>, restartRequired => restartRequired'
  PROVE  Forbidden'
BY TurnOffMoves, ForbiddenStays DEF AutoRun, Coming, Opening, Locking, Blocked

LEMMA WorkerForbidden ==
  ASSUME TypeOK, Forbidden, AutoRuns, Orderly, Worker
  PROVE  Forbidden'
<1> USE DEF Coming, Opening, Locking, AutoRun
<1>0. "worker" \in Task BY DEF Task
<1>1. CASE TakeNotifications
  <2>1. /\ restartRequired => restartRequired'
        /\ UNCHANGED <<run, isLockoutTimerActive, featureEnabled>>
    BY <1>1 DEF TakeNotifications, ProcessStallDetection, belief, lockout
  <2>2. CASE pc' = pc BY <2>1, <2>2, ForbiddenStays DEF Blocked
  <2>3. CASE TurnWaterPumpOff("worker", "auto") BY <1>0, <2>1, <2>3, TurnOffForbidden
  <2> QED BY <1>1, <2>2, <2>3 DEF TakeNotifications, ProcessStallDetection, calls
<1>2. CASE HandleLockoutExpired
  <2>1. /\ ~isLockoutTimerActive' /\ run' = run /\ pc' = [pc EXCEPT !["worker"] = "erase_expired"]
    BY <1>2 DEF HandleLockoutExpired, Goto, Call, belief
  <2>2. \A u \in Task : pc'[u] = IF u = "worker" THEN "erase_expired" ELSE pc[u] BY <1>0, <2>1, Moves
  <2>3. Alone' => \A u \in Task : pc'[u] \notin Locking
    BY <1>0, <2>2 DEF Alone, Starting, Stopping, Claimed
  <2> QED BY <2>1, <2>2, <2>3, ForbiddenResets DEF Blocked
<1>3. CASE RestartIfLow
  <2>1. /\ pc["worker"] = "expired"
        /\ UNCHANGED <<run, motorRunning, isLockoutTimerActive, featureEnabled>>
    BY <1>3 DEF RestartIfLow, belief, lockout
  <2>2. ~Blocked' BY <1>0, <2>1 DEF Forbidden, Blocked
  <2>3. CASE TurnWaterPumpOn("worker", "auto")
    <3>1. \A u \in Task : pc[u] \notin Locking
      BY <1>0, <2>1 DEF Orderly, Alone, Starting, Stopping, Claimed
    <3> QED BY <1>0, <2>1, <2>2, <2>3, <3>1, TurnOnForbidden
  <2>4. CASE Goto("worker", "idle") /\ UNCHANGED restartRequired
    <3>1. \A u \in Task : pc'[u] = IF u = "worker" THEN "idle" ELSE pc[u]
      BY <1>0, <2>4, Moves DEF Goto, Call
    <3> QED BY <2>1, <2>2, <2>4, <3>1, ForbiddenStays
  <2> QED BY <1>3, <2>3, <2>4 DEF RestartIfLow
<1> QED BY <1>1, <1>2, <1>3 DEF Worker

LEMMA CallsForbidden ==
  ASSUME TypeOK, Forbidden, AutoRuns, Orderly, ~Switch, NEW t \in Task,
         \/ \E level \in Level : HandleWaterLevelChange(t, level)
         \/ t \in Caller /\ Request(t)
  PROVE  Forbidden'
<1> USE DEF Coming, Opening, Locking, AutoRun
<1>1. ASSUME NEW level \in Level, HandleWaterLevelChange(t, level) PROVE Forbidden'
  <2>1. pc[t] = "idle" /\ UNCHANGED <<run, motorRunning, isLockoutTimerActive, featureEnabled>>
    BY <1>1 DEF HandleWaterLevelChange, belief, lockout
  <2>2. CASE AutoStart(t)
    <3>1. ~motorRunning /\ ~Blocked' BY <2>1, <2>2 DEF AutoStart, MayAutoStart, Forbidden, Blocked
    <3> QED BY <2>1, <2>2, <3>1, TurnOnForbidden DEF AutoStart
  <2>3. CASE StopAtMaximum(t) BY <2>1, <2>3, TurnOffForbidden DEF StopAtMaximum
  <2> QED BY <1>1, <2>2, <2>3 DEF HandleWaterLevelChange
<1>2. CASE AttemptManualPumpStart(t)
  <2>1. /\ pc[t] = "idle" /\ ~motorRunning /\ UNCHANGED <<run, motorRunning>>
        /\ ~isLockoutTimerActive'
    BY <1>2 DEF AttemptManualPumpStart, StopManualLockoutTimer, belief
  <2>2. CASE isLockoutTimerActive
    <3>1. pc' = [pc EXCEPT ![t] = "erase_start"] /\ UNCHANGED restartRequired
      BY <1>2, <2>2 DEF AttemptManualPumpStart, Goto, Call
    <3>2. \A u \in Task : pc'[u] = IF u = t THEN "erase_start" ELSE pc[u] BY <3>1, Moves
    <3> QED BY <2>1, <3>1, <3>2, ForbiddenStays DEF Blocked
  <2>3. CASE ~isLockoutTimerActive
    BY <1>2, <2>1, <2>3, TurnOnForbidden DEF AttemptManualPumpStart, Blocked
  <2> QED BY <2>2, <2>3
<1>3. CASE ManualStop(t) BY <1>3, TurnOffForbidden DEF ManualStop, belief, flags, lockout
<1>4. ASSUME NEW b \in BOOLEAN, SetRecalibrationMode(t, b) PROVE Forbidden'
  <2>1. /\ UNCHANGED <<run, restartRequired, featureEnabled>>
        /\ isLockoutTimerActive' => isLockoutTimerActive
    BY <1>4 DEF SetRecalibrationMode, StopManualLockoutTimer, belief, lockout
  <2>2. \A u \in Task : pc'[u] \in {pc[u], "erase_idle"}
    BY <1>4, Moves DEF SetRecalibrationMode, Goto, Call, calls
  <2> QED BY <2>1, <2>2, ForbiddenStays DEF Blocked
<1>5. ASSUME NEW b \in BOOLEAN, SetLockoutFeatureEnabled(t, b) PROVE Forbidden'
  <2>1. /\ pc' = pc /\ UNCHANGED <<run, restartRequired, isLockoutTimerActive>>
    BY <1>5 DEF SetLockoutFeatureEnabled, calls, belief, lockout
  <2>2. Blocked' => Blocked BY <2>1 DEF Switch, Blocked
  <2> QED BY <2>1, <2>2, ForbiddenStays
<1> QED BY <1>1, <1>2, <1>3, <1>4, <1>5 DEF Request

LEMMA NextForbidden ==
  ASSUME TypeOK, Forbidden, AutoRuns, Orderly, ~Switch, Next, ~Restart
  PROVE  Forbidden'
<1> USE DEF Coming, Opening, Locking, AutoRun
<1>1. CASE SyncWithHardwareState
  <2>1. /\ AutoRun' => AutoRun
        /\ UNCHANGED <<restartRequired, isLockoutTimerActive, featureEnabled>>
        /\ "main" \in Task /\ pc' = [pc EXCEPT !["main"] = "idle"]
    BY <1>1 DEF SyncWithHardwareState, Watch, Goto, Call, Task, flags, lockout
  <2>2. \A u \in Task : pc'[u] = IF u = "main" THEN "idle" ELSE pc[u] BY <2>1, Moves
  <2> QED BY <2>1, <2>2, ForbiddenStays DEF Blocked
<1>2. CASE StallTimerFires \/ MotorEvent \/ \E i \in Timer : TimerFires(i)
  <2>1. /\ AutoRun' => AutoRun
        /\ UNCHANGED <<pc, restartRequired, isLockoutTimerActive, featureEnabled>>
    BY <1>2 DEF StallTimerFires, MotorEvent, TimerFires, belief, calls, flags, lockout
  <2> QED BY <2>1, ForbiddenStays DEF Blocked
<1>3. ASSUME NEW c \in Caller, Request(c) PROVE Forbidden' BY <1>3, CallsForbidden DEF Task
<1> QED BY <1>1, <1>2, <1>3, StepForbidden, WorkerForbidden, CallsForbidden DEF Next

-----------------------------------------------------------------------------
(* What holds whatever overlaps. *)

LEMMA NextAutoRuns == TypeOK /\ AutoRuns /\ [Next]_vars => AutoRuns'
<1> SUFFICES ASSUME TypeOK, AutoRuns, [Next]_vars PROVE AutoRuns' OBVIOUS
<1> USE DEF AutoRuns, belief
<1>1. ASSUME NEW t \in Task, Step(t) PROVE AutoRuns'
  <2>1. CASE Accepted(t) BY <2>1 DEF Accepted
  <2>2. CASE Arm(t) BY <2>2 DEF Arm, Watch
  <2>3. CASE SendOff(t) BY <2>3 DEF SendOff, Adrift
  <2> QED BY <1>1, <2>1, <2>2, <2>3 DEF Step, Claim, Refused, ClearLockout, EraseRecord,
          StartLockout, RecordLockout
<1>2. CASE Worker
  BY <1>2 DEF Worker, TakeNotifications, HandleLockoutExpired, RestartIfLow
<1>3. CASE SyncWithHardwareState BY <1>3 DEF SyncWithHardwareState, Watch
<1>4. ASSUME NEW t \in Task, NEW level \in Level, HandleWaterLevelChange(t, level)
      PROVE  AutoRuns'
  BY <1>4 DEF HandleWaterLevelChange
<1>5. ASSUME NEW c \in Caller, Request(c) PROVE AutoRuns'
  BY <1>5 DEF Request, AttemptManualPumpStart, ManualStop, SetRecalibrationMode,
     SetLockoutFeatureEnabled
<1>6. CASE StallTimerFires \/ \E i \in Timer : TimerFires(i) BY <1>6 DEF StallTimerFires, TimerFires
<1>7. CASE MotorEvent \/ Restart BY <1>7 DEF MotorEvent, Restart
<1>8. CASE UNCHANGED vars BY <1>8 DEF vars, controller
<1> QED BY <1>1, <1>2, <1>3, <1>4, <1>5, <1>6, <1>7, <1>8 DEF Next

-----------------------------------------------------------------------------
(* The lockout as NVS records it. *)

LEMMA NvsStays ==
  ASSUME NvsAgrees, UNCHANGED <<isLockoutTimerActive, nvsActive>>,
         \A t \in Task : /\ pc'[t] \in Erasing <=> pc[t] \in Erasing
                         /\ pc'[t] \in Recording <=> pc[t] \in Recording
  PROVE  NvsAgrees'
BY DEF NvsAgrees, Writing

(* A task changes the flag and goes on to its write: another one may be    *)
(* on the way to its own, and then the two cross.                          *)
LEMMA NvsBegins ==
  ASSUME TypeOK, NvsAgrees, NEW t \in Task, pc[t] \notin Writing, NEW label \in Writing,
         pc' = [pc EXCEPT ![t] = label],
         label \in Erasing => ~isLockoutTimerActive',
         label \in Recording => isLockoutTimerActive'
  PROVE  Crossing' \/ NvsAgrees'
<1>1. \A u \in Task : pc'[u] = IF u = t THEN label ELSE pc[u] BY Moves
<1>2. CASE \E u \in Task : u # t /\ pc[u] \in Writing BY <1>1, <1>2 DEF Crossing
<1>3. CASE \A u \in Task \ {t} : pc[u] \notin Writing BY <1>1, <1>3 DEF NvsAgrees, Writing
<1> QED BY <1>2, <1>3

(* The write, which no other task crosses. *)
LEMMA NvsEnds ==
  ASSUME TypeOK, ~Crossing, NEW t \in Task, pc[t] \in Writing,
         \A u \in Task \ {t} : pc'[u] = pc[u], pc'[t] \notin Writing,
         nvsActive' <=> isLockoutTimerActive'
  PROVE  NvsAgrees'
<1>1. \A u \in Task : pc'[u] \notin Writing BY DEF Crossing
<1> QED BY <1>1 DEF NvsAgrees, Writing

(* A timer that is torn down: where the flag was not set, nothing changes. *)
LEMMA NvsStops ==
  ASSUME NvsAgrees, StopManualLockoutTimer, ~isLockoutTimerActive,
         \A t \in Task : /\ pc'[t] \in Erasing <=> pc[t] \in Erasing
                         /\ pc'[t] \in Recording <=> pc[t] \in Recording
  PROVE  NvsAgrees'
BY DEF NvsAgrees, Writing, StopManualLockoutTimer

LEMMA StepNvs ==
  ASSUME TypeOK, NvsAgrees, ~Crossing, NEW t \in Task, Step(t)
  PROVE  Crossing' \/ NvsAgrees'
<1> USE DEF Erasing, Recording
<1>1. CASE Claim(t) \/ Accepted(t) \/ Refused(t) \/ Arm(t) \/ SendOff(t)
  <2>1. PICK label \in {"idle", "send_on", "arm", "lock_on", "lock_off"} :
          pc' = [pc EXCEPT ![t] = label]
    BY <1>1 DEF Claim, Accepted, Refused, Arm, SendOff, Return, Goto, Call
  <2>2. UNCHANGED lockout /\ pc[t] \in {"claim", "send_on", "arm", "send_off"}
    BY <1>1 DEF Claim, Accepted, Refused, Arm, SendOff
  <2> QED BY <2>1, <2>2, Moves, NvsStays DEF lockout
<1>2. CASE ClearLockout(t)
  <2>1. pc[t] \in {"lock_on", "lock_off"} /\ StopManualLockoutTimer BY <1>2 DEF ClearLockout
  <2>2. CASE isLockoutTimerActive
    <3>1. PICK label \in {"erase_on", "erase_off"} : pc' = [pc EXCEPT ![t] = label]
      BY <1>2, <2>2 DEF ClearLockout, Goto, Call
    <3> QED BY <2>1, <3>1, NvsBegins DEF StopManualLockoutTimer, Writing
  <2>3. CASE ~isLockoutTimerActive
    <3>1. PICK label \in {"set_on", "set_off"} : pc' = [pc EXCEPT ![t] = label]
      BY <1>2, <2>3 DEF ClearLockout, Goto, Call
    <3> QED BY <2>1, <2>3, <3>1, Moves, NvsStops
  <2> QED BY <2>2, <2>3
<1>3. CASE StartLockout(t)
  <2>1. pc[t] \in {"set_on", "set_off"} BY <1>3 DEF StartLockout
  <2>2. CASE ticking = Timer
    <3>1. UNCHANGED lockout /\ pc' = [pc EXCEPT ![t] = "idle"]
      BY <1>3, <2>2 DEF StartLockout, Return, Goto, Call
    <3> QED BY <2>1, <3>1, Moves, NvsStays DEF lockout
  <2>3. CASE ticking # Timer
    <3>1. PICK label \in {"record_on", "record_off"} : pc' = [pc EXCEPT ![t] = label]
      BY <1>3, <2>3 DEF StartLockout, Goto, Call
    <3>2. isLockoutTimerActive' BY <1>3, <2>3 DEF StartLockout
    <3> QED BY <2>1, <3>1, <3>2, NvsBegins DEF Writing
  <2> QED BY <2>2, <2>3
<1>4. CASE EraseRecord(t)
  <2>1. pc[t] \in Writing /\ ~nvsActive' /\ UNCHANGED isLockoutTimerActive
    BY <1>4 DEF EraseRecord, Writing
  <2>2. ~isLockoutTimerActive BY <1>4 DEF EraseRecord, NvsAgrees
  <2>3. PICK label \in {"idle", "claim", "expired", "set_on", "set_off"} :
          pc' = [pc EXCEPT ![t] = label]
    BY <1>4 DEF EraseRecord, TurnWaterPumpOn, Goto, Call
  <2>4. \A u \in Task : pc'[u] = IF u = t THEN label ELSE pc[u] BY <2>3, Moves
  <2> QED BY <2>1, <2>2, <2>4, NvsEnds DEF Writing
<1>5. CASE RecordLockout(t)
  <2>1. /\ pc[t] \in Writing /\ nvsActive' /\ UNCHANGED isLockoutTimerActive
        /\ pc' = [pc EXCEPT ![t] = "idle"]
    BY <1>5 DEF RecordLockout, Writing, Return, Goto, Call
  <2>2. isLockoutTimerActive BY <1>5 DEF RecordLockout, NvsAgrees
  <2>3. \A u \in Task : pc'[u] = IF u = t THEN "idle" ELSE pc[u] BY <2>1, Moves
  <2> QED BY <2>1, <2>2, <2>3, NvsEnds DEF Writing
<1> QED BY <1>1, <1>2, <1>3, <1>4, <1>5 DEF Step

LEMMA WorkerNvs == ASSUME TypeOK, NvsAgrees, Worker PROVE Crossing' \/ NvsAgrees'
<1> USE DEF Erasing, Recording
<1>0. "worker" \in Task BY DEF Task
<1>1. CASE TakeNotifications
  <2>1. UNCHANGED lockout /\ pc["worker"] = "idle" BY <1>1 DEF TakeNotifications
  <2>2. pc' = pc \/ TurnWaterPumpOff("worker", "auto")
    BY <1>1 DEF TakeNotifications, ProcessStallDetection, calls
  <2>3. CASE pc' = pc BY <2>1, <2>3, NvsStays DEF lockout
  <2>4. CASE TurnWaterPumpOff("worker", "auto")
    BY <1>0, <2>1, <2>4, TurnOffMoves, NvsStays DEF lockout
  <2> QED BY <2>2, <2>3, <2>4
<1>2. CASE HandleLockoutExpired
  <2>1. /\ pc["worker"] = "idle" /\ pc' = [pc EXCEPT !["worker"] = "erase_expired"]
        /\ ~isLockoutTimerActive'
    BY <1>2 DEF HandleLockoutExpired, Goto, Call
  <2> QED BY <1>0, <2>1, NvsBegins DEF Writing
<1>3. CASE RestartIfLow
  <2>1. UNCHANGED lockout /\ pc["worker"] = "expired" BY <1>3 DEF RestartIfLow
  <2>2. PICK label \in {"idle", "claim"} : pc' = [pc EXCEPT !["worker"] = label]
    BY <1>3 DEF RestartIfLow, TurnWaterPumpOn, Goto, Call
  <2> QED BY <1>0, <2>1, <2>2, Moves, NvsStays DEF lockout
<1> QED BY <1>1, <1>2, <1>3 DEF Worker

LEMMA CallsNvs ==
  ASSUME TypeOK, NvsAgrees, NEW t \in Task,
         \/ \E level \in Level : HandleWaterLevelChange(t, level)
         \/ t \in Caller /\ Request(t)
  PROVE  Crossing' \/ NvsAgrees'
<1> USE DEF Erasing, Recording
<1>1. ASSUME NEW level \in Level, HandleWaterLevelChange(t, level) PROVE NvsAgrees'
  <2>1. UNCHANGED lockout /\ pc[t] = "idle" BY <1>1 DEF HandleWaterLevelChange
  <2>2. /\ \A u \in Task \ {t} : pc'[u] = pc[u]
        /\ pc'[t] \in {"idle", "claim", "send_off"}
    BY <1>1, TurnOnMoves, TurnOffMoves DEF HandleWaterLevelChange, AutoStart, StopAtMaximum
  <2> QED BY <2>1, <2>2, NvsStays DEF lockout
<1>2. CASE AttemptManualPumpStart(t)
  <2>1. pc[t] = "idle" /\ StopManualLockoutTimer BY <1>2 DEF AttemptManualPumpStart
  <2>2. CASE isLockoutTimerActive
    <3>1. pc' = [pc EXCEPT ![t] = "erase_start"]
      BY <1>2, <2>2 DEF AttemptManualPumpStart, Goto, Call
    <3> QED BY <2>1, <3>1, NvsBegins DEF StopManualLockoutTimer, Writing
  <2>3. CASE ~isLockoutTimerActive
    <3>1. TurnWaterPumpOn(t, "manual") BY <1>2, <2>3 DEF AttemptManualPumpStart
    <3> QED BY <2>1, <2>3, <3>1, TurnOnMoves, NvsStops
  <2> QED BY <2>2, <2>3
<1>3. CASE ManualStop(t)
  <2>1. UNCHANGED lockout /\ pc[t] = "idle" BY <1>3 DEF ManualStop
  <2> QED BY <1>3, <2>1, TurnOffMoves, NvsStays DEF ManualStop, lockout
<1>4. ASSUME NEW b \in BOOLEAN, SetRecalibrationMode(t, b) PROVE Crossing' \/ NvsAgrees'
  <2>1. pc[t] = "idle" BY <1>4 DEF SetRecalibrationMode
  <2>2. CASE StopManualLockoutTimer /\ isLockoutTimerActive /\ Goto(t, "erase_idle")
    BY <2>1, <2>2, NvsBegins DEF StopManualLockoutTimer, Writing, Goto, Call
  <2>3. CASE StopManualLockoutTimer /\ ~isLockoutTimerActive /\ pc' = pc
    BY <2>3, NvsStops
  <2>4. CASE UNCHANGED lockout /\ pc' = pc BY <2>4, NvsStays DEF lockout
  <2> QED BY <1>4, <2>2, <2>3, <2>4 DEF SetRecalibrationMode, calls
<1>5. ASSUME NEW b \in BOOLEAN, SetLockoutFeatureEnabled(t, b) PROVE NvsAgrees'
  BY <1>5, NvsStays DEF SetLockoutFeatureEnabled, lockout, calls
<1> QED BY <1>1, <1>2, <1>3, <1>4, <1>5 DEF Request

LEMMA NextNvs ==
  ASSUME TypeOK, NvsAgrees, Orderly, Next, ~Restart
  PROVE  Crossing' \/ NvsAgrees'
<1> USE DEF Erasing, Recording
<1>1. CASE SyncWithHardwareState
  <2>1. /\ UNCHANGED lockout /\ "main" \in Task /\ pc["main"] = "boot"
        /\ pc' = [pc EXCEPT !["main"] = "idle"]
    BY <1>1 DEF SyncWithHardwareState, Goto, Call, Task
  <2> QED BY <2>1, Moves, NvsStays DEF lockout
<1>2. CASE StallTimerFires \/ MotorEvent \/ \E i \in Timer : TimerFires(i)
  BY <1>2, NvsStays DEF StallTimerFires, MotorEvent, TimerFires, lockout, calls
<1>3. ASSUME NEW c \in Caller, Request(c) PROVE Crossing' \/ NvsAgrees'
  BY <1>3, CallsNvs DEF Task
<1> QED BY <1>1, <1>2, <1>3, StepNvs, WorkerNvs, CallsNvs DEF Next, Orderly

-----------------------------------------------------------------------------
(* After a restart nothing is under way, and a lockout that NVS holds is   *)
(* in force again, with its timer and with restartRequired.                *)
LEMMA RestartLInv == ASSUME TypeOK, Restart PROVE Backed' /\ NvsAgrees' /\ Forbidden'
<1>1. \A t \in Task : pc'[t] \in {"boot", "idle"} BY DEF Restart
<1>2. PICK restored \in {FALSE, nvsActive} :
        /\ isLockoutTimerActive' = restored /\ nvsActive' = restored
        /\ restartRequired' = restored
        /\ lockoutTimer' = (IF restored THEN 1 ELSE 0) /\ ticking' = {lockoutTimer'} \ {0}
  BY DEF Restart, RestoreLockout
<1>3. restored \in BOOLEAN BY DEF TypeOK
<1>4. notified' = {} /\ todo' = {} /\ run' = {} BY DEF Restart
<1>5. Backed'
  BY <1>1, <1>2, <1>3, <1>4 DEF Backed, Pending, Settling
<1>6. Forbidden'
  BY <1>1, <1>2, <1>3, <1>4 DEF Forbidden, Blocked, Coming, Opening, Locking, AutoRun
<1>7. NvsAgrees' BY <1>1, <1>2 DEF NvsAgrees, Writing, Erasing, Recording
<1> QED BY <1>5, <1>6, <1>7

LEMMA NextLInv == LInv /\ [Next]_vars => LInv'
<1> SUFFICES ASSUME LInv, [Next]_vars PROVE LInv' OBVIOUS
<1>1. TypeOK /\ AutoRuns BY DEF LInv
<1>2. TypeOK' /\ AutoRuns' BY <1>1, NextTyped, NextAutoRuns
<1>3. CASE UNCHANGED vars
  BY <1>3 DEF LInv, vars, controller, belief, flags, lockout, monitor, bits, calls, TypeOK,
     NvsAgrees, Crossing, AutoRuns, AutoRun, Backed, Pending, Forbidden, Blocked, Alone
<1>4. CASE Restart BY <1>1, <1>2, <1>4, RestartLInv DEF LInv
<1>5. CASE Next /\ ~Restart
  <2>1. ASSUME disturbance' # "overlap" PROVE Backed' /\ (Crossing' \/ NvsAgrees')
    <3>1. disturbance # "overlap" /\ Orderly BY <1>1, <1>5, <2>1, Calm
    <3>2. Backed /\ NvsAgrees BY <3>1 DEF LInv, Orderly
    <3> QED BY <1>1, <1>5, <3>1, <3>2, NextBacked, NextNvs
  <2>2. ASSUME disturbance' = "none" PROVE Forbidden'
    <3>1. disturbance = "none" /\ Orderly /\ ~Switch BY <1>1, <1>5, <2>2, Calm
    <3>2. Forbidden BY <3>1 DEF LInv
    <3> QED BY <1>1, <1>5, <3>1, <3>2, NextForbidden
  <2> QED BY <1>2, <2>1, <2>2 DEF LInv
<1> QED BY <1>3, <1>4, <1>5

(* The lockout keeps its promise, for any number of tasks, timers and      *)
(* restarts, unless operations overlapped or, for the first, a stop has    *)
(* failed: no automatic run during it; it has a timer that will end it, or *)
(* an expiry that waits, and no other timer is left to cut a later one     *)
(* short; and NVS agrees with it whenever no task is between its change of *)
(* the flag and its write.                                                 *)
THEOREM LockoutKept == Spec => []LockoutInv
<1>1. ASSUME LInv PROVE LockoutInv
  <2>1. TypeOK /\ LockoutHolds
    BY <1>1 DEF LInv, LockoutHolds, Forbidden, Blocked, AutoRun
  <2>2. Crossing => \E t \in Task : pc[t] \in Writing BY DEF Crossing
  <2>3. LockoutBacked
    BY <1>1, <2>2 DEF LInv, LockoutBacked, Backed, Pending, NvsAgrees
  <2> QED BY <2>1, <2>3 DEF LockoutInv
<1> QED BY <1>1, InitLInv, NextLInv, PTL DEF Spec
=============================================================================
