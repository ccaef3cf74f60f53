------------------------------- MODULE SuLink -------------------------------
(***************************************************************************)
(* The Control Unit's side of the UART link (SwitchingUnitManager.cc): any *)
(* number of FreeRTOS tasks call sendPumpOn, sendPumpOff, ... , each call  *)
(* runs executeTransaction, and one RX task matches the responses that     *)
(* come back and follows the pump events.  Between two statements of a     *)
(* task any other task may run: the ESP32 has two cores.                   *)
(*                                                                         *)
(* The Switching Unit at the other end is the abstract actuator, which     *)
(* RelayCtrl implements, with the command handler of comm_protocol.c in    *)
(* front of it.  A frame whose checksum fails is a lost frame.             *)
(***************************************************************************)
EXTENDS Naturals, Sequences

CONSTANTS
  Task,        \* the tasks that command the pump
  Command,     \* the commands they use
  MaxToSu,     \* frames that wait on the way to the Switching Unit, at most
  MaxToCu      \* frames that wait on the way back, at most

ASSUME LinkAssumption ==
  /\ Command \subseteq {"ON", "OFF", "LOCK", "UNLOCK", "STATUS"}
  /\ "nobody" \notin Task /\ MaxToSu \in Nat \ {0} /\ MaxToCu \in Nat \ {0}

VARIABLES
  expected, waiting,   \* _expectedResponseId, _waitingForResponse
  semaphore,           \* _transactionSemaphore has been given
  pending,             \* _pendingResponse
  motorRunning,        \* _motorRunning, what the rest of the unit believes
  receiver,            \* the RX task: "idle", or past the check in processFrame
  pc, cmd,             \* per task: next statement, its command
  toSu, toCu           \* the frames on the wire, each way

(* The Switching Unit. *)
VARIABLES mode, winding, rested, motor

(* Observers. *)
VARIABLES
  missed,      \* per task: a frame of its call was lost
  mishap       \* the worst that has happened to any call so far

slot == <<expected, waiting, semaphore, pending>>
wire == <<toSu, toCu>>
calls == <<pc, cmd>>
actuator == <<mode, winding, rested>>
observers == <<missed, mishap>>
vars == <<slot, motorRunning, receiver, calls, wire, actuator, motor, observers>>

Actuator == INSTANCE PumpActuator WITH COOLDOWN <- 1

Nobody == "nobody"
NoFrame == [kind |-> "none"]
Reply(id, code, owner) == [kind |-> "response", id |-> id, code |-> code, owner |-> owner]
Event(id) == [kind |-> "event", id |-> id, owner |-> Nobody]

Init ==
  /\ expected = "none" /\ waiting = FALSE /\ semaphore = FALSE
  /\ pending = NoFrame /\ motorRunning = FALSE /\ receiver = "idle"
  /\ pc = [t \in Task |-> "idle"] /\ cmd = [t \in Task |-> "none"]
  /\ toSu = <<>> /\ toCu = <<>>
  /\ Actuator!Init /\ motor = FALSE
  /\ missed = [t \in Task |-> FALSE] /\ mishap = "none"

(* "lost": a frame was lost; "late": a call gave up on an answer that was  *)
(* on its way; "crossed": a call began in the middle of processFrame.      *)
Mishap == <<"none", "lost", "late", "crossed">>
Worsen(what) == LET rank(m) == CHOOSE i \in DOMAIN Mishap : Mishap[i] = m
                IN  mishap' = IF rank(mishap) < rank(what) THEN what ELSE mishap

Goto(t, label) == pc' = [pc EXCEPT ![t] = label]

-----------------------------------------------------------------------------
(* A call, statement by statement.                                         *)

(* A call on an absent Switching Unit returns at once and changes nothing. *)
Arm(t, c) ==
  /\ pc[t] = "idle" /\ Goto(t, "clear")
  /\ cmd' = [cmd EXCEPT ![t] = c]
  /\ expected' = c /\ waiting' = TRUE
  /\ missed' = [missed EXCEPT ![t] = FALSE]
  /\ IF receiver = "give" THEN Worsen("crossed") ELSE UNCHANGED mishap
  /\ UNCHANGED <<semaphore, pending, motorRunning, receiver, wire, actuator, motor>>

Clear(t) ==
  /\ pc[t] = "clear" /\ Goto(t, "send")
  /\ semaphore' = FALSE
  /\ UNCHANGED <<expected, waiting, pending, motorRunning, receiver, cmd, wire,
                 actuator, motor, observers>>

(* The frames of these calls will never be answered. *)
Lost(frames) ==
  /\ missed' = [t \in Task |-> missed[t] \/ \E i \in DOMAIN frames : frames[i].owner = t]
  /\ IF frames = <<>> THEN UNCHANGED mishap ELSE Worsen("lost")

(* The definitions named ...Bug are the next one with a mistake in it: the *)
(* properties below have been seen to catch them.                          *)

(* sendFrame holds _txMutex for the whole frame.  A frame that does not    *)
(* fit the Switching Unit's receive ring is lost.                          *)
Transmits(frame) ==
  IF Len(toSu) < MaxToSu
  THEN toSu' = Append(toSu, frame) /\ UNCHANGED observers
  ELSE Lost(<<frame>>) /\ UNCHANGED toSu

Send(t) ==
  /\ pc[t] = "send" /\ Goto(t, "take")
  /\ Transmits([id |-> cmd[t], owner |-> t])
  /\ UNCHANGED <<slot, motorRunning, receiver, cmd, toCu, actuator, motor>>

Take(t) ==
  /\ pc[t] = "take" /\ semaphore
  /\ semaphore' = FALSE /\ Goto(t, "conclude")
  /\ UNCHANGED <<expected, waiting, pending, motorRunning, receiver, cmd, wire,
                 actuator, motor, observers>>

(* Frames of this call are still on their way. *)
Underway(t) ==
  \/ \E i \in DOMAIN toSu : toSu[i].owner = t
  \/ \E i \in DOMAIN toCu : toCu[i].owner = t
  \/ receiver = "give"

TimeOut(t) ==
  /\ pc[t] = "take" /\ ~semaphore /\ Goto(t, "giveup")
  /\ IF Underway(t) THEN Worsen("late") ELSE UNCHANGED mishap
  /\ UNCHANGED <<slot, motorRunning, receiver, cmd, wire, actuator, motor,
                 missed>>

Return(t) == Goto(t, "idle") /\ cmd' = [cmd EXCEPT ![t] = "none"]

GiveUp(t) ==
  /\ pc[t] = "giveup" /\ Return(t)
  /\ waiting' = FALSE
  /\ UNCHANGED <<expected, semaphore, pending, motorRunning, receiver, wire,
                 actuator, motor, observers>>

BelievedBug(c, code) ==
  CASE c = "OFF" /\ code \in {"OK", "ERR_ALREADY_OFF"} -> FALSE
    [] c = "STATUS"                                   -> code = "RUNNING"
    [] OTHER                                          -> motorRunning

Believed(c, code) ==
  CASE c = "ON" /\ code = "OK"                        -> TRUE
    [] c = "OFF" /\ code \in {"OK", "ERR_ALREADY_OFF"} -> FALSE
    [] c = "STATUS"                                   -> code = "RUNNING"
    [] OTHER                                          -> motorRunning

(* rx_frame = _pendingResponse; sendPumpOn, sendPumpOff, queryStatus then  *)
(* set the flag by the status they find, and return.                       *)
Conclude(t) ==
  /\ pc[t] = "conclude" /\ Return(t)
  /\ motorRunning' = Believed(cmd[t], pending.code)
  /\ UNCHANGED <<slot, receiver, wire, actuator, motor, observers>>

(* The keep-alive timer sends its ping whatever transaction is open.       *)
KeepAlive ==
  /\ Transmits([id |-> "PING", owner |-> Nobody])
  /\ UNCHANGED <<slot, motorRunning, receiver, calls, toCu, actuator, motor>>

-----------------------------------------------------------------------------
(* The RX task: processFrame.                                              *)

Arriving == receiver = "idle" /\ toCu # <<>> /\ toCu' = Tail(toCu)
MatchesAnyBug(frame) == frame.kind = "response" /\ waiting
MatchesOkBug(frame) == /\ frame.kind = "response" /\ waiting /\ frame.id = expected
                       /\ frame.code = "OK"
Matches(frame) == frame.kind = "response" /\ waiting /\ frame.id = expected

Accept ==
  /\ Arriving /\ Matches(Head(toCu))
  /\ pending' = Head(toCu) /\ receiver' = "give"
  /\ UNCHANGED <<expected, waiting, semaphore, motorRunning, calls, toSu, actuator,
                 motor, observers>>

Give ==
  /\ receiver = "give" /\ receiver' = "idle"
  /\ waiting' = FALSE /\ semaphore' = TRUE
  /\ UNCHANGED <<expected, pending, motorRunning, calls, wire, actuator, motor,
                 observers>>

Discard ==
  /\ Arriving /\ Head(toCu).kind = "response" /\ ~Matches(Head(toCu))
  /\ UNCHANGED <<slot, motorRunning, receiver, calls, toSu, actuator, motor, observers>>

(* No callback is ever registered, so this is all that an event changes.   *)
FollowEvent ==
  /\ Arriving /\ Head(toCu).kind = "event"
  /\ motorRunning' = CASE Head(toCu).id = "PUMP_STARTED" -> TRUE
                       [] Head(toCu).id = "PUMP_STOPPED" -> FALSE
                       [] OTHER -> motorRunning
  /\ UNCHANGED <<slot, receiver, calls, toSu, actuator, motor, observers>>

ProcessFrame == Accept \/ Give \/ Discard \/ FollowEvent

-----------------------------------------------------------------------------
(* The Switching Unit.                                                     *)

Says(frame) == Len(toCu) < MaxToCu /\ toCu' = Append(toCu, frame)

Unmoved == UNCHANGED <<slot, motorRunning, receiver, calls, observers>>

(* A request and its answer: the relay operation, or a refusal. *)
Carries(c, code) ==
  CASE c = "ON"     -> \/ Actuator!Start /\ code = "OK"
                       \/ UNCHANGED actuator /\ mode = "on" /\ code = "ERR_ALREADY_ON"
                       \/ UNCHANGED actuator /\ mode = "resting" /\ code = "ERR_COOLDOWN"
                       \/ UNCHANGED actuator /\ mode = "locked" /\ code = "ERR_LOCKED"
    [] c = "OFF"    -> \/ Actuator!Stop /\ code = "OK"
                       \/ UNCHANGED actuator /\ mode \in {"ready", "resting"}
                          /\ code = "ERR_ALREADY_OFF"
                       \/ UNCHANGED actuator /\ mode = "locked" /\ code = "ERR_LOCKED"
    [] c = "LOCK"   -> Actuator!Lock /\ code = "OK"
    [] c = "UNLOCK" -> \/ Actuator!Unlock /\ code = "OK"
                       \/ UNCHANGED actuator /\ mode # "locked" /\ code = "ERR_ALREADY_OFF"
    [] c = "STATUS" -> UNCHANGED actuator /\ code = IF motor THEN "RUNNING" ELSE "STOPPED"
    [] OTHER        -> UNCHANGED actuator /\ code = "OK"

StatusCode == {"OK", "ERR_ALREADY_ON", "ERR_ALREADY_OFF", "ERR_COOLDOWN", "ERR_LOCKED",
               "RUNNING", "STOPPED"}

HandleCommand ==
  /\ toSu # <<>> /\ toSu' = Tail(toSu)
  /\ \E code \in StatusCode :
       /\ Carries(Head(toSu).id, code)
       /\ Says(Reply(Head(toSu).id, code, Head(toSu).owner))
  /\ Unmoved /\ UNCHANGED motor

(* motor_detect_tick reports every change of the debounced feedback. *)
MotorChanges ==
  /\ motor' = ~motor
  /\ Says(Event(IF motor' THEN "PUMP_STARTED" ELSE "PUMP_STOPPED"))
  /\ Unmoved /\ UNCHANGED <<toSu, actuator>>

(* relay_tick finds no motor while it drives the coil. *)
Trip ==
  /\ mode = "on" /\ ~winding /\ ~motor
  /\ Actuator!Stop
  /\ Says(Event("COOLDOWN_STARTED"))
  /\ Unmoved /\ UNCHANGED <<toSu, motor>>

RestEnds ==
  /\ Actuator!Recover
  /\ Says(Event("COOLDOWN_ENDED"))
  /\ Unmoved /\ UNCHANGED <<toSu, motor>>

TimePasses ==
  /\ Actuator!DropWinding \/ Actuator!Rest
  /\ Unmoved /\ UNCHANGED <<wire, motor>>

(* A restart empties the UART buffers and believes the feedback it finds   *)
(* without reporting it.                                                   *)
SuRestarts ==
  /\ Actuator!PowerCycle
  /\ motor' \in BOOLEAN
  /\ toSu' = <<>> /\ Lost(toSu)
  /\ UNCHANGED <<slot, motorRunning, receiver, calls, toCu>>

LoseFrame ==
  /\ \/ /\ toSu # <<>> /\ toSu' = Tail(toSu)
        /\ Lost(<<Head(toSu)>>) /\ UNCHANGED toCu
     \/ /\ toCu # <<>> /\ toCu' = Tail(toCu)
        /\ Lost(<<Head(toCu)>>) /\ UNCHANGED toSu
  /\ UNCHANGED <<slot, motorRunning, receiver, calls, actuator, motor>>

-----------------------------------------------------------------------------
CallStep(t) == \/ Clear(t) \/ Send(t) \/ Take(t) \/ TimeOut(t)
               \/ GiveUp(t) \/ Conclude(t)
BeginCall(t) == \E c \in Command : Arm(t, c)

Next ==
  \/ \E t \in Task : BeginCall(t) \/ CallStep(t)
  \/ KeepAlive \/ ProcessFrame
  \/ HandleCommand \/ MotorChanges \/ Trip \/ RestEnds \/ TimePasses
  \/ SuRestarts \/ LoseFrame

Spec == Init /\ [][Next]_vars

-----------------------------------------------------------------------------
(***************************************************************************)
(* Properties.                                                             *)
(***************************************************************************)

Frames(q) == {q[i] : i \in DOMAIN q}

TypeOK ==
  /\ expected \in Command \cup {"none"} /\ waiting \in BOOLEAN /\ semaphore \in BOOLEAN
  /\ motorRunning \in BOOLEAN /\ receiver \in {"idle", "give"}
  /\ \A t \in Task :
       /\ pc[t] \in {"idle", "clear", "send", "take", "giveup", "conclude"}
       /\ cmd[t] \in Command \cup {"none"}
  /\ missed \in [Task -> BOOLEAN] /\ \E i \in DOMAIN Mishap : mishap = Mishap[i]
  /\ Len(toSu) <= MaxToSu /\ Len(toCu) <= MaxToCu
  /\ \A f \in Frames(toSu) : f.id \in Command \cup {"PING"}
  /\ \A f \in Frames(toCu) : f.kind \in {"response", "event"}

(* ControlUnit/ProjectOverview.md:106: a call waits until the RX task      *)
(* delivers the response that matches its command -- except when a call    *)
(* began in the middle of processFrame.                                    *)
AnswerMatchesCommand ==
  mishap # "crossed" => \A t \in Task : pc[t] = "conclude" => pending.id = cmd[t]

(* As long as no answer has come too late, a call concludes from the       *)
(* answer to the very frame it sent, never from one that an earlier call   *)
(* left behind: executeTransaction arms the slot and clears the semaphore  *)
(* before the frame leaves.                                                *)
OwnAnswer == mishap \in {"none", "lost"} => \A t \in Task : pc[t] = "conclude" => pending.owner = t

(* A call gives up only on an answer that is late, or when one of its      *)
(* frames was lost: no answer is dropped between the statements of a call. *)
OnlyLossTimesOut == mishap \in {"none", "lost"} => \A t \in Task : pc[t] = "giveup" => missed[t]

Quiet == /\ toSu = <<>> /\ toCu = <<>> /\ receiver = "idle"
         /\ \A t \in Task : pc[t] = "idle"

(* Unless a frame was lost or late, the Control Unit never takes a motor   *)
(* that runs under the Switching Unit's command for stopped once the wire  *)
(* is silent, although events and answers write _motorRunning from two     *)
(* tasks.                                                                  *)
RunningIsBelieved == Quiet /\ mishap = "none" /\ mode = "on" /\ motor => motorRunning

(* The types, and whose answer a call concludes from: never another        *)
(* command's, and its own frame's unless an answer was late.               *)
AnswerInv == TypeOK /\ AnswerMatchesCommand /\ OwnAnswer
=============================================================================
