-------------------------------- MODULE Receiver --------------------------------
(***************************************************************************)
(* The serial port of the RF module (UartManager.cc).  The reception task  *)
(* puts the packets of the tank's sensor together, the MQTT command task   *)
(* sends packets, and in configuration mode the HTTPS server queries and   *)
(* sets the module itself, over the same two wires.                        *)
(*                                                                         *)
(* External: the module relays what it hears, a packet in pieces; while it *)
(* is being configured it hears nothing, prompts and answers, each up to a *)
(* colon and in order, perhaps after the reader has given up.  Between two *)
(* packets of the sensor more than PACKET_TIMEOUT_MS may pass or not.      *)
(***************************************************************************)
EXTENDS Integers, Sequences

CONSTANTS
  UART_DATA_RECEPTION_TIMEOUT_SEC,
  MAX_ENCODED_SIZE,      \* pieces of a packet that fit the buffer
  MAX_CONSECUTIVE_ERRORS,
  Queries,               \* sessions that GET /rf-config opens after the first
  MaxRequests,           \* requests of a client
  MaxNoise,              \* pieces that the air adds or takes, packets nobody takes
  MaxLate,               \* answers that come late, or are too long for their reader
  MaxErrors              \* read errors of the driver

(* A whole packet fits the buffer: one of the sensor has some 25 of its 80 *)
(* bytes.                                                                  *)
ASSUME ReceiverAssumption ==
  /\ UART_DATA_RECEPTION_TIMEOUT_SEC \in Nat \ {0}
  /\ MAX_ENCODED_SIZE \in Nat \ {0, 1} /\ MAX_CONSECUTIVE_ERRORS \in Nat \ {0}
  /\ {Queries, MaxRequests, MaxNoise, MaxLate, MaxErrors} \subseteq Nat

VARIABLES
  rxBuffer, late,        \* what has been collected; PACKET_TIMEOUT_MS ago
  errors,                \* consecutiveErrors
  air,                   \* the packet on its way: how far, and whether whole
  rfModuleInConfigMode,  \* the flag
  port,                  \* uartPortAccessMutex: who holds it
  module, owed, inbox,   \* the module; what it will say; what it has said
  session, request,      \* of the HTTPS server
  sender,                \* of the MQTT command task
  timer,                 \* dataReceptionTimerHandle: seconds to go
  accepted,              \* the listener has said yes, xTimerStart comes next
  timeoutBit, eventBit,  \* UART_TIMEOUT_BIT and UART_TIMEOUT_EVENT_BIT
  mainAt, led,           \* the main task, and what it shows
  budget                 \* what is left of the bounds

(* Observers: seconds since the last reading; whole packets that were      *)
(* lost, and what there was that may have cost one.                        *)
VARIABLES quiet, missed, hits

reception == <<rxBuffer, late, errors>>
radio == <<module, owed, inbox>>
watchdog == <<timer, accepted, timeoutBit, eventBit, mainAt, led, quiet>>
config == <<rfModuleInConfigMode, session, request>>
counts == <<missed, hits>>
vars == <<reception, air, config, port, radio, sender, watchdog, budget, counts>>

T == UART_DATA_RECEPTION_TIMEOUT_SEC

NoSession == [at |-> "none", kind |-> "none", result |-> "none"]
NoRequest == [doing |-> "none", left |-> 0, checked |-> FALSE]
Quiet == [at |-> "none", whole |-> TRUE]

Init ==
  /\ rxBuffer = <<>> /\ late = FALSE /\ errors = 0 /\ air = Quiet
  /\ rfModuleInConfigMode = FALSE /\ port = "free"
  /\ module = "radio" /\ owed = <<>> /\ inbox = <<>>
  /\ session = NoSession /\ request = NoRequest /\ sender = "idle"
  /\ timer = T /\ accepted = FALSE /\ timeoutBit = FALSE /\ eventBit = FALSE
  /\ mainAt = "loop" /\ led = "OK"
  /\ budget = [requests |-> MaxRequests, noise |-> MaxNoise, late |-> MaxLate, errors |-> MaxErrors]
  /\ quiet = 0 /\ missed = 0 /\ hits = 0

Spend(what) == budget[what] > 0 /\ budget' = [budget EXCEPT ![what] = @ - 1]

-----------------------------------------------------------------------------
(* The reception task.  In SYNC nothing has been collected.                *)

(* The buffers a piece can leave behind.  A byte that comes too late, or   *)
(* for which there is no room, is dropped with what was there; what is     *)
(* left of its piece begins another packet.                                *)
Collect(piece) ==
  IF rxBuffer = <<>> THEN {<<piece>>}
  ELSE IF ~late /\ Len(rxBuffer) < MAX_ENCODED_SIZE THEN {Append(rxBuffer, piece)}
  ELSE {<<>>, <<"rest">>}

Whole == <<"head", "tail">>

(* There may be no memory for the packet.  The listener takes a reading,   *)
(* and shows it unless it is the last one again; of a packet with a wrong  *)
(* checksum, a request or a response it takes nothing but says yes, and to *)
(* anything else no.                                                       *)
NoMemory ==
  Spend("noise") /\ missed' = missed + 1 /\ hits' = hits + 1 /\ UNCHANGED watchdog
NoReading ==
  /\ Spend("noise") /\ accepted' \in BOOLEAN
  /\ UNCHANGED <<timer, timeoutBit, eventBit, mainAt, led, quiet, counts>>

(* Mutant: the listener forgets to say yes. *)
processReceivedPacketBug ==
  /\ quiet' = 0 /\ led' \in {"OK", led}
  /\ UNCHANGED <<timer, accepted, timeoutBit, eventBit, mainAt, budget, counts>>
processReceivedPacket ==
  \/ NoMemory
  \/ NoReading
  \/ /\ quiet' = 0 /\ led' \in {"OK", led} /\ accepted' = TRUE
     /\ UNCHANGED <<timer, timeoutBit, eventBit, mainAt, budget, counts>>

(* A yes starts the watchdog anew, when the listener has come back. *)
StartWatchdog ==
  /\ accepted /\ accepted' = FALSE /\ timer' = T
  /\ UNCHANGED <<reception, air, config, port, radio, sender, timeoutBit, eventBit, mainAt, led, quiet, budget, counts>>

(* Pieces go to the reception task unless the module is being configured.  *)
Reading == ~rfModuleInConfigMode
Heard == Reading /\ module = "radio"

(* The task is not at work on a packet: what arrives meanwhile waits.      *)
AtRead == Reading /\ ~accepted

HeadArrives ==
  /\ air.at = "none" /\ Heard /\ AtRead
  /\ air' = [at |-> "head", whole |-> TRUE]
  /\ rxBuffer' \in Collect("head") /\ late' = FALSE /\ errors' = 0
  /\ UNCHANGED <<config, port, radio, sender, watchdog, budget, counts>>

(* A delimiter ends what has been collected, whatever it is; nothing but a *)
(* whole packet decodes.                                                   *)
EndsBug(buffer) == IF buffer = Whole THEN <<>> ELSE buffer
Ends(buffer) == <<>>

TailArrives ==
  /\ air.at = "head" /\ Heard /\ AtRead /\ air' = Quiet
  /\ \E buffer \in Collect("tail") :
       /\ rxBuffer' = Ends(buffer)
       /\ IF buffer = Whole
          THEN processReceivedPacket
          ELSE /\ missed' = IF air.whole THEN missed + 1 ELSE missed
               /\ UNCHANGED <<watchdog, budget, hits>>
  /\ late' = FALSE /\ errors' = 0
  /\ UNCHANGED <<config, port, radio, sender>>

(* More than PACKET_TIMEOUT_MS pass without a byte: an idle read finds out. *)
IdleRead ==
  /\ AtRead /\ rxBuffer # <<>>
  /\ rxBuffer' = <<>> /\ late' = FALSE /\ air' = [air EXCEPT !.whole = FALSE]
  /\ UNCHANGED <<errors, config, port, radio, sender, watchdog, budget, counts>>

ReadError ==
  /\ AtRead /\ Spend("errors")
  /\ IF errors + 1 < MAX_CONSECUTIVE_ERRORS
     THEN errors' = errors + 1 /\ UNCHANGED <<rxBuffer, late, air>>
     ELSE errors' = 0 /\ rxBuffer' = <<>> /\ late' = FALSE /\ air' = [air EXCEPT !.whole = FALSE]
  /\ UNCHANGED <<config, port, radio, sender, watchdog, counts>>

-----------------------------------------------------------------------------
(* The air.                                                                *)

(* Something is heard that nobody sent, with or without a delimiter.       *)
Noise ==
  /\ Heard /\ AtRead /\ Spend("noise") /\ hits' = hits + 1
  /\ rxBuffer' \in Collect("rest") \cup {<<>>} /\ late' = FALSE /\ errors' = 0
  /\ air' = [air EXCEPT !.whole = FALSE]
  /\ UNCHANGED <<config, port, radio, sender, watchdog, missed>>

Passes == [at |-> IF air.at = "none" THEN "head" ELSE "none", whole |-> air.at = "head"]

(* A piece does not arrive, or not as it was sent. *)
Damaged ==
  /\ Heard /\ AtRead /\ Spend("noise") /\ hits' = hits + 1 /\ air' = Passes
  /\ \/ UNCHANGED reception
     \/ rxBuffer' \in Collect("rest") /\ late' = FALSE /\ errors' = 0
  /\ UNCHANGED <<config, port, radio, sender, watchdog, missed>>

(* A piece is sent while the module does not listen, or is flushed.        *)
Unheard ==
  /\ ~Heard /\ air' = Passes
  /\ UNCHANGED <<reception, config, port, radio, sender, watchdog, budget, counts>>

-----------------------------------------------------------------------------
(* A session: sendRFModuleQueryCommandAndGetResponse, which returns what   *)
(* the module says, and sendRFModuleConfigCommand.                         *)

Ask(kind) == session' = [NoSession EXCEPT !.at = "take", !.kind = kind]

(* Both requests ask first whether the module is there.                    *)
RfConfig(doing, n) ==
  /\ mainAt = "config" /\ request = NoRequest /\ Spend("requests")
  /\ Ask("query") /\ request' = [doing |-> doing, left |-> n, checked |-> FALSE]
  /\ UNCHANGED <<reception, air, rfModuleInConfigMode, port, radio, sender, watchdog, counts>>

rfConfigGet == RfConfig("get", Queries)
rfConfigPost == \E n \in 0 .. 1 : RfConfig("post", n)

Take ==
  /\ session.at = "take" /\ port = "free"
  /\ port' = "http" /\ rfModuleInConfigMode' = TRUE
  /\ session' = [session EXCEPT !.at = "enter"] /\ hits' = hits + 1
  /\ UNCHANGED <<reception, air, request, radio, sender, watchdog, budget, missed>>

(* Five seconds are over. *)
TakeFails ==
  /\ session.at = "take" /\ port # "free"
  /\ session' = [session EXCEPT !.at = "over"]
  /\ UNCHANGED <<reception, air, rfModuleInConfigMode, request, port, radio, sender, watchdog, budget, counts>>

Says(kind) == [says |-> kind, own |-> TRUE]
Old(queue) == [i \in DOMAIN queue |-> [queue[i] EXCEPT !.own = FALSE]]

(* Between enterRFConfigMode and exitRFConfigMode the module is deaf.  It  *)
(* prompts, or it is dead.                                                 *)
enterRFConfigMode ==
  /\ session.at = "enter" /\ module' = "config" /\ inbox' = <<>>
  /\ owed' \in {Old(owed), Append(Old(owed), Says("prompt"))}
  /\ session' = [session EXCEPT !.at = "prompt"]
  /\ UNCHANGED <<reception, air, rfModuleInConfigMode, request, port, sender, watchdog, budget, counts>>

(* There is no memory, or the port takes no more. *)
Abandoned == [session EXCEPT !.at = "exit"]

(* readStringUntil: whatever ends in a colon, as much as the buffer holds, *)
(* or nothing for two seconds.  The module may say it later, or never.     *)
TimesOut ==
  /\ inbox = <<>>
  /\ \/ owed' = <<>> /\ UNCHANGED budget
     \/ owed # <<>> /\ Spend("late") /\ UNCHANGED owed

ReadPrompt ==
  /\ session.at = "prompt"
  /\ \/ inbox # <<>> /\ inbox' = Tail(inbox) /\ UNCHANGED <<owed, budget>>
     \/ inbox # <<>> /\ Spend("late") /\ UNCHANGED <<inbox, owed>>
     \/ TimesOut /\ UNCHANGED inbox
  /\ session' \in {[session EXCEPT !.at = "command"], Abandoned}
  /\ UNCHANGED <<reception, air, rfModuleInConfigMode, request, port, module, sender, watchdog, counts>>

(* A query flushes what has come before it, the rest of a prompt that did  *)
(* not fit among it; a setter does not.                                    *)
Command ==
  /\ session.at = "command"
  /\ inbox' = IF session.kind = "query" THEN <<>> ELSE inbox
  /\ \/ /\ session' = [session EXCEPT !.at = "response"]
        /\ \E answer \in {"none", "error", IF session.kind = "query" THEN "value" ELSE "done"} :
             owed' = IF answer = "none" THEN owed ELSE Append(owed, Says(answer))
     \/ session' = Abandoned /\ UNCHANGED owed
  /\ UNCHANGED <<reception, air, rfModuleInConfigMode, request, port, module, sender, watchdog, budget, counts>>

(* A query wants a question mark, a setter an OK; an answer cut short, or  *)
(* for which there is no memory, is none.                                  *)
Wanted == IF session.kind = "query" THEN "value" ELSE "done"
Result(answer) == IF answer.says # Wanted THEN "none" ELSE IF answer.own THEN "own" ELSE "other"

ReadResponse ==
  /\ session.at = "response"
  /\ \/ /\ inbox # <<>> /\ inbox' \in {Tail(inbox), inbox} /\ UNCHANGED <<owed, budget>>
        /\ \E result \in {Result(inbox[1]), "none"} :
             session' = [session EXCEPT !.at = "exit", !.result = result]
     \/ TimesOut /\ session' = Abandoned /\ UNCHANGED inbox
  /\ UNCHANGED <<reception, air, rfModuleInConfigMode, request, port, module, sender, watchdog, counts>>

exitRFConfigMode ==
  /\ session.at = "exit" /\ module' = "radio" /\ inbox' = <<>>
  /\ session' = [session EXCEPT !.at = "release"]
  /\ UNCHANGED <<reception, air, rfModuleInConfigMode, request, port, owed, sender, watchdog, budget, counts>>

(* The reception task finds what it had collected before. *)
Release ==
  /\ session.at = "release" /\ port' = "free" /\ rfModuleInConfigMode' = FALSE
  /\ session' = [session EXCEPT !.at = "over"] /\ late' = (rxBuffer # <<>>)
  /\ UNCHANGED <<rxBuffer, errors, air, request, radio, sender, watchdog, budget, counts>>

(* What the module says is read by the session, or else by the reception   *)
(* task.                                                                   *)
Speaks ==
  /\ owed # <<>> /\ owed' = Tail(owed)
  /\ IF Reading
     THEN /\ AtRead /\ rxBuffer' \in Collect("rest") /\ late' = FALSE /\ errors' = 0
          /\ air' = [air EXCEPT !.whole = FALSE] /\ hits' = hits + 1 /\ UNCHANGED inbox
     ELSE inbox' = Append(inbox, Head(owed)) /\ UNCHANGED <<reception, air, hits>>
  /\ UNCHANGED <<config, port, module, sender, watchdog, budget, missed>>

(* One session is over; the request asks on, unless the module was not     *)
(* there when it began.  What a setter returns is not looked at.           *)
Continue ==
  /\ session.at = "over"
  /\ IF (request.checked \/ session.result # "none") /\ request.left > 0
     THEN /\ Ask(IF request.doing = "get" THEN "query" ELSE "config")
          /\ request' = [request EXCEPT !.checked = TRUE, !.left = @ - 1]
     ELSE session' = NoSession /\ request' = NoRequest
  /\ UNCHANGED <<reception, air, rfModuleInConfigMode, port, radio, sender, watchdog, budget, counts>>

-----------------------------------------------------------------------------
(* sendData, by the MQTT command task: the flag, the mutex, the write.     *)

sendData ==
  /\ sender = "idle" /\ ~rfModuleInConfigMode /\ sender' = "sending"
  /\ UNCHANGED <<reception, air, config, port, radio, watchdog, budget, counts>>

(* Mutant: the flag is enough. *)
SendTakeBug ==
  /\ sender = "sending" /\ sender' = "writing"
  /\ UNCHANGED <<reception, air, config, port, radio, watchdog, budget, counts>>

SendTake ==
  /\ sender = "sending" /\ port = "free" /\ port' = "mqtt" /\ sender' = "writing"
  /\ UNCHANGED <<reception, air, config, radio, watchdog, budget, counts>>

Written ==
  /\ sender = "writing" /\ port' = "free" /\ sender' = "idle"
  /\ UNCHANGED <<reception, air, config, radio, watchdog, budget, counts>>

-----------------------------------------------------------------------------
(* The watchdog: a timer that starts over by itself, a task that waits for *)
(* it, and the main loop, which plays a tune before it shows the failure.  *)

(* Mutant: the callback of the timer signals nobody. *)
TickBug ==
  /\ mainAt # "config"
  /\ timer' = IF timer = 1 THEN T ELSE timer - 1
  /\ quiet' = IF quiet < T THEN quiet + 1 ELSE T
  /\ UNCHANGED <<reception, air, config, port, radio, sender, accepted, timeoutBit, eventBit, mainAt, led, budget, counts>>
Tick ==
  /\ mainAt # "config"
  /\ timer' = IF timer = 1 THEN T ELSE timer - 1
  /\ timeoutBit' = (timeoutBit \/ timer = 1)
  /\ quiet' = IF quiet < T THEN quiet + 1 ELSE T
  /\ UNCHANGED <<reception, air, config, port, radio, sender, accepted, eventBit, mainAt, led, budget, counts>>

uartTimeoutTask ==
  /\ timeoutBit /\ timeoutBit' = FALSE /\ eventBit' = TRUE
  /\ UNCHANGED <<reception, air, config, port, radio, sender, timer, accepted, mainAt, led, quiet, budget, counts>>

TimeoutEvent ==
  /\ mainAt = "loop" /\ eventBit /\ eventBit' = FALSE /\ mainAt' = "tune"
  /\ UNCHANGED <<reception, air, config, port, radio, sender, timer, accepted, timeoutBit, led, quiet, budget, counts>>

ShowTimeout ==
  /\ mainAt = "tune" /\ led' = "TIMEOUT" /\ mainAt' = "loop"
  /\ UNCHANGED <<reception, air, config, port, radio, sender, timer, accepted, timeoutBit, eventBit, quiet, budget, counts>>

(* The main loop stops for good and the requests of the client begin; the  *)
(* watchdog, which nobody looks at until the restart, is left out.         *)
EnterConfigMode ==
  /\ mainAt = "loop" /\ mainAt' = "config" /\ led' = "OFF"
  /\ timer' = T /\ timeoutBit' = FALSE /\ eventBit' = FALSE /\ quiet' = 0
  /\ UNCHANGED <<reception, air, config, port, radio, sender, accepted, budget, counts>>

-----------------------------------------------------------------------------
Session ==
  \/ Take \/ TakeFails \/ enterRFConfigMode \/ ReadPrompt \/ Command
  \/ ReadResponse \/ exitRFConfigMode \/ Release \/ Continue

Next ==
  \/ HeadArrives \/ TailArrives \/ StartWatchdog \/ IdleRead \/ ReadError
  \/ Noise \/ Damaged \/ Unheard
  \/ rfConfigGet \/ rfConfigPost \/ Session \/ Speaks
  \/ sendData \/ SendTake \/ Written
  \/ Tick \/ uartTimeoutTask \/ TimeoutEvent \/ ShowTimeout \/ EnterConfigMode

Spec == Init /\ [][Next]_vars

(* The tasks run; the module, the sensor and the client need not.          *)
Fairness ==
  /\ WF_vars(Session) /\ WF_vars(SendTake) /\ WF_vars(Written)
  /\ WF_vars(Tick) /\ WF_vars(uartTimeoutTask)
  /\ WF_vars(TimeoutEvent) /\ WF_vars(ShowTimeout)

FairSpec == Spec /\ Fairness

-----------------------------------------------------------------------------
Piece == {"head", "tail", "rest"}
Answers == [says : {"prompt", "value", "done", "error"}, own : BOOLEAN]

TypeOK ==
  /\ rxBuffer \in Seq(Piece) /\ Len(rxBuffer) <= MAX_ENCODED_SIZE
  /\ late \in BOOLEAN /\ errors \in 0 .. MAX_CONSECUTIVE_ERRORS - 1
  /\ air \in [at : {"none", "head"}, whole : BOOLEAN]
  /\ rfModuleInConfigMode \in BOOLEAN /\ port \in {"free", "http", "mqtt"}
  /\ module \in {"radio", "config"}
  /\ owed \in Seq(Answers) /\ inbox \in Seq(Answers)
  /\ session.result \in {"none", "own", "other"}
  /\ sender \in {"idle", "sending", "writing"}
  /\ timer \in 1 .. T /\ accepted \in BOOLEAN /\ quiet \in 0 .. T
  /\ timeoutBit \in BOOLEAN /\ eventBit \in BOOLEAN
  /\ mainAt \in {"loop", "tune", "config"} /\ led \in {"OK", "TIMEOUT", "OFF"}

(* No packet is written to the module while it is being configured, though *)
(* sendData reads the flag before it waits for the mutex, and whatever     *)
(* fails on the way through a session leaves neither the module in its     *)
(* configuration mode nor the port taken.                                  *)
QuietInConfig ==
  /\ sender = "writing" => module = "radio" /\ ~rfModuleInConfigMode
  /\ session.at \in {"none", "take", "over"} =>
       module = "radio" /\ ~rfModuleInConfigMode /\ port # "http"

(* A burst of noise, a damaged piece, a session or a word of the module    *)
(* costs at most one packet that arrives whole: the reception task finds   *)
(* the beginning of the next one after every delimiter.                    *)
LossBounded == missed <= hits

(* A session does not take the answer of another for its own, as long as   *)
(* one answer at the most outlives the reader it was meant for.            *)
OwnAnswer == session.result # "other"

(* The watchdog speaks only when there has been no reading for             *)
(* UART_DATA_RECEPTION_TIMEOUT_SEC, though it is another task that takes   *)
(* the readings and starts the timer anew; or between the listener's yes   *)
(* and that start, where it may still run out under a reading just taken.  *)
AlarmAfterSilence == [][timeoutBit' /\ ~timeoutBit => quiet' = T \/ accepted]_vars

(* A sensor that has died is shown in the end, though a packet may arrive  *)
(* between the alarm and its display.                                      *)
DeadSensorShown == <>[](quiet = T /\ mainAt # "config") => <>[](led = "TIMEOUT")

(* The module does not stay in its configuration mode, dead or alive.      *)
SessionEnds == []<>~rfModuleInConfigMode

(* The types, and what is read is what was meant: packets are not lost for *)
(* longer than noise lasts, nor answers mistaken (LossBounded, OwnAnswer). *)
ReceptionInv == TypeOK /\ LossBounded /\ OwnAnswer

(* What must happen does: a dead sensor is shown, a session ends.          *)
ReceiverProgress == DeadSensorShown /\ SessionEnds
=============================================================================
