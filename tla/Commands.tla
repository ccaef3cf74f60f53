-------------------------------- MODULE Commands --------------------------------
(***************************************************************************)
(* MQTT messages on the Control Unit (MqttCommandProcessor.cc): the client *)
(* task queues what arrives, the processor task tests the update gate and  *)
(* the rate limits (RateLimit), calls the listener of main.cc and queues   *)
(* the answer, and the publisher task hands it to the client.              *)
(*                                                                         *)
(* The update gate is isOTAUpdateRunning(); that it opens again is what    *)
(* Ota promises (GateReopens).  A message identity is used again when the  *)
(* message has left the system.                                            *)
(***************************************************************************)
EXTENDS RateLimit, Sequences, SequencesExt

CONSTANTS
  Message,
  CMD_QUEUE_DEPTH, RESP_QUEUE_DEPTH,   \* (4, 4)
  MaxTime                              \* bound: instants

ASSUME QueueAssumption == CMD_QUEUE_DEPTH \in Nat /\ RESP_QUEUE_DEPTH \in Nat

VARIABLES
  cmdQueue, respQueue,
  processor,             \* the message in the processor task, and its step
  publisher,             \* the response in the publisher task, and its step
  live,                  \* messages whose response string is on the heap
  connected,             \* MQTT5Manager::connectedToBroker
  gate,                  \* otaManager.isOTAUpdateRunning()
  slipped                \* observer: messages executed since the gate closed

queues == <<cmdQueue, respQueue>>
tasks == <<processor, publisher>>
outside == <<connected, gate>>
vars == <<limitVars, queues, tasks, live, outside, slipped>>

Kind == {"scan", "request", "command"}
Item == [id : Message, kind : Kind]
Idle == [step |-> "idle"]
Busy(step, m) == [step |-> step, message |-> m]
At(task) == IF task = Idle THEN {} ELSE {task.message}

(* A queued scan or response stands for itself: the topic, the payload and *)
(* the device it is copied from are those of the message.                  *)
Present == ToSet(cmdQueue) \cup ToSet(respQueue) \cup At(processor) \cup At(publisher)

Init ==
  /\ LimitInit
  /\ cmdQueue = <<>> /\ respQueue = <<>> /\ processor = Idle /\ publisher = Idle
  /\ live = {} /\ connected = FALSE /\ gate = FALSE /\ slipped = 0

-----------------------------------------------------------------------------
(* Outside: the clock, the broker, the update.                             *)

Elsewhere == UNCHANGED <<queues, tasks, live>>

Time ==
  /\ (now < MaxTime /\ Tick) \/ OpenWindow
  /\ Elsewhere /\ UNCHANGED <<outside, slipped>>

BrokerChanges ==
  connected' = ~connected /\ Elsewhere /\ UNCHANGED <<limitVars, gate, slipped>>

UpdateStarts ==
  /\ ~gate /\ gate' = TRUE /\ slipped' = 0
  /\ Elsewhere /\ UNCHANGED <<limitVars, connected>>

UpdateEnds ==
  gate /\ gate' = FALSE /\ Elsewhere /\ UNCHANGED <<limitVars, connected, slipped>>

(* MQTT_EVENT_DATA: a message that finds the queue full is lost.           *)
queueIncomingCommand ==
  /\ connected /\ Len(cmdQueue) < CMD_QUEUE_DEPTH
  /\ \E m \in Item :
       /\ m.id \notin {p.id : p \in Present} /\ cmdQueue' = Append(cmdQueue, m)
  /\ UNCHANGED <<limitVars, respQueue, tasks, live, outside, slipped>>

-----------------------------------------------------------------------------
(* commandProcessorTask.                                                   *)

Rejected == gate

Receive ==
  /\ processor = Idle /\ cmdQueue # <<>> /\ cmdQueue' = Tail(cmdQueue)
  /\ processor' = IF Rejected THEN Idle ELSE Busy("limit", Head(cmdQueue))
  /\ UNCHANGED <<limitVars, respQueue, publisher, live, outside, slipped>>

Within(m) == IF m.kind = "command" THEN CommandAllowed ELSE RequestAllowed

Limit ==
  /\ processor.step = "limit"
  /\ LET m == processor.message IN
       /\ IF m.kind = "command" THEN checkCommandRateLimit ELSE checkRequestRateLimit
       /\ processor' = IF Within(m) THEN Busy("call", m) ELSE Idle
  /\ UNCHANGED <<queues, publisher, live, outside, slipped>>

(* A message that does not parse, or is of no known type, is dropped. *)
Malformed ==
  /\ processor.step = "call" /\ processor' = Idle
  /\ UNCHANGED <<limitVars, queues, publisher, live, outside, slipped>>

(* The listener answers a request with a string; a command's verdict is    *)
(* put into one.                                                           *)
Call ==
  /\ processor.step = "call"
  /\ processor' = Busy("answer", processor.message)
  /\ live' = live \cup {processor.message.id}
  /\ slipped' = IF gate THEN slipped + 1 ELSE slipped
  /\ UNCHANGED <<limitVars, queues, publisher, outside>>

(* queueOutgoingResponse, which waits 100 ms for a place: a scan's string  *)
(* goes along with the response, any other is copied and freed.            *)
Dynamic(m) == m.kind = "scan"
Free(m) == live' = live \ {m.id}

AnswerQueued ==
  /\ processor.step = "answer" /\ processor' = Idle
  /\ Len(respQueue) < RESP_QUEUE_DEPTH
  /\ respQueue' = Append(respQueue, processor.message)
  /\ IF Dynamic(processor.message) THEN UNCHANGED live ELSE Free(processor.message)
  /\ UNCHANGED <<limitVars, cmdQueue, publisher, outside, slipped>>

(* Mutant: the string of a scan is taken to be the publisher's. *)
AnswerLostBug ==
  /\ processor.step = "answer" /\ processor' = Idle
  /\ Len(respQueue) = RESP_QUEUE_DEPTH
  /\ IF Dynamic(processor.message) THEN UNCHANGED live ELSE Free(processor.message)
  /\ UNCHANGED <<limitVars, queues, publisher, outside, slipped>>

AnswerLost ==
  /\ processor.step = "answer" /\ processor' = Idle
  /\ Len(respQueue) = RESP_QUEUE_DEPTH /\ Free(processor.message)
  /\ UNCHANGED <<limitVars, queues, publisher, outside, slipped>>

-----------------------------------------------------------------------------
(* publisherTask.                                                          *)

FreeDynamic(m) == IF Dynamic(m) THEN Free(m) ELSE UNCHANGED live

(* Mutant: a response is kept back until the broker is there. *)
TakeResponseBug ==
  /\ publisher = Idle /\ respQueue # <<>> /\ connected /\ respQueue' = Tail(respQueue)
  /\ publisher' = Busy("publish", Head(respQueue))
  /\ UNCHANGED <<limitVars, cmdQueue, processor, live, outside, slipped>>

(* Without a connection the response is dropped. *)
TakeResponse ==
  /\ publisher = Idle /\ respQueue # <<>> /\ respQueue' = Tail(respQueue)
  /\ \/ connected /\ publisher' = Busy("publish", Head(respQueue)) /\ UNCHANGED live
     \/ ~connected /\ FreeDynamic(Head(respQueue)) /\ UNCHANGED publisher
  /\ UNCHANGED <<limitVars, cmdQueue, processor, outside, slipped>>

(* Published, refused because the connection has gone meanwhile, or out of *)
(* memory for the copy.                                                    *)
Publish ==
  /\ publisher # Idle /\ publisher' = Idle /\ FreeDynamic(publisher.message)
  /\ UNCHANGED <<limitVars, queues, processor, outside, slipped>>

-----------------------------------------------------------------------------
commandProcessorTask == Receive \/ Limit \/ Malformed \/ Call \/ AnswerQueued \/ AnswerLost
publisherTask == TakeResponse \/ Publish

Next ==
  \/ Time \/ BrokerChanges \/ UpdateStarts \/ UpdateEnds \/ queueIncomingCommand
  \/ commandProcessorTask \/ publisherTask

Spec == Init /\ [][Next]_vars

(* Both tasks run when they have something to do.                          *)
FairSpec == Spec /\ WF_vars(commandProcessorTask) /\ WF_vars(publisherTask)

-----------------------------------------------------------------------------
TypeOK ==
  /\ LimitTypeOK
  /\ cmdQueue \in Seq(Item) /\ Len(cmdQueue) <= CMD_QUEUE_DEPTH
  /\ respQueue \in Seq(Item) /\ Len(respQueue) <= RESP_QUEUE_DEPTH
  /\ processor = Idle \/ processor \in [step : {"limit", "call", "answer"}, message : Item]
  /\ publisher = Idle \/ publisher \in [step : {"publish"}, message : Item]
  /\ live \subseteq Message
  /\ connected \in BOOLEAN /\ gate \in BOOLEAN /\ slipped \in Nat

(* A response string is on the heap exactly as long as somebody still owes *)
(* its release: the processor while it handles it, the queue and then the  *)
(* publisher for a scan, whatever is dropped, lost or out of memory.       *)
Owned == {m \in ToSet(respQueue) \cup At(publisher) : Dynamic(m)}
           \cup (IF processor.step = "answer" THEN At(processor) ELSE {})
HeapOwned == live = {m.id : m \in Owned}

(* While an update is running at most one message is executed: the one     *)
(* that had passed the test of the gate when the gate closed.              *)
OneSlips == slipped <= 1

(* Every message leaves the system, answered, dropped or lost, also while  *)
(* the broker is away and while an update is running.                      *)
Settled == \A m \in Item : m \in Present ~> m \notin Present

(* The types, the ownership of response strings, and the gate (HeapOwned,  *)
(* OneSlips).                                                              *)
CommandsInv == TypeOK /\ HeapOwned /\ OneSlips
=============================================================================
