-------------------------------- MODULE Station --------------------------------
(***************************************************************************)
(* The station of WiFiManager.cpp in normal operation: its event handlers, *)
(* the event group connectToAccessPointSync waits on, and the driver       *)
(* underneath, which is external.  The test of credentials, which only     *)
(* configuration mode makes, is left out with its isTestingCredentials.    *)
(*                                                                         *)
(* An access point is "on", "off" or "refusing" (it answers, but rejects   *)
(* the password).  The driver posts its events to one queue, which the     *)
(* event-loop task empties in order.                                       *)
(***************************************************************************)
EXTENDS Naturals, Sequences

CONSTANTS
  SSID,
  Waiter,      \* tasks that wait on the event group
  MaxEvents,   \* bound: events the driver posts ahead of the event loop
  MaxFaults    \* bound: changes of the air, lost leases, closed sessions

VARIABLES
  air, faults,                \* the access points; the faults so far
  link, target, ip,           \* driver: association, its SSID, an address held
  queue,                      \* the default event loop
  connectedToAp, disconnectionReason, lastConnectedSSID,
  aborted,                    \* an ESP_ERROR_CHECK has failed
  bits,                       \* wifiEventGroupHandle
  waiter,                     \* what each task waits for, or was given
  reconnectTimer,
  isConfigModeActive

driver == <<air, faults, link, target, ip>>
station == <<connectedToAp, disconnectionReason, lastConnectedSSID, aborted>>
group == <<bits, waiter>>
stationVars == <<driver, queue, station, group, reconnectTimer, isConfigModeActive>>

NoSSID == "none"
Reason == {"authFail", "other"}
Bit == {"connected", "failed", "disconnected"}
Event == [type : {"connected", "gotIp", "lostIp", "started"}]
           \cup [type : {"disconnected"}, reason : Reason]
Posted(type) == [type |-> type]
Disconnected(reason) == [type |-> "disconnected", reason |-> reason]

StationInit ==
  /\ air = [s \in SSID |-> "on"] /\ faults = 0
  /\ link = "down" /\ target = NoSSID /\ ip = FALSE
  /\ connectedToAp = FALSE /\ disconnectionReason = "other"
  /\ lastConnectedSSID = NoSSID /\ aborted = FALSE /\ bits = {} /\ waiter = [w \in Waiter |-> "idle"]
  /\ reconnectTimer = FALSE

-----------------------------------------------------------------------------
(* The driver and the air.                                                 *)

Post(event) == Len(queue) < MaxEvents /\ queue' = Append(queue, event)

Fault == faults < MaxFaults /\ faults' = faults + 1

AirChanges(s) ==
  /\ Fault
  /\ air' \in {[air EXCEPT ![s] = v] : v \in {"on", "off", "refusing"} \ {air[s]}}
  /\ UNCHANGED <<link, target, ip, queue, station, group, reconnectTimer, isConfigModeActive>>

(* The outcome of an attempt, and the loss of an association. *)
Associates ==
  /\ link = "joining" /\ air[target] = "on"
  /\ link' = "joined" /\ Post(Posted("connected"))
  /\ UNCHANGED <<air, faults, target, ip, station, group, reconnectTimer, isConfigModeActive>>

LosesLink ==
  /\ link # "down" /\ air[target] # "on"
  /\ link' = "down" /\ target' = NoSSID
  /\ Post(Disconnected(IF air[target] = "refusing" THEN "authFail" ELSE "other"))
  /\ UNCHANGED <<air, faults, ip, station, group, reconnectTimer, isConfigModeActive>>

Leases ==
  /\ link = "joined" /\ link' = "up" /\ ip' = TRUE /\ Post(Posted("gotIp"))
  /\ UNCHANGED <<air, faults, target, station, group, reconnectTimer, isConfigModeActive>>

LosesLease ==
  /\ link = "up" /\ link' = "joined" /\ Fault
  /\ UNCHANGED <<air, target, ip, queue, station, group, reconnectTimer, isConfigModeActive>>

(* An address without a lease is given up after two minutes. *)
LosesAddress ==
  /\ ip /\ link # "up" /\ ip' = FALSE /\ Post(Posted("lostIp"))
  /\ UNCHANGED <<air, faults, link, target, station, group, reconnectTimer, isConfigModeActive>>

-----------------------------------------------------------------------------
(* The event group: a bit that tasks wait for wakes all of them and is     *)
(* cleared; a bit nobody waits for stays.                                  *)

Awaited(state) == IF state = "connecting" THEN {"connected", "failed"} ELSE {}

Given(b) == IF "failed" \in b THEN "failed" ELSE "ok"

SetBit(b, before) ==
  LET woken == {w \in Waiter : b \in Awaited(waiter[w])} IN
  /\ waiter' = [w \in Waiter |-> IF w \in woken THEN Given({b}) ELSE waiter[w]]
  /\ bits' = IF woken = {} THEN before \cup {b} ELSE before

WaitBits(w, state) ==
  LET there == bits \cap Awaited(state) IN
  /\ waiter' = [waiter EXCEPT ![w] = IF there = {} THEN state ELSE Given(there)]
  /\ bits' = bits \ there

-----------------------------------------------------------------------------
(* Operations.                                                             *)

StopReconnectTimer == reconnectTimer' = FALSE

(* Mutant: a disconnection does not start the timer. *)
StartReconnectTimerBug == UNCHANGED reconnectTimer
StartReconnectTimer == reconnectTimer' = (reconnectTimer \/ ~isConfigModeActive)

(* connect_to_ap: the driver takes a request only when it is not busy; it  *)
(* may refuse a new configuration while it joins, and that aborts.         *)
Accepted == link = "down"

ConnectToAp(s) ==
  /\ lastConnectedSSID' = s
  /\ IF Accepted THEN link' = "joining" /\ target' = s ELSE UNCHANGED <<link, target>>
  /\ aborted' \in {FALSE, link = "joining"}
  /\ UNCHANGED <<air, faults, ip, queue, connectedToAp, disconnectionReason, reconnectTimer>>

ConnectToAccessPoint(s) == ConnectToAp(s) /\ UNCHANGED group

ConnectToAccessPointSync(w, s) ==
  /\ ConnectToAp(s)
  /\ IF Accepted THEN WaitBits(w, "connecting")
     ELSE waiter' = [waiter EXCEPT ![w] = "failed"] /\ UNCHANGED bits

-----------------------------------------------------------------------------
(* The event handlers, without the listeners they call.                    *)

Dispatch(type) == queue # <<>> /\ Head(queue).type = type /\ queue' = Tail(queue)

StaConnected ==
  /\ Dispatch("connected") /\ StopReconnectTimer
  /\ UNCHANGED <<driver, station, group, isConfigModeActive>>

(* Mutant: the connection is forgotten only when somebody is told. *)
StaDisconnectedBug ==
  /\ Dispatch("disconnected")
  /\ disconnectionReason' = Head(queue).reason
  /\ SetBit(IF connectedToAp THEN "disconnected" ELSE "failed", bits \ {"connected"})
  /\ StartReconnectTimer
  /\ UNCHANGED <<driver, connectedToAp, lastConnectedSSID, aborted, isConfigModeActive>>

StaDisconnected ==
  /\ Dispatch("disconnected")
  /\ disconnectionReason' = Head(queue).reason /\ connectedToAp' = FALSE
  /\ SetBit(IF connectedToAp THEN "disconnected" ELSE "failed", bits \ {"connected"})
  /\ StartReconnectTimer
  /\ UNCHANGED <<driver, lastConnectedSSID, aborted, isConfigModeActive>>

TellsDisconnected == connectedToAp /\ ~isConfigModeActive

GotIp ==
  /\ Dispatch("gotIp") /\ connectedToAp' = TRUE
  /\ SetBit("connected", bits \ {"disconnected"})
  /\ UNCHANGED <<driver, disconnectionReason, lastConnectedSSID, aborted, reconnectTimer,
                 isConfigModeActive>>

TellsConnected == ~isConfigModeActive

LostIp ==
  /\ Dispatch("lostIp") /\ connectedToAp' = FALSE
  /\ SetBit("disconnected", bits \ {"connected"})
  /\ UNCHANGED <<driver, disconnectionReason, lastConnectedSSID, aborted, reconnectTimer,
                 isConfigModeActive>>

TellsLostIp == ~isConfigModeActive

StationTypeOK ==
  /\ air \in [SSID -> {"on", "off", "refusing"}]
  /\ faults \in 0 .. MaxFaults
  /\ link \in {"down", "joining", "joined", "up"} /\ target \in SSID \cup {NoSSID}
  /\ ip \in BOOLEAN /\ queue \in Seq(Event) /\ Len(queue) <= MaxEvents
  /\ connectedToAp \in BOOLEAN /\ disconnectionReason \in Reason
  /\ lastConnectedSSID \in SSID \cup {NoSSID} /\ aborted \in BOOLEAN /\ bits \subseteq Bit
  /\ waiter \in [Waiter -> {"idle", "connecting", "ok", "failed"}]
  /\ reconnectTimer \in BOOLEAN /\ isConfigModeActive \in BOOLEAN
=============================================================================
