-------------------------------- MODULE Network --------------------------------
(***************************************************************************)
(* The network side of the Control Unit: WiFiManager.cpp with its timer    *)
(* and its reconnection task, MQTTManager.cc, and the listeners in main.cc *)
(* that tie them together, from boot to configuration mode.                *)
(*                                                                         *)
(* The listeners run in the event-loop task: while connect() waits for the *)
(* broker, no further Wi-Fi event is handled.  A client created by         *)
(* esp_mqtt_client_init lives, and reconnects, until it is destroyed.      *)
(***************************************************************************)
EXTENDS Station, FiniteSets

CONSTANTS
  Saved,    \* the sets of credentials a device may boot with
  Client    \* bound: clients that can be alive at once

None == "none"

ASSUME NetworkAssumption ==
  /\ Waiter = {"main", "task"} /\ Saved \subseteq SUBSET SSID /\ None \notin Client
  /\ MaxEvents \in Nat /\ MaxFaults \in Nat

VARIABLES
  creds,                     \* SSIDs saved in NVS
  reconnectBit, task,        \* WIFI_RECONNECT_BIT; wifiReconnectionTask
  main,                      \* app_main, then its loop
  enterBit,                  \* ENTER_CONFIG_MODE_BIT
  registered,                \* the Wi-Fi event handlers are registered
  loop,                      \* the event-loop task: what its listener does
  handle, clients,           \* mqtt5ClientHandle; the state of each live client
  mqttGroup, mqttConnected,  \* mqttEventGroupHandle; MQTT_BROKER_CONNECTED_BIT
  connectedToBroker,
  otaTimer                   \* OTAManager::timerHandle

(* Observers: an address was renewed without a disconnection; a handler    *)
(* used an event group that does not exist; connect() began too late.      *)
VARIABLES renewed, crashed, late

mqtt == <<handle, clients, mqttGroup, mqttConnected, connectedToBroker>>
application == <<main, enterBit, registered>>
observers == <<renewed, crashed, late>>
reconnection == <<reconnectBit, task>>
netVars == <<creds, reconnection, application, loop, mqtt, otaTimer, observers>>
networkVars == <<stationVars, netVars>>

NetworkInit ==
  /\ StationInit /\ isConfigModeActive = FALSE /\ queue = <<>>
  /\ creds \in Saved
  /\ reconnectBit = FALSE /\ task = "wait"
  /\ main = "boot" /\ enterBit = FALSE /\ registered = TRUE
  /\ loop = "idle" /\ handle = None /\ clients = [c \in {} |-> "up"]
  /\ mqttGroup = TRUE /\ mqttConnected = FALSE /\ connectedToBroker = FALSE
  /\ otaTimer = FALSE
  /\ renewed = FALSE /\ crashed = FALSE /\ late = FALSE

-----------------------------------------------------------------------------
(* The environment.                                                        *)

Environment ==
  /\ \/ \E s \in SSID : AirChanges(s)
     \/ Associates \/ LosesLink \/ Leases \/ LosesLease \/ LosesAddress
  /\ UNCHANGED netVars

-----------------------------------------------------------------------------
(* Boot, and the reconnection task.                                        *)

Visible == {s \in creds : air[s] # "off"}

(* One saved network is tried without waiting; of several the best one the *)
(* scan shows, and its outcome is awaited.                                 *)
TryToConnect(w) ==
  \/ /\ Cardinality(creds) = 1 /\ \E s \in creds : ConnectToAccessPoint(s)
  \/ /\ Cardinality(creds) > 1 /\ \E s \in Visible : ConnectToAccessPointSync(w, s)
  \/ /\ Cardinality(creds) # 1 /\ Visible = {}
     /\ UNCHANGED <<driver, queue, station, group, reconnectTimer>>

Boot ==
  /\ main = "boot" /\ main' = "booted" /\ TryToConnect("main")
  /\ UNCHANGED <<isConfigModeActive, creds, reconnection, enterBit, registered, loop, mqtt, otaTimer, observers>>

WaitOver(w) == waiter[w] # "connecting"

BootDone ==
  /\ main = "booted" /\ WaitOver("main") /\ main' = "loop"
  /\ waiter' = [waiter EXCEPT !["main"] = "idle"]
  /\ UNCHANGED <<driver, queue, station, bits, reconnectTimer, isConfigModeActive, creds, reconnection,
                 enterBit, registered, loop, mqtt, otaTimer, observers>>

ReconnectTimerCallback ==
  /\ reconnectTimer /\ ~connectedToAp /\ ~isConfigModeActive
  /\ reconnectBit' = TRUE
  /\ UNCHANGED <<stationVars, creds, task, application, loop, mqtt, otaTimer, observers>>

TaskWakes ==
  /\ task = "wait" /\ reconnectBit
  /\ reconnectBit' = FALSE /\ task' = "trying" /\ TryToConnect("task")
  /\ UNCHANGED <<isConfigModeActive, creds, application, loop, mqtt, otaTimer, observers>>

(* In configuration mode it sleeps instead of waiting for the bit. *)
TaskDone ==
  /\ task = "trying" /\ WaitOver("task") /\ ~isConfigModeActive
  /\ task' = "wait" /\ waiter' = [waiter EXCEPT !["task"] = "idle"]
  /\ UNCHANGED <<driver, queue, station, bits, reconnectTimer, isConfigModeActive, creds, reconnectBit,
                 application, loop, mqtt, otaTimer, observers>>

-----------------------------------------------------------------------------
(* MQTT5Manager.                                                           *)

(* Mutant: only a client that is connected is taken down. *)
DisconnectBug ==
  IF ~connectedToBroker THEN UNCHANGED mqtt
  ELSE /\ clients' = [c \in DOMAIN clients \ {handle} |-> clients[c]]
       /\ mqttGroup' = FALSE /\ mqttConnected' = FALSE
       /\ handle' = None /\ connectedToBroker' = FALSE

(* Mutant: the client goes and the event group stays. *)
DisconnectGroupBug ==
  IF handle = None THEN UNCHANGED mqtt
  ELSE /\ clients' = [c \in DOMAIN clients \ {handle} |-> clients[c]]
       /\ handle' = None /\ connectedToBroker' = FALSE
       /\ UNCHANGED <<mqttGroup, mqttConnected>>

(* disconnect(): the event group goes with the client.                     *)
Disconnect ==
  IF handle = None THEN UNCHANGED mqtt
  ELSE /\ clients' = [c \in DOMAIN clients \ {handle} |-> clients[c]]
       /\ mqttGroup' = FALSE /\ mqttConnected' = FALSE
       /\ handle' = None /\ connectedToBroker' = FALSE

(* connect() up to its wait: a new client, whatever became of the old one. *)
CreateClient(state) ==
  /\ loop' = "waiting" /\ mqttGroup' = TRUE
  /\ LET c == CHOOSE d \in Client : d \notin DOMAIN clients IN
       /\ Client # DOMAIN clients
       /\ handle' = c
       /\ clients' = [d \in DOMAIN clients \cup {c} |-> IF d = c THEN state ELSE clients[d]]

(* No event group, or no client: connect() returns, and the listener,      *)
(* which does not look at the result, goes on.                             *)
NoClient ==
  /\ loop' = "finish" /\ UNCHANGED clients
  /\ \/ ~mqttGroup /\ UNCHANGED <<handle, mqttGroup>>
     \/ handle' = None /\ mqttGroup' = TRUE

(* That a client could not be started goes unnoticed. *)
MqttConnect ==
  /\ loop = "connect"
  /\ \/ CreateClient("connecting") /\ UNCHANGED faults
     \/ (CreateClient("unstarted") \/ NoClient) /\ Fault
  /\ late' = (late \/ isConfigModeActive)
  /\ UNCHANGED <<air, link, target, ip, queue, station, group, reconnectTimer, isConfigModeActive,
                 creds, reconnection, application, mqttConnected, connectedToBroker, otaTimer,
                 renewed, crashed>>

(* The wait ends with the bit, or when the group is deleted under it; the  *)
(* listener goes on to start the periodic update check.                    *)
MqttConnectReturns ==
  /\ loop = "waiting" /\ (mqttConnected \/ ~mqttGroup)
  /\ mqttConnected' = FALSE /\ loop' = "finish"
  /\ UNCHANGED <<stationVars, creds, reconnection, application, handle, clients, mqttGroup,
                 connectedToBroker, otaTimer, observers>>

StartPeriodicUpdatesCheck ==
  /\ loop = "finish" /\ loop' = "idle" /\ otaTimer' = TRUE
  /\ UNCHANGED <<stationVars, creds, reconnection, application, mqtt, observers>>

(* mqtt5_event_handler, for whichever client: a missing group is an        *)
(* assertion of the kernel.                                                *)
ClientConnected(c) ==
  /\ clients[c] = "connecting" /\ link = "up"
  /\ clients' = [clients EXCEPT ![c] = "connected"]
  /\ connectedToBroker' = TRUE /\ mqttConnected' = mqttGroup
  /\ crashed' = (crashed \/ ~mqttGroup)
  /\ UNCHANGED <<stationVars, creds, reconnection, application, loop, handle, mqttGroup,
                 otaTimer, renewed, late>>

ClientDisconnected(c) ==
  /\ clients[c] = "connected"
  /\ IF link = "up" THEN Fault ELSE UNCHANGED faults
  /\ clients' = [clients EXCEPT ![c] = "connecting"]
  /\ connectedToBroker' = FALSE /\ crashed' = (crashed \/ ~mqttGroup)
  /\ UNCHANGED <<air, link, target, ip, queue, station, group, reconnectTimer, isConfigModeActive, creds,
                 reconnection, application, loop, handle, mqttGroup, mqttConnected, otaTimer, renewed, late>>

-----------------------------------------------------------------------------
(* The event loop, with the listeners of main.cc.                          *)

Ready == registered /\ loop = "idle"

HandleConnected == Ready /\ StaConnected /\ UNCHANGED netVars

Forgets(reason) ==
  creds' = IF reason = "authFail" THEN creds \ {lastConnectedSSID} ELSE creds

Listener(reason) == Forgets(reason) /\ Disconnect /\ otaTimer' = FALSE
NoListener == UNCHANGED <<creds, mqtt, otaTimer>>

HandleDisconnected ==
  /\ Ready /\ StaDisconnected
  /\ IF TellsDisconnected THEN Listener(Head(queue).reason) ELSE NoListener
  /\ UNCHANGED <<reconnection, application, loop, observers>>

(* The listener's own test of the mode comes first, connect() after it.    *)
HandleGotIp ==
  /\ Ready /\ GotIp
  /\ loop' = IF ~TellsConnected THEN "idle" ELSE IF connectedToBroker THEN "finish" ELSE "connect"
  /\ renewed' = (renewed \/ connectedToAp)
  /\ UNCHANGED <<creds, reconnection, application, mqtt, otaTimer, crashed, late>>

(* The reason is the one of the last failure, of whatever network.         *)
HandleLostIp ==
  /\ Ready /\ LostIp
  /\ IF TellsLostIp THEN Listener(disconnectionReason) ELSE NoListener
  /\ UNCHANGED <<reconnection, application, loop, observers>>

HandleStarted ==
  /\ Ready /\ main = "starting" /\ Dispatch("started") /\ main' = "config"
  /\ UNCHANGED <<driver, station, group, reconnectTimer, isConfigModeActive, creds, reconnection, enterBit,
                 registered, loop, mqtt, otaTimer, observers>>

(* Nobody is registered: the event is dropped. *)
DropEvent ==
  /\ ~registered /\ loop = "idle" /\ queue # <<>> /\ queue' = Tail(queue)
  /\ UNCHANGED <<driver, station, group, reconnectTimer, isConfigModeActive, netVars>>

-----------------------------------------------------------------------------
(* Into configuration mode: the button, then the main loop.                *)

ConfigButtonLongPressed ==
  /\ ~isConfigModeActive /\ isConfigModeActive' = TRUE /\ enterBit' = TRUE
  /\ UNCHANGED <<driver, queue, station, group, reconnectTimer, creds,
                 reconnection, main, registered, loop, mqtt, otaTimer, observers>>

EnterConfigMode ==
  /\ main = "loop" /\ enterBit /\ enterBit' = FALSE /\ main' = "stopOta" /\ Disconnect
  /\ UNCHANGED <<stationVars, creds, reconnection, registered, loop, otaTimer, observers>>

EnterStopsOta ==
  /\ main = "stopOta" /\ main' = "stopWiFi" /\ otaTimer' = FALSE
  /\ UNCHANGED <<stationVars, creds, reconnection, enterBit, registered, loop, mqtt, observers>>

StopWiFi ==
  /\ main = "stopWiFi" /\ main' = "start"
  /\ StopReconnectTimer /\ link' = "down" /\ target' = NoSSID /\ ip' = FALSE
  /\ IF link # "down" THEN Post(Disconnected("other")) ELSE UNCHANGED queue
  /\ registered' = FALSE
  /\ UNCHANGED <<air, faults, station, group, isConfigModeActive, creds, reconnection, enterBit, loop, mqtt,
                 otaTimer, observers>>

(* A new event group; who waits on the old one waits for ever.  Then the   *)
(* main task waits for the start events.                                   *)
StartWiFiAsAccessPointStationSync ==
  /\ main = "start" /\ main' = "starting" /\ registered' = TRUE
  /\ bits' = {} /\ waiter' = [waiter EXCEPT !["task"] = "idle"] /\ Post(Posted("started"))
  /\ UNCHANGED <<driver, station, reconnectTimer, isConfigModeActive, creds, reconnection, enterBit, loop,
                 mqtt, otaTimer, observers>>

(* A failed assertion or check restarts the device.  Configuration mode    *)
(* (Setup) ends with a restart too: another behaviour from NetworkInit.    *)
Halted == crashed \/ aborted

Restart ==
  /\ Halted
  /\ link' = "down" /\ target' = NoSSID /\ ip' = FALSE /\ queue' = <<>>
  /\ connectedToAp' = FALSE /\ disconnectionReason' = "other"
  /\ lastConnectedSSID' = NoSSID /\ aborted' = FALSE /\ bits' = {} /\ waiter' = [w \in Waiter |-> "idle"]
  /\ reconnectTimer' = FALSE /\ isConfigModeActive' = FALSE
  /\ reconnectBit' = FALSE /\ task' = "wait"
  /\ main' = "boot" /\ enterBit' = FALSE /\ registered' = TRUE /\ loop' = "idle"
  /\ handle' = None /\ clients' = [c \in {} |-> "up"]
  /\ mqttGroup' = TRUE /\ mqttConnected' = FALSE /\ connectedToBroker' = FALSE
  /\ otaTimer' = FALSE /\ renewed' = FALSE /\ crashed' = FALSE /\ late' = FALSE
  /\ UNCHANGED <<air, faults, creds>>

-----------------------------------------------------------------------------
EventLoop ==
  \/ HandleConnected \/ HandleDisconnected \/ HandleGotIp \/ HandleLostIp \/ HandleStarted
  \/ DropEvent \/ MqttConnect \/ MqttConnectReturns \/ StartPeriodicUpdatesCheck

MainTask ==
  \/ Boot \/ BootDone \/ EnterConfigMode \/ EnterStopsOta \/ StopWiFi
  \/ StartWiFiAsAccessPointStationSync \/ Restart

MqttTask == \E c \in DOMAIN clients : ClientConnected(c) \/ ClientDisconnected(c)

ReconnectionTask == TaskWakes \/ TaskDone

NetworkNext ==
  /\ ~Halted \/ Restart
  /\ \/ Environment \/ EventLoop \/ MainTask \/ MqttTask
     \/ ReconnectTimerCallback \/ ReconnectionTask \/ ConfigButtonLongPressed

NetworkSpec == NetworkInit /\ [][NetworkNext]_networkVars

(* Every task runs when it can, the timer fires, the driver brings each    *)
(* attempt to its end and the network gives out addresses.  Nothing        *)
(* obliges the air, the broker or the user to do anything.                 *)
Fairness ==
  /\ WF_networkVars((Associates \/ LosesLink \/ Leases) /\ UNCHANGED netVars)
  /\ WF_networkVars(EventLoop) /\ WF_networkVars(MainTask)
  /\ WF_networkVars(ReconnectTimerCallback) /\ WF_networkVars(ReconnectionTask)

NetworkFairSpec == NetworkSpec /\ Fairness

-----------------------------------------------------------------------------
(* Type invariant. *)
NetworkTypeOK ==
  /\ StationTypeOK /\ creds \subseteq SSID
  /\ reconnectBit \in BOOLEAN /\ task \in {"wait", "trying"}
  /\ main \in {"boot", "booted", "loop", "stopOta", "stopWiFi", "start", "starting", "config"}
  /\ enterBit \in BOOLEAN /\ registered \in BOOLEAN
  /\ loop \in {"idle", "connect", "waiting", "finish"}
  /\ handle \in Client \cup {None} /\ DOMAIN clients \subseteq Client
  /\ \A c \in DOMAIN clients : clients[c] \in {"connecting", "connected", "unstarted"}
  /\ mqttGroup \in BOOLEAN /\ mqttConnected \in BOOLEAN /\ connectedToBroker \in BOOLEAN
  /\ otaTimer \in BOOLEAN /\ renewed \in BOOLEAN /\ crashed \in BOOLEAN /\ late \in BOOLEAN

(* Once the event loop has caught up, the manager's connectedToAp is what  *)
(* the driver says: an association with an address is a connection and the *)
(* lack of an association is none, after any sequence of attempts, losses  *)
(* and renewals.  (A lost lease shows only when the address is given up.)  *)
StateFollowsLink ==
  queue = <<>> /\ loop = "idle" /\ ~isConfigModeActive =>
    /\ link = "up" => connectedToAp
    /\ link = "down" => ~connectedToAp

(* While the station is not connected, no MQTT client and no update timer  *)
(* are left: main.cc takes them down on every way the connection can end   *)
(* (a disconnection, or an address that expires), also when the broker was *)
(* not reachable.                                                          *)
TornDown ==
  loop = "idle" /\ ~isConfigModeActive /\ ~connectedToAp => handle = None /\ ~otaTimer

(* connect() never creates a second client beside a living one, although   *)
(* it does not look: every reconnection of Wi-Fi passes through            *)
(* disconnect(), except the renewal of an address.                         *)
ClientOwned == ~renewed => DOMAIN clients \subseteq {handle}

(* No client reports to an event group that disconnect() has deleted: it   *)
(* is stopped before the group goes.                                       *)
GroupExists == ~renewed => ~crashed

(* No client is alive in configuration mode, however the button crosses a  *)
(* connection that is being set up; except when the listener has passed    *)
(* its test of the mode and calls connect() only afterwards.               *)
ConfigModeOffline == main = "config" /\ ~late => handle = None

(* The event loop waits for a broker that cannot be reached, so it will    *)
(* not handle the event that would lead to a reconnection.                 *)
Stranded == loop \in {"connect", "waiting"} /\ link # "up"

(* connect() has failed: nothing tries again before Wi-Fi drops, and where *)
(* it waits for a client that was not started, not even then.              *)
GivenUp ==
  \/ connectedToAp /\ loop = "idle" /\ handle = None
  \/ loop = "waiting" /\ \E c \in DOMAIN clients : clients[c] = "unstarted"

(* An assumption of Recovers alone: a broker that a client can reach       *)
(* accepts it in the end, and the client library goes on trying.           *)
BrokerAccepts == \A c \in Client : WF_networkVars(c \in DOMAIN clients /\ ClientConnected(c))

(* With at least one saved network, every network on the air for good and  *)
(* a broker that accepts, the device gets back to the broker whatever      *)
(* happened before - unless it waits for the broker with the network gone, *)
(* or has given up for want of memory.                                     *)
Hopeless == creds = {} \/ isConfigModeActive
Recovers ==
  BrokerAccepts /\ <>[](\A s \in SSID : air[s] = "on")
    => []<>(connectedToBroker \/ Hopeless \/ Stranded \/ GivenUp)

(* The button leads to configuration mode, whatever the network tasks are  *)
(* doing: its flag does not stay up before that for ever, with the same    *)
(* exception as ConfigModeOffline.                                         *)
ConfigModeReached == []<>(isConfigModeActive => main = "config" \/ late)

(* The types, and a client's life: it ends with the connection it was made *)
(* for, in configuration mode at the latest, and before its event group    *)
(* does (TornDown, ClientOwned, GroupExists, ConfigModeOffline).           *)
ClientInv == NetworkTypeOK /\ TornDown /\ ClientOwned /\ GroupExists /\ ConfigModeOffline
=============================================================================
