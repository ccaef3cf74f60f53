--------------------------------- MODULE Setup ---------------------------------
(***************************************************************************)
(* The configuration mode: a client of the HTTPS server (HttpsServer.cpp   *)
(* and its callbacks in main.cc) changes the credentials and the settings, *)
(* while the event loop forgets the credential of a refused connection and *)
(* the MQTT command task works off updates.  The supply may fail between   *)
(* any two writes.  The server answers one request after the other; one    *)
(* that it refuses for its rate or its form changes nothing.               *)
(***************************************************************************)
EXTENDS Credentials, Settings

CONSTANTS
  MaxActs,               \* requests, updates and refused connections
  MaxForms,              \* those of them that change settings
  MaxFaults              \* writes that fail, and failures of the supply

VARIABLES
  server,                \* "stopped", "running", "exiting" (the task waits), "ending"
  budget

vars == <<credVars, setVars, server, budget>>

Spend(what) == budget[what] > 0 /\ budget' = [budget EXCEPT ![what] = @ - 1]

SpendForm ==
  /\ budget.acts > 0 /\ budget.forms > 0
  /\ budget' = [budget EXCEPT !.acts = @ - 1, !.forms = @ - 1]

Init ==
  /\ CredInit /\ SettingsInit /\ server = "stopped"
  /\ budget = [acts |-> MaxActs, forms |-> MaxForms, faults |-> MaxFaults]

-----------------------------------------------------------------------------
HttpFree == ~Busy("http") /\ form["http"] = NoForm
Serves == server \in {"running", "exiting"} /\ HttpFree

EnterConfigMode ==
  /\ server = "stopped" /\ server' = "running" /\ UNCHANGED <<credVars, setVars, budget>>

credentialsPost ==
  /\ Serves /\ Spend("acts") /\ \E s \in SSID : addCredential("http", s)
  /\ UNCHANGED <<setVars, server>>

credentialDelete ==
  /\ Serves /\ Spend("acts") /\ \E s \in SSID : deleteCredentialWithSSID("http", s)
  /\ UNCHANGED <<setVars, server>>

pumpConfigPost ==
  /\ Serves /\ SpendForm /\ \E items \in PumpConfig : Submit("http", items)
  /\ UNCHANGED <<credVars, server>>

systemConfigPost ==
  /\ Serves /\ SpendForm /\ \E items \in SystemConfig : Submit("http", items)
  /\ UNCHANGED <<credVars, server>>

(* The answer goes out before a task is created that stops the server,     *)
(* once it is idle, and restarts the device.                               *)
exitConfigMode ==
  /\ server = "running" /\ HttpFree /\ server' = "exiting"
  /\ UNCHANGED <<credVars, setVars, budget>>

StopServer ==
  /\ server = "exiting" /\ HttpFree /\ server' = "ending"
  /\ UNCHANGED <<credVars, setVars, budget>>

(* COMMAND_TYPE_UPDATE_... of an MQTT client. *)
MqttUpdate ==
  /\ SpendForm /\ \E items \in Update : Submit("mqtt", items)
  /\ UNCHANGED <<credVars, server>>

(* WIFI_REASON_AUTH_FAIL. *)
Refused ==
  /\ Spend("acts") /\ \E s \in SSID : deleteCredentialWithSSID("event", s)
  /\ UNCHANGED <<setVars, server>>

-----------------------------------------------------------------------------
CredentialStep ==
  /\ \E t \in CredentialTask :
       \/ CredStep(t) /\ UNCHANGED budget
       \/ WriteFails(t) /\ Spend("faults")
  /\ UNCHANGED <<setVars, server>>

SettingStep ==
  /\ \E t \in SettingsTask :
       \/ (Refuse(t) \/ Save(t) \/ Apply(t) \/ Answer(t) \/ Answered(t)) /\ UNCHANGED budget
       \/ SaveFails(t) /\ Spend("faults")
  /\ UNCHANGED <<credVars, server>>

(* RAM is lost; the credentials and the settings are what flash holds.     *)
Boots == CredRestart /\ SettingsBoot /\ server' = "stopped"

Restart == server = "ending" /\ Boots /\ UNCHANGED budget
PowerCut == Spend("faults") /\ Boots
Crash == (\E t \in CredentialTask : ErasesNothing(t)) /\ Boots /\ UNCHANGED budget

Next ==
  \/ EnterConfigMode \/ credentialsPost \/ credentialDelete
  \/ pumpConfigPost \/ systemConfigPost \/ exitConfigMode \/ StopServer
  \/ MqttUpdate \/ Refused
  \/ CredentialStep \/ SettingStep
  \/ Restart \/ PowerCut \/ Crash

Spec == Init /\ [][Next]_vars

-----------------------------------------------------------------------------
TypeOK ==
  /\ CredTypeOK /\ SettingsTypeOK
  /\ server \in {"stopped", "running", "exiting", "ending"}

(* The types, and what a form that was answered with success has changed   *)
(* (AcceptedStored, AcceptedOrdered).                                      *)
AcceptedInv == TypeOK /\ AcceptedStored /\ AcceptedOrdered
=============================================================================
