-------------------------------- MODULE Settings --------------------------------
(***************************************************************************)
(* The settings of the pump: the level that starts it, the level that      *)
(* stops it and how long a manual stop locks it out.  Each is a key in     *)
(* flash and a field of the PumpController.  Two tasks change them without *)
(* a lock: the HTTPS server, a form at a time, and the MQTT command task.  *)
(*                                                                         *)
(* External: one NVS write is atomic and durable.  The data timeout and    *)
(* the level that allows control are saved in the same way, and nothing    *)
(* reads them; the SPPR is the controller's own.                           *)
(***************************************************************************)
EXTENDS Integers, Sequences

CONSTANTS
  LEVEL,                 \* levels a client may ask for
  MILLIS, MINUTES        \* lockouts a client may ask for, in either unit

ASSUME SettingsAssumption ==
  LEVEL \subseteq Nat /\ MILLIS \subseteq Nat /\ MINUTES \subseteq Nat

VARIABLES
  nvs, live,             \* flash, and the PumpController's fields
  form                   \* what each task is changing

(* Observers: keys that a task saved while the other one was between its   *)
(* save and its update; keys saved for the next boot only; keys that       *)
(* others have saved since a task's form began.                            *)
VARIABLES crossed, deferred, met

setVars == <<nvs, live, form, crossed, deferred, met>>
observed == <<crossed, deferred, met>>

SettingsTask == {"http", "mqtt"}
Key == {"min", "max", "lockout"}
Unset == -1
Default == [k \in Key |-> IF k = "min" THEN 10 ELSE IF k = "max" THEN 90 ELSE 7200000]

Uint8(v) == v % 256

(* minutes * 60 * 1000 in 32 bits; 60000 is 2^5 * 1875.                    *)
ToMillis(m) == 32 * ((m * 1875) % 134217728)

MANUAL_LOCKOUT_DURATION_MS_MIN == 1800000
MANUAL_LOCKOUT_DURATION_MS_MAX == 18000000
LockoutAllowed(ms) == ms \in MANUAL_LOCKOUT_DURATION_MS_MIN .. MANUAL_LOCKOUT_DURATION_MS_MAX

-----------------------------------------------------------------------------
(* What a client sends, as the handler reads it: the key, the value the    *)
(* code has made of it, whether it is refused, whether it is applied.      *)

Item(k, v, refused, applied) == [key |-> k, value |-> v, refused |-> refused, applied |-> applied]

FormLevel(k, v) == Item(k, Uint8(v), Uint8(v) > 100, TRUE)
FormLockout(ms) == Item("lockout", ms, ~LockoutAllowed(ms), TRUE)

(* POST /pump-config: the keys that are there, in the handler's order.     *)
PumpConfig ==
  LET Part(S) == {<<>>} \cup {<<i>> : i \in S}
  IN { p[1] \o p[2] \o p[3] :
       p \in Part({FormLevel("min", v) : v \in LEVEL}) \X
             Part({FormLevel("max", v) : v \in LEVEL}) \X
             Part({FormLockout(ms) : ms \in MILLIS}) } \ {<<>>}

(* POST /system-config: the lockout is saved, and applied at the next boot. *)
SystemConfig == { <<Item("lockout", ToMillis(m), m \notin 30 .. 300, FALSE)>> : m \in MINUTES }

(* MQTT: a level has no range; the setter of the lockout has one.          *)
Update ==
  { <<Item(p[1], Uint8(p[2]), FALSE, TRUE)>> : p \in {"min", "max"} \X LEVEL } \cup
  { <<Item("lockout", ToMillis(m), ~LockoutAllowed(ToMillis(m)), TRUE)>> : m \in MINUTES }

-----------------------------------------------------------------------------
NoForm == [at |-> "none", items |-> <<>>, done |-> 0, ok |-> TRUE]

(* Boot: a level that is not in flash is given its default there, if the   *)
(* write succeeds.                                                         *)
LoadInto(flash) ==
  /\ \E given \in SUBSET { k \in {"min", "max"} : flash[k] = Unset } :
       nvs' = [k \in Key |-> IF k \in given THEN Default[k] ELSE flash[k]]
  /\ live' = [k \in Key |-> IF flash[k] = Unset THEN Default[k] ELSE flash[k]]

SettingsInit ==
  /\ nvs = [k \in Key |-> IF k = "lockout" THEN Unset ELSE Default[k]]
  /\ live = Default
  /\ form = [t \in SettingsTask |-> NoForm]
  /\ crossed = {} /\ deferred = {} /\ met = [t \in SettingsTask |-> {}]

SettingsBoot ==
  /\ LoadInto(nvs) /\ form' = [t \in SettingsTask |-> NoForm]
  /\ crossed' = {} /\ deferred' = {} /\ met' = [t \in SettingsTask |-> {}]

Next1(t) == form[t].items[form[t].done + 1]
Filling(t) == form[t].at = "save" /\ form[t].done < Len(form[t].items)

Submit(t, items) ==
  /\ form[t] = NoForm
  /\ form' = [form EXCEPT ![t] = [at |-> "save", items |-> items, done |-> 0, ok |-> TRUE]]
  /\ UNCHANGED <<nvs, live, observed>>

(* A value out of range, or one that NVS does not take, is left out; the   *)
(* form goes on with the next.                                             *)
(* Mutant: it is left out in silence. *)
SkipBug(t) == [form EXCEPT ![t].done = @ + 1]
Skip(t) == [form EXCEPT ![t].done = @ + 1, ![t].ok = FALSE]

Refuse(t) ==
  /\ Filling(t) /\ Next1(t).refused
  /\ form' = Skip(t) /\ UNCHANGED <<nvs, live, observed>>

SaveFails(t) ==
  /\ Filling(t) /\ ~Next1(t).refused
  /\ form' = Skip(t) /\ UNCHANGED <<nvs, live, observed>>

(* A task is between the save and the update of k. *)
Between(t, k) == form[t].at = "apply" /\ Next1(t).key = k

Save(t) ==
  /\ Filling(t) /\ ~Next1(t).refused
  /\ LET i == Next1(t) IN
     /\ nvs' = [nvs EXCEPT ![i.key] = i.value]
     /\ form' = IF i.applied THEN [form EXCEPT ![t].at = "apply"] ELSE [form EXCEPT ![t].done = @ + 1]
     /\ crossed' = IF \E u \in SettingsTask : Between(u, i.key) THEN crossed \cup {i.key} ELSE crossed \ {i.key}
     /\ deferred' = IF i.applied THEN deferred \ {i.key} ELSE deferred \cup {i.key}
     /\ met' = [u \in SettingsTask |-> IF u # t /\ form[u] # NoForm THEN met[u] \cup {i.key} ELSE met[u]]
     /\ UNCHANGED live

(* updateMinWaterLevelToStartPump and its like; the change of the pump that *)
(* may follow is the PumpController's. (Mutant: the field stays as it is.)  *)
ApplyBug(t) ==
  /\ form[t].at = "apply"
  /\ form' = [form EXCEPT ![t].at = "save", ![t].done = @ + 1]
  /\ UNCHANGED <<nvs, live, observed>>
Apply(t) ==
  /\ form[t].at = "apply"
  /\ form' = [form EXCEPT ![t].at = "save", ![t].done = @ + 1]
  /\ live' = [live EXCEPT ![Next1(t).key] = Next1(t).value]
  /\ UNCHANGED <<nvs, observed>>

(* The two levels are compared when all has been saved and applied, and    *)
(* only if the form held both.                                             *)
Asked(t, k) == { form[t].items[n].value : n \in { n \in DOMAIN form[t].items : form[t].items[n].key = k } }
Ordered(t) == \A lo \in Asked(t, "min"), hi \in Asked(t, "max") : lo < hi

Answer(t) ==
  /\ form[t].at = "save" /\ form[t].done = Len(form[t].items)
  /\ form' = [form EXCEPT ![t].at = "answer", ![t].ok = @ /\ Ordered(t)]
  /\ UNCHANGED <<nvs, live, observed>>

Answered(t) ==
  /\ form[t].at = "answer" /\ form' = [form EXCEPT ![t] = NoForm]
  /\ met' = [met EXCEPT ![t] = {}] /\ UNCHANGED <<nvs, live, crossed, deferred>>

SettingsStep(t) == Refuse(t) \/ SaveFails(t) \/ Save(t) \/ Apply(t) \/ Answer(t) \/ Answered(t)

-----------------------------------------------------------------------------
SettingsTypeOK ==
  /\ nvs \in [Key -> Int] /\ live \in [Key -> Nat]
  /\ nvs["lockout"] = Unset \/ LockoutAllowed(nvs["lockout"])
  /\ \A t \in SettingsTask : form[t].at \in {"none", "save", "apply", "answer"}
  /\ crossed \subseteq Key /\ deferred \subseteq Key /\ met \in [SettingsTask -> SUBSET Key]

Stored(k) == IF nvs[k] = Unset THEN Default[k] ELSE nvs[k]

(* What the controller works with is what the next boot will load: through *)
(* failed writes, refused values and restarts, unless the two tasks were   *)
(* changing one key at once or the lockout was meant for the next boot.    *)
SettingsLive ==
  \A k \in Key \ (crossed \cup deferred) :
    (\A t \in SettingsTask : ~Between(t, k)) => live[k] = Stored(k)

(* A form that is answered with success has changed everything it asked    *)
(* for, save what the other task has changed since.                        *)
AcceptedStored ==
  \A t \in SettingsTask : form[t].at = "answer" /\ form[t].ok =>
    \A n \in DOMAIN form[t].items :
      LET i == form[t].items[n] IN i.key \notin met[t] => nvs[i.key] = i.value

(* And when it asked for both levels, the pump starts below where it stops. *)
AcceptedOrdered ==
  form["http"].at = "answer" /\ form["http"].ok
  /\ Asked("http", "min") # {} /\ Asked("http", "max") # {}
  /\ met["http"] \cap {"min", "max"} = {} => nvs["min"] < nvs["max"]
=============================================================================
