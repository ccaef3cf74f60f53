# WPSwitch receiver: a verification development

WPSwitch keeps a roof tank full. A **Control Unit** (CU, ESP32, C++ on FreeRTOS, `src/ControlUnit`)
hears the water level by radio, decides whether the submersible pump runs and talks to a server over
Wi-Fi. A **Switching Unit** (SU, CH32V003, C without an operating system, `src/SwitchingUnit`) drives the
three relays of the pump's starter panel. They share a UART link and one presence line. This directory
holds TLA+ models of both units, the TLC runs that check them, and TLAPS proofs.

References are to files under `src/`; `RC` is `SwitchingUnit/src/relay_ctrl.c`, `SM` is
`ControlUnit/main/switching_unit/SwitchingUnitManager.cc`, `PC` is
`ControlUnit/main/pump_controller/PumpController.cc`, `MC` is `ControlUnit/main/main.cc`.

## Inventory

| Component | State | Operations | Talks to | Must be true of it |
|---|---|---|---|---|
| SU relays, `relay_ctrl.c` | relay state, time of entry, three pins | on, off, lock, unlock, `relay_tick` | command handler, motor feedback | winding never driven too long; no dry run; a rest between runs; pins agree with the state |
| SU motor feedback, `motor_detect.c` | debounced level, sample count | `motor_detect_tick` | relays (shared read), events to the CU | no glitch believed; a steady level believed in time |
| SU presence, `presence.c` | three time stamps, pulse flag | `presence_tick`, edge interrupt, frame hook | CU by the wire and by frames | heartbeat on time; peer found present and absent in time |
| SU time, `systick.c` | one 32-bit millisecond counter | interrupt, `millis` | everything above | differences survive the wrap |
| SU superloop, `main.c` | none | calls the ticks in a fixed order | all SU parts | the parts together let a coil go and stop a pump |
| SU command handler, `comm_protocol.c` | parser bytes | byte parser, command, event | UART ring, relays | one answer per command |
| SU UART ring, `hw_uart.c` | 64-byte ring | receive interrupt, read | parser | a full ring loses a frame, never makes one up |
| SU meter, `hlw8032.c`, `sw_uart.c` | last reading | poll, decode | reported only | arithmetic in range |
| CU SU manager, `SM` | expected id, waiting flag, pending frame, semaphore, belief `_motorRunning` | send*/query*, `processFrame`, keep-alive | SU by UART, pump controller | a call ends with its own answer; the belief follows the motor |
| CU pump controller, `PC` | start flag, lockout (flag, timer, NVS record), monitoring state and timer, mode flags, Kalman state | start, stop, level change, manual start, worker | SU manager, sensor data, NVS, timers | one start at a time; every run watched; a lockout holds and ends |
| CU application, `MC` | modes, what was published, boot order | main loop, button, listeners, command callbacks | every CU part | the server knows the level; configuration mode is reached and is quiet; accepted settings are stored |
| CU RF receiver, `UartManager.cc`, `uart_protocol/` | packet buffer, error count, watchdog timer, port mutex, configuration flag | receive task, `sendData`, module sessions | main loop, HTTPS server | a packet costs a packet; the module is left alone while it is configured; silence is noticed |
| CU filters and sensor data | median window, Kalman state, last sample | filter, get, set | receiver, controller | output within the inputs |
| CU storage, `nvsManager.cpp` | credentials in two keys, settings in one each | typed get and set | all of the CU | a record read back is one that was written |
| CU Wi-Fi, `WiFiManager.cpp` | connected flag, event group, reconnection timer and bit | event handlers, connect, stop, access point | driver, MQTT, main loop | the flag follows the driver; the connection comes back |
| CU MQTT, `MQTTManager.cc` | client handle, event group, connected flag | connect, disconnect, client events | Wi-Fi listener, broker | a client ends with its network and before its event group |
| CU MQTT commands, `MqttCommandProcessor.cc` | two queues, token bucket, response strings | incoming, processor task, publisher task | MQTT, pump controller, update gate | strings freed once; bursts bounded; every message leaves |
| CU firmware update, `otaManager.cc` | two flags, name, buffer, handles, slots | triggers, check, download, install, abort | server, flash, main loop | what is booted is whole; an attempt leaves nothing behind |
| CU HTTPS server | running, exiting | requests of configuration mode | storage, pump controller, RF module | requests act one after another |
| CU Bluetooth, indicators, utilities | output or vendor state | - | - | - |

Hard behaviours. On the SU: a polled state machine whose clock wraps, interrupts between statements,
a feedback that is several polls old. On the link: lost and late frames, calls from several tasks that
share one slot. On the CU: tasks on two cores that call an almost unlocked controller across exchanges
and tunes of up to seconds; listeners that block the event loop they are called from; a client library
that goes on connecting by itself; records of several keys that are written one after the other; restarts
and power cuts anywhere. `PROJECT.json` lists forty hazards line by line with the properties that cover
them.

## Modules

| Module | Models | Composes |
|---|---|---|
| `Millis` | `ms_counter` on its width and unsigned differences | - |
| `PumpActuator` | what the SU promises its caller: abstract specification | - |
| `RelayCtrl` | `relay_ctrl.c`: one action per request, one per due case of `relay_tick` | `Millis`; implements `PumpActuator` |
| `MotorDetect` | `motor_detect.c` | `Millis` |
| `SwitchingUnit` | the superloop order, with the contactor outside | extends `RelayCtrl`; `MotorDetect` by INSTANCE |
| `SuLink` | `SM`, statement by statement, with a lossy line | `PumpActuator` as the far end |
| `Presence` | `presence.c`, cut where an interrupt may fall | `Millis` |
| `PumpController` | `PC` with its callers: main loop, worker, a commanding task | - |
| `LevelReport` | `shouldPublishWaterLevelData` and the loop around it, with the server | - |
| `Station` | the event handlers and waits of `WiFiManager.cpp` over its driver | - |
| `Network` | the reconnection task, `MQTTManager.cc`, the listeners, boot and configuration mode | extends `Station` |
| `RateLimit` | the token bucket and the command interval | - |
| `Commands` | `MqttCommandProcessor.cc`: three tasks, two queues, who frees what | extends `RateLimit` |
| `Credentials`, `Settings` | `nvsManager.cpp` and its callers, write by write | - |
| `Setup` | the requests of configuration mode against the other tasks | extends both |
| `Receiver` | `UartManager.cc`: reception, watchdog, sending, sessions with the module | - |
| `Ota` | `otaManager.cc` from the trigger to the restart | - |
| `*Proofs` | theorems and proofs of the module they are named for; `SwitchingUnitProofs` also of `RelayCtrl`, `MotorDetect` and `Millis`, `SuLinkProofs` of `Presence`, `CommandsProofs` of `Network` | |

State and actions keep the source's names. Where the code waits or another task can get between, an
operation is cut; where nothing can, it is one action.

* `RelayCtrl`: `relay_pump_on` is `RelayPumpOn`; the cases of `relay_tick` are `ReleaseStarter`,
  `TripOnMotorLoss`, `EndStopPulse`, `EndCooldown`, `NothingDue`.
* `SuLink`: each statement of `executeTransaction` that another task can notice is a step (`Arm`, `Clear`,
  `Send`, `Take` or `TimeOut`, `GiveUp` or `Conclude`); `processFrame` is cut between its test and its giving
  of the semaphore (`Accept`, `Give`).
* `Presence`: `presence_tick` is cut after it reads the clock and between driving the line and setting
  `pulse_active`, where the interrupt of the unit's own edge may come.
* `PumpController`: a start is `Claim` (the tune and the exchange follow), `Accepted` or `Refused`, `Arm`; a
  stop is the caller's test and monitoring reset, `SendOff`; a lockout is `ClearLockout` (timer deleted, flag
  cleared), `EraseRecord` (the write to NVS), `StartLockout` (new timer, flag set) and `RecordLockout` (the write).
  Each write of the lockout's record is a step of its own, after the step that changes the flag. The test at the head of `turnWaterPumpOn` (PC:544) belongs to the caller's
  step because nothing waits before it; the claim is a step of its own because the test stands
  outside the critical section.
* `LevelReport`: a reading is `Judge` (the whole decision), `Publish` (the connection and the pump are read
  again) and `Store` (what is remembered, and NVS). The median is any level.
* `Station`, `Network`: the driver posts events to a queue which the event loop empties in order; the
  Wi-Fi listener runs inside the event loop, so `connect()` and its wait for the broker hold all further
  Wi-Fi events up (`loop`). `app_main`, the reconnection task, the timer and the client's own task are
  actors of their own.
* `Commands`: an incoming message is queued or lost (`queueIncomingCommand`); the processor's test of the
  gate, its rate limit, the listener's call and its answer are steps; the publisher takes and publishes.
* `Credentials`, `Settings`, `Setup`: one step per write to flash or per update of a field in RAM, since the
  two tasks share neither lock nor order; a form walks through its keys in the order of the code.
* `Receiver`: a packet comes in pieces; the listener's verdict on it (`processReceivedPacket`) and the restart
  of the watchdog (`StartWatchdog`) are two steps, and the timer may run out between them; `sendData` reads the flag before it waits for the mutex, so these are
  two steps; a session with the module is a sequence of question, answer or timeout, and the way out.
* `Ota`: the blocks of `otaTask` between two network or flash calls; `AbortOTA` is every `abortOTA` way out.

Variables named as *observers* are read by no action of the program. A definition that ends in `Bug` is
a mutated form of the one after it; each property has been seen to fail under one of them.

## Runs

An invariant whose name ends in `Inv` is the conjunction of the module's type invariant with named parts,
each stated and commented where it is defined.

| Run | Shows | Bounds |
|---|---|---|
| `relay` | pins match the state; winding and dry run bounded; rest before start; `PumpActuator` implemented, safety and liveness | clock of 9 ms, starter 3, rest 6, grace 2, polls up to 2 ms apart |
| `switching_unit` | glitches are not believed, steady levels are; an open coil is released; a stop pulse stops | clock 7, starter 5, rest 2, grace 1, debounce 1 x 2, polls up to 2 ms apart |
| `link` | own answer, no spurious timeout, running is believed | one task, ON and OFF, 1 frame out, 2 back |
| `presence` | heartbeat and its width; absent and present in time | clock 12, period 3, width 1, timeouts 6 and 7, poll 2 |
| `pump` | one start at a time; runs watched; lockout holds; lockout, timer and NVS agree, but for the steps between the flag and its record | three tasks, one lockout timer, from every state the program can boot in |
| `pump_progress` | claims are given back and lockouts end | main loop and worker, two timers, one restart |
| `level` | the server agrees with what the loop remembers; a change is held back for `HEARTBEAT` readings at most; nothing is sent twice | levels 1..4, spikes above 2, heartbeat 3 |
| `network` | the flag follows the driver; no client survives its network; the device gets back to the broker, or into configuration mode | two networks, saved none, one or both; two events ahead; every network on the air at first, then two faults, of the air, of the link or of memory in `connect()`; two clients |
| `ota` | what is booted is whole; an attempt leaves nothing; nothing is installed again; a release that stays is installed | versions 1..3 of which 2 cannot be read, two slots, two chunks, two faults |
| `commands` | strings freed once; one command slips into an update; bursts bounded; messages leave | two messages, queues of one, bucket of one, four instants |
| `setup` | credentials kept; RAM and flash agree; accepted means stored, and ordered | two names in a list of two, two values per key and unit, three acts of which two change settings, one fault |
| `receiver` | noise costs a packet; answers are one's own; no write into a session; silence is reported, a dead sensor shown, a session ends | silence of 2 s, buffer of 2 pieces, 2 errors, a request of two sessions at the most, one noise (or packet without a reading, or without memory), one answer late or too long |

Why small is enough. The timed modules compare only differences of the clock with constants; the
bounds keep the order of the real constants, each constant is reached from both sides, and the clock is
a few ticks longer than the longest wait, so it wraps in every state, which the real one does only
after 49.7 days. The proofs named below remove the bounds. One task on the link is the protocol as
designed. Three tasks in the controller are one for each kind of caller; the critical section is proved
for any number. A restart forgets everything but NVS and the
motor, so `pump` begins in every state a restart can lead to (the motor on or off, the feature on or off, a
lockout recorded or not) and needs none of its own. Its VIEW (`Told`) merges the states that, after an overlap,
differ only in the observer `run` and in the record of NVS, which no action reads any more without a restart and no
invariant but `TypeOK`, a theorem, looks at.
`level`: four levels make a spike, an oscillation and a trend distinct, and the code looks back two reports.
`network`: two networks are needed for a fall-back, and two faults for a fault in the recovery from a fault;
a third client would be a third `connect()` without a `disconnect()`, which `ClientOwned` excludes. `ota`: three
versions make an upgrade after an upgrade and a release withdrawn in the middle; the slots are two in the
code; the safety part is proved without bounds. `commands`: queues of one fill up, and a message identity
is used again, so the run is not one of two messages only. `setup`: 300 is a level that a byte does not hold
and 71613 minutes a duration that 32 bits do not; a list of two is full with two names, and its number is
ahead of its array after a write that was cut short. `receiver`: a buffer of two pieces overflows on a packet of two and noise.

### Assumptions and fairness

* A tick of the superloop comes within `MaxLag` or `MaxPoll` milliseconds: the other ticks block for one
  byte of the software UART at most. Time is counted in whole milliseconds, and an edge interrupt is
  taken within its millisecond. An interrupted coil opens its contactor within a millisecond.
* `RelayCtrl`: `WF(RelayTick)` and `WF(Millisecond)`: `main.c` loops for ever and TIM2 is never stopped.
* `PumpController`: weak fairness of each task's step (every exchange ends in an answer or in
  its 1000 ms timeout, `SM:524`), of the worker (FreeRTOS runs a ready task) and of each ticking timer (the
  timer daemon). No fairness is assumed of levels, commands, motor events or stall checks, and none
  says how the Switching Unit answers.
* `Network`: every task runs when it can, the timer fires, the driver ends each attempt and posts its
  events. Nothing obliges the air, the broker or the user to do anything. `Recovers` alone asks for networks that are on
  the air for good and for a broker that accepts a client it hears from (`BrokerAccepts`, its antecedent); that the
  client library goes on trying is its own setting (`disable_auto_reconnect = false`, `MQTTManager.cc:395`). The
  driver refuses a new configuration while it is joining a network, if at all; `ESP_ERROR_CHECK`
  (`WiFiManager.cpp:857`) then aborts and the unit restarts.
* `Ota`: `WF(otaTask)`, since both transports have timeouts, and `WF` of the periodic timer.
* `Commands`: `WF` of the processor and of the publisher. Messages, broker and update owe nothing.
* `Receiver`: the tasks, the timer and the main loop run; the module, the sensor and the client need not.
* `LevelReport`, `Setup`, `SuLink`, `Presence`, `SwitchingUnit`: safety only, no fairness.
* Damaged frames are lost frames; the UART carries what is sent in order. One write to NVS is atomic and
  durable. `esp_ota_end` finds a damaged image; the boot loader's own check is not relied on.

### Excuses a property makes

Some properties hold only while nothing has happened that the code is not prepared for. The excuse is
an observer, so that what is excused can be read in the module:

* `SuLink!mishap`: `lost` and `late` answers, and `crossed`, a call that begins while `processFrame` is
  between its test and the semaphore. `AnswerMatchesCommand` excuses the last only.
* `RelayCtrl!waiver`: an unlock or a power cycle cut the rest short, by design of the code.
* `PumpController!disturbance`: `overlap` when two operations were under way at once, or the lockout's
  timer, expiry or switch came in the middle of one; `switch` when the feature was switched during a
  lockout. Under an overlap the controller does break its rules, at two places a reader should
  know: after a manual stop the flag is set before the timer is (PC:933-942), and a level change between
  the two reads it as an expired lockout and starts the pump again (PC:1316); and a stop that crosses the
  `Arm` of a start leaves a running pump unwatched (PC:765). Nothing in the code prevents either, so
  the properties do not claim otherwise. Two tasks that stand between flag and record of the lockout at once are
  an overlap too: the record of the slower one stays. `OneStarter` has no excuse. Once an overlap has happened `run` is no
  longer recorded: no property looks at it then. `adrift`, in `run`: a stop of the run has failed.
* `Presence!misheard`: how long ago the unit's own pulse was recorded as one of the peer's. `silentWire` counts
  from the peer's pulses only; `AbsentInTime` needs both to be old.
* `LevelReport!missed`: a report lost on a broken connection, a pump switched between the readings of it,
  a store that failed.
* `Network!renewed`: an address was renewed without a disconnection, and the listener called `connect()`
  over a living client. `late`: the listener tested the mode and called `connect()` afterwards. `Stranded`: the
  event loop waits for a broker while its network has gone, and will not handle the event that says so. `GivenUp`:
  `connect()` has failed for want of memory, or waits for a client that could not be started.
* `Credentials!spoiled`: a deletion cut short between its two writes, or two tasks that wrote over
  one another. `Settings!crossed`, `deferred`, `met`: a key saved by one task between the save and the update of
  the other, a key that takes effect at the next boot only, and keys that changed under a form.
* `Receiver`: `hits` counts what noise, sessions and a failed allocation may cost; at most one answer is late or does
  not fit its reader's buffer (`MaxLate`). `accepted`, which is the code's own state, excepts from `AlarmAfterSilence`
  the moment between the listener's yes and the restart of the timer.
* `Ota!leaked`: an `esp_ota` handle was dropped without `esp_ota_abort`.

## Proofs

Every theorem holds for all values of the constants that satisfy the named assumptions of its modules. Few
of the properties are inductive as they stand; what is added to them is said here.

**Switching Unit** (`SwitchingUnitProofs`, from `ClockAssumption`, `TimingAssumption`, `DebounceAssumption`). For
the relays alone: `WindingInv`, `DryRunBounded`, `RestBeforeStart`, and that `RelayCtrl` implements
`PumpActuator!Safety` (`Implements`). `StarterBounded` says nothing of how long the winding *may still* be
driven; the inductive invariant `IInv` ties each observer to the age of the state:

* `StarterInv`: in STARTING the observer of the winding equals the age of the state, and the last poll saw
  that the limit was not reached; elsewhere the winding is off;
* `DryInv`: while RUNNING, either the motor was seen at the last poll (the dry time is at most `lag`), or
  the grace period was not over then and the dry time is bounded by the start and the age of the state.
  This is where the wrap matters: when the age starts again from 0 after 2^32 ms, a dry coil has
  long been let go of;
* `RestInv`: the cooldown timer never runs ahead of the real rest, and IDLE means that the rest is over
  or was cut short.

For the whole unit, where commands, samples and the contactor come between the polls, `UInv` extends `IInv`,
which the larger steps are shown to preserve: `DebounceInv`, `GlitchFree`, `OpenCoilReleased`, `StoppedUnlessHeld`.
`SampleInv` counts: *c* equal samples span at least *c* - 1 intervals, and a level that is not believed has
not held for longer than *c* windows and the wait for the next. `OpenInv` is the counterpart of `DryInv` for
the contactor itself: open no longer than the feedback has held, or the feedback is believed. The proof
needs that a level is believed before the start sequence is over (`Motor!Settled <= STARTER_MAX`, some
30 ms of 3000), and the property needs it too: otherwise a feedback that is still wrong when the clock has wrapped finds a
grace period beginning again, and TLC shows the coil driven beyond the limit.

**Link** (`SuLinkProofs`, from `LinkAssumption`, for one caller, `OneCaller`, as the protocol is designed). `AnswerInv`: `MatchInv` says the
slot is armed for the open call, and what the reception task has delivered or is about to answers its command.
`OnlyLossTimesOut`: `OwnInv` says the one frame of a call is in one place (on its way there or back, with the
reception task, delivered) or was lost. `RunningIsBelieved`: `BelievedInv` says that on the wire every "stopped" is
followed by a frame that raises `_motorRunning` again, while the Switching Unit holds a running motor. This one is proved
without the command STATUS, which no part of the Control Unit sends: its answer "stopped" can be
concluded by the task after the reception task has handled the PUMP_STARTED behind it.

**Presence** (also in `SuLinkProofs`, from `ClockAssumption`, `PresenceAssumption`, any width of the counter, periods and
polling interval). `HeartbeatInv`: `BeatInv` says that the tick's own copy of the clock is as old as the tick and
the last pulse as old as its stamp, and that at the last tick the pulse was not over, or the next not due.
`PresenceInv`: `SilenceInv` says that the wire's stamp is as old as the last edge that was recorded, the peer's or
the unit's own, and that of the frames as old as their silence, until they come round, and that what a
tick made of it is out of date by the tick's age, or by that of two while the second has not got to the
evaluation; an edge between the tick's reading of the clock and its subtraction gives an age of almost a round, and
is what the property leaves to the tick after it.

**Pump controller** (`PumpControllerProofs`, from `ControllerAssumption`, any tasks, timers and restarts). `OneStarter`: four lemmas say
what a step can do to the critical section (nothing, move outside or inside, enter, return), and every
action is one of the four. `Watched`: `WatchInv` says that, as long as no task is about to send the stop, a
motor that was started to be watched has its timer and its state. `LockoutInv`: between the deletion of the old timer and the
start of the new one a task must find neither a timer, nor an expiry, nor a lockout in force (`Backed`), and
a start that a lockout would forbid is not under way (`Forbidden`). Flag and record agree, or one task, and no
other, stands between the two with the value it is going to write (`NvsAgrees`); that the others have left by then is what needs
operations that do not overlap, which is where the excuse of `disturbance` enters.

**Reports** (`LevelReportProofs`, from `ReportAssumption`, any heartbeat and levels). `ReportInv`, `ChangeReported`,
`NoDuplicates`: `LevelInv` and `PumpInv` relate the loop, NVS and the server at each of the three steps of a report; `BehindInv`
counts the readings that differ among those since the last report, which the heartbeat bounds; `NewsInv` says
that a report is under way only with something new in it.

**Storage** (`SetupProofs`, from `SettingsAssumption` and `CredentialAssumption`). `SettingsLive`: while a task is between its save
and its update of a key, flash holds the value it is about to apply, and no other task is there with the
same key, unless the two have crossed (`LiveInv`). `AcceptedInv`: up to where a form has got, each of its keys,
which are distinct, has its value in flash unless somebody else has changed it since (`StoredInv`). `CredentialsKept`:
whatever list a task is about to write carries all that is kept but what it deletes, an addition never shortens
the list, and between the two writes the number is that list's (`Carried`); so any write that fails leaves a list
that fits its number or a deletion half done.

**Commands** (`CommandsProofs`, from `LimitAssumption` and `QueueAssumption`, any rate, capacity and depths of the
queues). `BurstBounded` is a matter of credit: `WindowInv` says that
what was admitted, in units of time, plus what the bucket still holds never exceeds a full bucket plus the time
that has gone by. `CommandsInv`: `GateInv` says that as long as the message that was past the gate when it
closed is under way, none has slipped in; `HeapInv` that a message is in one place at a time (a queue or the
hand of a task) and its response on the heap exactly while its place owes the release: without the first, a
release could free what another place still holds.

**Network** (also in `CommandsProofs`, from `NetworkAssumption`, any networks, clients and depth of the event queue).
`ClientInv`: `LifeInv` says that the listener works for a connection whose end the event loop has not yet
seen, that what a connection brought is gone once it is seen to end, whatever the listener is doing, and that there is
no client where `connect()` is about to make one. It rests on the listener running in the event loop: no
event is handled while it works. `StateFollowsLink`: `TidingsInv` says that the last event in the queue that
speaks of the connection, or `connectedToAp` where none does, is what the driver holds; `WordPosted` and
`WordHandled` say what posting and handling one do to that.

**Radio** (`ReceiverProofs`, from `ReceiverAssumption`, any budget of noise, requests and errors). `QuietInConfig`: `PortInv` ties the flag
and the module's mode to the holder of the mutex and the session's place. `AlarmAfterSilence`: `WatchInv` is
`accepted \/ UART_DATA_RECEPTION_TIMEOUT_SEC <= timer + quiet`: what a reading has broken the restart of the timer
mends, a packet without a reading only delays the timer, and one that is refused leaves both alone. `ReceptionInv`: `CreditInv` charges
the packet that is *about* to be lost (what is in the buffer, or a session, has spoiled it) to what spoiled it; it needs a buffer in which a
whole packet fits. `AnswerInv` says that one answer that comes late puts the readers behind it off by one: a session reads
it for its own prompt, and its prompt for the answer, which is not what it wants and not another's. A
prompt that does not fit its buffer counts as such an answer. The theorem has
the hypothesis `MaxLate <= 1`, and cannot do without: with two late answers TLC shows a query answered with
the value of the query before it.

**Firmware update** (`OtaProofs`, from `OtaAssumption`, any versions, chunks and faults). `BootWhole`: `SlotInv` adds that the slot booted next
is the one that runs until the other has been validated and chosen, so that no chunk is written to it. `AttemptInv`: `HeldInv`
says what each place in `otaTask` holds (flags, name, buffer, connection, handle), from which `Released`
follows where the task waits.

Model-checked only: everything about liveness and ENABLED (the progress properties, and the liveness half of
`PumpActuator`), which are out of the prover's reach. Every invariant a run checks is a theorem. No module with a theorem uses a RECURSIVE operator, and none of the models
needs one: no property depends on what a recursive function computes over data.

## What the code and its words disagree on

Met while modelling; no run is kept for them, since none needs more than a reading of the lines.

Control of the pump:

* A LOCK followed by an UNLOCK skips the 170 s of rest that `docs/ProjectOverview.md:133` promises: `relay_pump_unlock`
  goes to IDLE (RC:125).
* "Motor stopped externally" (RC:159): the trip acts on a debounced level that can be old, drops the coil
  without a stop pulse and may leave a contactor that holds itself.
* `ControlUnit/ProjectOverview.md:106` speaks of *the matching response*, but the expected id, the waiting flag and
  the pending frame are one set for all tasks without a lock (SM:515-531): put a second task into
  `SuLink!Task` and one task takes the other's answer.
* "Disabling does NOT clear existing active lockouts" (`PumpController.h:98`), but a low level while the
  feature is off clears the flag (PC:1327-1331).
* "all monitoring systems will be properly activated" after a restart (MC:1467-1469): `syncWithHardwareState`
  (PC:1674) runs before the Switching Unit has said anything, and a running pump is not watched.
* `relay_pump_off` answers ALREADY_OFF in IDLE and COOLDOWN although the motor may run on the contactor's
  own contact (RC:96-99; `SwitchingUnit/ProjectOverview.md:115`).
* The source of a motor event is judged after the debounce, so a start of our own can be reported as
  MANUAL (`motor_detect.c:56-60`; `SwitchingUnit/ProjectOverview.md:135`).
* `EVT_COOLDOWN_STARTED` is ignored (SM:479-487), and no event callback is registered
  (`ControlUnit/ProjectOverview.md:115`). The remaining rest is rounded down, to 0 in the last second (RC:216).
* A frame in millisecond 0 leaves no trace (`presence.c:86`); a time stamp that nobody ages makes a peer
  present again after a full round of the counter (`presence.c:71,86`); an edge taken after the tick read
  the clock makes the peer absent for a round (`presence.c:43,71`); a presence that changes by a frame
  between two ticks is not reported (`presence.c:60-81`).
* "Only record if we are not actively outputting our own pulse" (`presence.c:115-116`; also `presence.c:14-15` and
  `SwitchingUnit/ProjectOverview.md:184`): the line falls at `presence.c:48` and `pulse_active` is set at 49. The
  interrupt of that edge is due as soon as the pin falls; taken between the two, it records the unit's own
  heartbeat as the peer's, and a dead Control Unit stays present as long as that happens within every 500 ms.
  `PresenceInv` counts these edges in (`misheard`).
* A stop that the Switching Unit does not confirm is logged (PC:886) and then treated as done: monitoring
  and its timer are gone, a lockout may be set, and the pump runs on unwatched until the next stop.
* The lockout's flag and its record in NVS change one after the other (PC:243 and 247, 1596 and 1599, 1666 and
  1668). Two tasks in between can leave them apart until the next record is written, and a restart then takes up the
  wrong one. "Sync runtime state with NVS if there's a discrepancy" (PC:1868) only logs it.
* The start flag is said to prevent a double tune (`PumpController.h:251-254`); the test of the motor
  stands outside the critical section (PC:544), so two starts can still follow one another.

Reports, network and settings:

* The header of `shouldPublishWaterLevelData` says that a spike is cancelled and that 37-38-37-38 never
  publishes (MC:344-352), but the early return for an unchanged level (MC:418) leaves the suspicion
  pending, and the second 38 confirms it.
* "The reconnection logic is now handled by the wifiReconnectionTask" (MC:3405): only after the event loop
  has handled the disconnection, which it does not while the listener waits for the broker
  (`MQTTManager.cc:424`).
* `connect()` returns false when there is no event group or no client (`MQTTManager.cc:354-358`, 402-406), and nobody
  looks at it: the device stays off the broker until Wi-Fi drops. The result of `esp_mqtt_client_start` (421) is not
  looked at either; the event loop then waits for a client that does not run (424), for ever.
* The watchdog "needs to be reset every time a 'valid' sensor data is received" (`UartManager.h:47`); a packet with
  a wrong inner checksum, a request or a response restarts it too (MC:1370-1385), so that a sensor whose readings are
  all rejected is never reported silent. A reading taken as the timer runs out may still be followed by
  an alarm: `xTimerStart` (`UartManager.cc:86`) comes after the listener.
* "exactly-once delivery" (MC:3253-3259): a message acknowledged with QoS 2 is still dropped by a full queue, a
  rate limit or the update gate.
* "Prevent OTA update while pump is running" (MC:2373): the pump is asked once, before the download, and may
  start during it.
* Levels are tested for 0..100 after the cast to a byte, so 300 is accepted as 44 (MC:1895-1898); that the
  starting level is below the stopping one is tested after both are saved and applied (MC:2059).
* A lockout of 71613 minutes overflows 32 bits and is accepted as half an hour (MC:2594).
* POST of the RF module's settings reports a value as applied though its setter failed (MC:2235).
* Some header comments are out of date: the note on the timer at `SwitchingUnit/src/systick.c:7-9`, the one at
  `SwitchingUnit/src/main.c:54`, and the summary of `MqttCommandProcessor.cc:6-7`.

## Not modelled

In `PumpController`: configuration mode, failing NVS writes, the step between the two keys of the lockout's
record (PC:1843 and 1850; what a crash there leaves is one of the records `Init` and `RestoreLockout` begin with), the guard of the button routine, durations, the Kalman filter and the priming arithmetic, a
monitoring timer that cannot be created or whose handle is dropped by a recalibrating start (PC:693),
indicators and events. GRACE_PERIOD is one state with MONITORING, because only the clock tells them
apart. Allocations other than those the modules
name succeed. In `Network`: the test of credentials that configuration mode makes, the list of a scan and SNTP. In
`Receiver`: COBS, cipher and sequence number (a packet is whole or not), and what a packet says beyond the listener's
verdict. In `Ota`: the check of the last invalid application (`otaManager.cc:647-661`), and a transport that returns
no data and no error for ever, on which the loop at 584-600 would spin: `OtaProgress` assumes that a read ends in data, the
end or an error. In
`Commands`: topics, JSON and the lookup table (well-formed or not). Elsewhere: the byte parsers and rings of
the link (a bad frame is a lost frame), the energy meter and the filters (arithmetic outside TLA+),
cryptography, Bluetooth (vendor callbacks), requests that only read, the HTTPS client, LEDs and tunes (no
decision depends on them), the peripheral manager (a facade) and the sensor repository (a copy under a
lock).

## Plan

Done: the Switching Unit, the link, the pump controller, reports, Wi-Fi and MQTT, commands, configuration
mode with its storage, the RF receiver and the firmware update. Next, in this order:

1. `StallDetection`: `processStallDetection` with time, grace period, suspicion and its three
   confirmation readings, and the priming period; properties: a dry pump is stopped in bounded time, a
   rising level never is. `PumpController` then keeps its choice of verdicts as the abstract view of it.
2. `FrameParser`: the two byte parsers of the link and the receive ring, against a reference decoder;
   bytes lost in the middle, the 50 ms timeout, resynchronisation.
3. The median window as a function checked against its definition, in place of `LevelReport`'s any level.
4. Abstract pump service: what the controller promises (follow the level, never defy a lockout, always
   watched), implemented by `PumpController` without overlaps.
5. Wi-Fi credential test in `Station`, and the composition of `Setup` with it.
6. Proofs for what 1 to 5 add; a new component's proofs join those of the component it talks to, as those of
   `Presence` and `Network` have.
