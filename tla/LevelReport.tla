------------------------------ MODULE LevelReport ------------------------------
(***************************************************************************)
(* Reporting of the water level to the server (main.cc): the main loop     *)
(* judges each filtered reading (shouldPublishWaterLevelData), publishes   *)
(* it, updates what it tracks and stores the level for the next boot.      *)
(*                                                                         *)
(* The median of the filters is any level.  Time passes in readings, of    *)
(* which the heartbeat takes HEARTBEAT; a silent transmitter lets it pass  *)
(* without one.  The pump and the connection are what they happen to be    *)
(* each time the loop looks.  A definition that ends in Bug is a mutant of *)
(* the one that follows it.                                                *)
(***************************************************************************)
EXTENDS Integers, Sequences

CONSTANTS
  MaxLevel,         \* levels are 1 .. MaxLevel: the loop rejects 0
  SPIKE_THRESHOLD,
  HEARTBEAT         \* PUBLISH_HEARTBEAT_INTERVAL_MS, in readings

ASSUME ReportAssumption ==
  /\ MaxLevel \in Nat \ {0} /\ SPIKE_THRESHOLD \in Nat /\ HEARTBEAT \in Nat \ {0}

VARIABLES
  published, publishedPump,  \* lastPublishedWaterLevel, ...PumpState
  pending, spike,            \* pendingWaterLevel, pendingSpike
  history,                   \* the last two of publishHistory: no other is read
  oscillation,               \* oscillationLow while inOscillation
  quiet,                     \* readings since lastPublishTimestamp
  stored,                    \* "last_wl" in NVS
  step, job,                 \* where the loop is, and with what
  server                     \* what the server knows

(* Observers: how many readings the loop has judged since the server knew  *)
(* the level; what the server or NVS has missed since the last report that *)
(* went well; and the pump when a reading was judged last.                 *)
VARIABLES behind, missed, judgedPump

trend == <<pending, spike, history, oscillation>>
tracked == <<published, publishedPump>>
loop == <<step, job>>
vars == <<trend, tracked, quiet, stored, loop, server, behind, missed, judgedPump>>

Level == 1 .. MaxLevel
None == 0            \* -1 in the code; "not yet" where the code has a flag
LevelOrNone == Level \cup {None}
Report == [level : LevelOrNone, pump : BOOLEAN]
NoReport == [level |-> None, pump |-> FALSE]

Distance(a, b) == IF a < b THEN b - a ELSE a - b

Init ==
  /\ published = None /\ publishedPump = FALSE
  /\ pending = None /\ spike = None /\ history = <<>> /\ oscillation = None
  /\ quiet = 0 /\ step = "read" /\ job = NoReport
  /\ stored = None /\ server = NoReport
  /\ behind = 0 /\ missed = {} /\ judgedPump = FALSE

-----------------------------------------------------------------------------
(* shouldPublishWaterLevelData, a case each, in their order.               *)

Push(level) ==
  history' = IF Len(history) < 2 THEN Append(history, level) ELSE <<history[2], level>>

Send(level, pump) == step' = "send" /\ job' = [level |-> level, pump |-> pump]
Skip == UNCHANGED loop

Unchanged(level, pump) == level = published /\ pump = publishedPump

Unmoved(level, pump) ==
  /\ Unchanged(level, pump) /\ Skip /\ UNCHANGED <<trend, tracked, missed>>

(* The level is the one reported before the restart: it counts as reported. *)
FirstSkipped(level, pump) ==
  /\ published = None /\ level = stored /\ Skip
  /\ history' = <<level>> /\ published' = level /\ publishedPump' = pump
  /\ missed' = IF pump = server.pump THEN missed ELSE missed \cup {"pump"}
  /\ UNCHANGED <<pending, spike, oscillation>>

FirstPublished(level, pump) ==
  /\ published = None /\ level # stored /\ Send(level, pump)
  /\ history' = <<level>>
  /\ UNCHANGED <<pending, spike, oscillation, tracked, missed>>

(* Mutant: a heartbeat needs a level that has not been seen before. *)
UrgentBug(pump) == pump # publishedPump \/ (quiet = HEARTBEAT /\ pending = None)
Urgent(pump) == pump # publishedPump \/ quiet = HEARTBEAT

Forced(level, pump) ==
  /\ published # None /\ Urgent(pump) /\ ~Unchanged(level, pump) /\ Send(level, pump)
  /\ pending' = None /\ spike' = None /\ Push(level)
  /\ UNCHANGED <<oscillation, tracked, missed>>

(* The rest: a level other than the one published, and no haste. *)
Judged(level, pump) ==
  /\ published # None /\ ~Urgent(pump) /\ ~Unchanged(level, pump)
  /\ UNCHANGED <<tracked, missed>>

NewChange(level, pump) ==
  /\ Judged(level, pump) /\ pending = None /\ Skip
  /\ pending' = level /\ UNCHANGED <<spike, history, oscillation>>

Large == Distance(pending, published) >= SPIKE_THRESHOLD
Confirmed(level, pump) == Judged(level, pump) /\ level = pending

SpikeSuspected(level, pump) ==
  /\ Confirmed(level, pump) /\ Large /\ spike = None /\ Skip
  /\ spike' = pending /\ UNCHANGED <<pending, history, oscillation>>

SpikeOver(level, pump) ==
  /\ Confirmed(level, pump) /\ ~Large /\ spike # None /\ Skip
  /\ spike' = None /\ UNCHANGED <<pending, history, oscillation>>

(* The change is no spike: one it confirms is cleared, another one stays. *)
Steady(level, pump) ==
  /\ Confirmed(level, pump) /\ (Large <=> spike # None)
  /\ spike' = IF pending = spike THEN None ELSE spike
  /\ UNCHANGED pending

Breakout(level, pump) ==
  /\ Steady(level, pump) /\ oscillation # None
  /\ pending < oscillation - 1 \/ pending > oscillation + 2
  /\ oscillation' = None /\ Push(pending) /\ Send(level, pump)

StillOscillating(level, pump) ==
  /\ Steady(level, pump) /\ oscillation # None
  /\ pending \in oscillation - 1 .. oscillation + 2
  /\ Skip /\ UNCHANGED <<history, oscillation>>

Alternates ==
  /\ Len(history) = 2 /\ Distance(history[1], history[2]) = 1
  /\ pending \in {history[1], history[2]}

OscillationStarts(level, pump) ==
  /\ Steady(level, pump) /\ oscillation = None /\ Alternates /\ Skip
  /\ oscillation' = IF history[1] < history[2] THEN history[1] ELSE history[2]
  /\ UNCHANGED history

Changed(level, pump) ==
  /\ Steady(level, pump) /\ oscillation = None /\ ~Alternates
  /\ Push(pending) /\ Send(level, pump) /\ UNCHANGED oscillation

Further(level) ==
  /\ (pending > published) = (level > published) /\ (pending < published) = (level < published)
  /\ Distance(level, published) > Distance(pending, published)

Continued(level, pump) ==
  /\ Judged(level, pump) /\ pending \notin {None, level} /\ Further(level)
  /\ Push(pending) /\ Send(level, pump) /\ UNCHANGED <<pending, spike, oscillation>>

Reversed(level, pump) ==
  /\ Judged(level, pump) /\ pending \notin {None, level} /\ ~Further(level)
  /\ pending' = level /\ Skip /\ UNCHANGED <<spike, history, oscillation>>

ShouldPublish(level, pump) ==
  \/ Unmoved(level, pump) \/ FirstSkipped(level, pump) \/ FirstPublished(level, pump) \/ Forced(level, pump)
  \/ NewChange(level, pump) \/ SpikeSuspected(level, pump) \/ SpikeOver(level, pump)
  \/ Breakout(level, pump) \/ StillOscillating(level, pump) \/ OscillationStarts(level, pump)
  \/ Changed(level, pump) \/ Continued(level, pump) \/ Reversed(level, pump)

-----------------------------------------------------------------------------
(* The loop.  A reading is judged only while MQTT is connected.            *)

Judge(level, pump) ==
  /\ step = "read" /\ ShouldPublish(level, pump)
  /\ quiet' = IF published = None THEN 0 ELSE IF quiet < HEARTBEAT THEN quiet + 1 ELSE quiet
  /\ judgedPump' = pump
  /\ behind' = IF level = published' THEN 0 ELSE behind + 1
  /\ UNCHANGED <<stored, server>>

(* No reading is judged for long: none arrives, or MQTT is not connected. *)
Silence ==
  /\ step = "read" /\ published # None /\ quiet' = HEARTBEAT
  /\ UNCHANGED <<trend, tracked, stored, loop, server, behind, missed, judgedPump>>

(* publishWaterLevelData looks at the connection and at the pump again,    *)
(* and drops the report without a word; ...                                *)
PublishWaterLevelData(pump) ==
  \/ /\ server' = [level |-> job.level, pump |-> pump]
     /\ missed' = (missed \cap {"stored"}) \cup (IF pump = job.pump THEN {} ELSE {"pump"})
  \/ UNCHANGED server /\ missed' = missed \cup {"level", "pump"}

(* Mutant: the level confirmed is tracked, not the one that was sent. *)
UpdateLastPublishedValuesBug ==
  /\ published' = IF pending = None THEN job.level ELSE pending
  /\ publishedPump' = job.pump /\ pending' = None /\ quiet' = 0

UpdateLastPublishedValues ==
  /\ published' = job.level /\ publishedPump' = job.pump
  /\ pending' = None /\ quiet' = 0

(* ... either way the loop takes it for published. *)
Publish(pump) ==
  /\ step = "send" /\ step' = "store"
  /\ PublishWaterLevelData(pump) /\ UpdateLastPublishedValues
  /\ behind' = 0
  /\ UNCHANGED <<spike, history, oscillation, stored, job, judgedPump>>

(* Mutant: a write that fails is taken for one that succeeded. *)
StoreBug ==
  /\ step = "store" /\ step' = "read"
  /\ stored' \in {job.level, stored} /\ missed' = missed \ {"stored"}
  /\ job' = NoReport
  /\ UNCHANGED <<trend, tracked, quiet, server, behind, judgedPump>>

Store ==
  /\ step = "store" /\ step' = "read"
  /\ \/ stored' = job.level /\ missed' = missed \ {"stored"}
     \/ UNCHANGED stored /\ missed' = missed \cup {"stored"}
  /\ job' = NoReport
  /\ UNCHANGED <<trend, tracked, quiet, server, behind, judgedPump>>

Restart ==
  /\ published' = None /\ publishedPump' = FALSE
  /\ pending' = None /\ spike' = None /\ history' = <<>> /\ oscillation' = None
  /\ quiet' = 0 /\ step' = "read" /\ job' = NoReport
  /\ behind' = 0 /\ judgedPump' = FALSE
  /\ missed' = IF step = "store" THEN missed \cup {"stored"} ELSE missed
  /\ UNCHANGED <<stored, server>>

Next ==
  \/ \E level \in Level, pump \in BOOLEAN : Judge(level, pump)
  \/ Silence \/ (\E pump \in BOOLEAN : Publish(pump)) \/ Store
  \/ Restart

Spec == Init /\ [][Next]_vars

-----------------------------------------------------------------------------

TypeOK ==
  /\ {published, pending, spike, oscillation, stored} \subseteq LevelOrNone
  /\ publishedPump \in BOOLEAN
  /\ history \in Seq(Level) /\ Len(history) <= 2
  /\ quiet \in 0 .. HEARTBEAT
  /\ step \in {"read", "send", "store"}
  /\ job \in Report /\ server \in Report
  /\ behind \in Nat /\ judgedPump \in BOOLEAN
  /\ missed \subseteq {"level", "pump", "stored"}

(* The level the loop takes for reported is the one the server has, unless *)
(* the report got lost on a connection that broke after it was judged, or  *)
(* NVS missed one and the first reading after a restart was held against a *)
(* level the server no longer shows.                                       *)
LevelAgrees ==
  step = "read" /\ published # None /\ missed \cap {"level", "stored"} = {}
    => server.level = published

(* "Always publish pump state changes (critical for monitoring)": when a   *)
(* reading is judged not worth a report, the server shows the pump as it   *)
(* is, unless the last report was lost, the pump switched while it was     *)
(* being written, or the first reading after a restart was skipped.        *)
PumpReported ==
  step = "read" /\ published # None /\ "pump" \notin missed => server.pump = judgedPump

(* However the level wanders between suspected spikes and oscillations,    *)
(* the loop judges no more than HEARTBEAT readings in a row that differ    *)
(* from the level reported before it reports one.                          *)
ChangeReported == behind <= HEARTBEAT + 1

(* "Never publish the same water level twice consecutively": what is sent  *)
(* is news to the server, if nothing went wrong before.                    *)
NoDuplicates ==
  [][step = "send" /\ step' = "store" /\ missed = {} /\ missed' = {} => server' # server]_vars

(* The types, and the loop and the server agree on level and pump          *)
(* (LevelAgrees, PumpReported).                                            *)
ReportInv == TypeOK /\ LevelAgrees /\ PumpReported
=============================================================================
