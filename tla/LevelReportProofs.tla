-------------------------- MODULE LevelReportProofs --------------------------
(***************************************************************************)
(* What the loop that reports the water level keeps, for any number of     *)
(* levels, any spike threshold and any heartbeat.                          *)
(***************************************************************************)
EXTENDS LevelReport, TLAPS

(* Unless the server or NVS has missed something, all three agree between  *)
(* two reports; while a level is being stored, the server has it already.  *)
LevelInv ==
  /\ step # "store" /\ missed \cap {"level", "stored"} = {} =>
       stored = server.level /\ (published # None => server.level = published)
  /\ step = "store" => published = job.level /\ published # None
  /\ step = "store" /\ "level" \notin missed => server.level = published

(* The pump the loop takes for reported is the one it judged last, and the *)
(* one the server shows.                                                   *)
PumpInv ==
  /\ published # None /\ "pump" \notin missed => server.pump = publishedPump
  /\ step # "read" => job.pump = judgedPump
  /\ step = "store" => publishedPump = job.pump
  /\ step = "read" /\ published # None => publishedPump = judgedPump

(* The readings that differ are among those since the last report. *)
BehindInv ==
  /\ behind <= quiet + (IF step = "send" THEN 1 ELSE 0)
  /\ published = None /\ step = "read" => behind = 0

(* A report is underway only with something new in it. *)
NewsInv ==
  /\ step = "send" => job.level \in Level
  /\ step = "send" /\ missed = {} => job.level # server.level \/ job.pump # server.pump

IInv == TypeOK /\ LevelInv /\ PumpInv /\ BehindInv /\ NewsInv

-----------------------------------------------------------------------------
LEMMA LevelTypes == Level \subseteq Nat \ {0} /\ LevelOrNone \subseteq Nat /\ None \notin Level
BY ReportAssumption DEF Level, LevelOrNone, None

(* What is there when nothing has been read. *)
LEMMA Nothing ==
  /\ None \in LevelOrNone /\ NoReport \in Report /\ 0 \in 0 .. HEARTBEAT
  /\ <<>> \in Seq(Level) /\ Len(<<>>) = 0
BY ReportAssumption DEF LevelOrNone, NoReport, Report

LEMMA InitIInv == Init => IInv
<1> SUFFICES ASSUME Init PROVE IInv
  OBVIOUS
<1>1. TypeOK
  <2>1. {published, pending, spike, oscillation, stored} \subseteq LevelOrNone
    BY Nothing DEF Init
  <2>2. history \in Seq(Level) /\ Len(history) <= 2
    BY Nothing DEF Init
  <2>3. job \in Report /\ server \in Report /\ quiet \in 0 .. HEARTBEAT
    BY Nothing DEF Init
  <2> QED BY <2>1, <2>2, <2>3 DEF Init, TypeOK
<1>2. LevelInv /\ PumpInv /\ BehindInv /\ NewsInv
  BY DEF Init, LevelInv, PumpInv, BehindInv, NewsInv, NoReport, None
<1> QED BY <1>1, <1>2 DEF IInv

LEMMA UpToTwo ==
  ASSUME NEW n \in Nat, n <= 2
  PROVE  n < 2 \/ n = 2
OBVIOUS

(* The history holds the last two levels sent. *)
LEMMA PushType ==
  ASSUME NEW level \in Level, history \in Seq(Level), Len(history) <= 2, Push(level)
  PROVE  history' \in Seq(Level) /\ Len(history') <= 2
<1>1. CASE Len(history) < 2
  <2>1. Append(history, level) \in Seq(Level) /\ Len(Append(history, level)) = Len(history) + 1
    OBVIOUS
  <2>2. Len(history) \in Nat
    OBVIOUS
  <2> QED BY <1>1, <2>1, <2>2 DEF Push
<1>2. CASE Len(history) = 2
  <2>1. history[2] \in Level
    BY <1>2
  <2>2. <<history[2], level>> \in Seq(Level) /\ Len(<<history[2], level>>) = 2
    BY <2>1
  <2> QED BY <1>2, <2>2 DEF Push
<1>3. Len(history) < 2 \/ Len(history) = 2
  <2>1. Len(history) \in Nat
    OBVIOUS
  <2> QED BY <2>1, UpToTwo
<1> QED BY <1>1, <1>2, <1>3

LEMMA HistoryType ==
  ASSUME NEW h \in Seq(Level), Len(h) = 2
  PROVE  h[1] \in Level /\ h[2] \in Level
OBVIOUS

(* What a judgement may change, and on what grounds. *)
LEMMA Judgement ==
  ASSUME TypeOK, NEW level \in Level, NEW pump \in BOOLEAN, ShouldPublish(level, pump)
  PROVE  /\ {pending', spike', oscillation'} \subseteq LevelOrNone
         /\ history' \in Seq(Level) /\ Len(history') <= 2
         /\ \/ /\ UNCHANGED <<loop, tracked, missed>> /\ published # None
               /\ pump = publishedPump /\ (quiet # HEARTBEAT \/ level = published)
            \/ /\ FirstSkipped(level, pump)
            \/ /\ Send(level, pump) /\ UNCHANGED <<tracked, missed>>
               /\ \/ published = None /\ level # stored
                  \/ published # None /\ ~Unchanged(level, pump)
<1> USE DEF TypeOK
<1>0. None \in LevelOrNone /\ Level \subseteq LevelOrNone /\ None \notin Level
  BY LevelTypes DEF LevelOrNone
<1>1. CASE Unmoved(level, pump)
  BY <1>0, <1>1 DEF Unmoved, Unchanged, Skip, trend
<1>2. CASE FirstSkipped(level, pump)
  <2>1. <<level>> \in Seq(Level) /\ Len(<<level>>) = 1
    OBVIOUS
  <2> QED BY <1>2, <2>1 DEF FirstSkipped
<1>3. CASE FirstPublished(level, pump)
  <2>1. <<level>> \in Seq(Level) /\ Len(<<level>>) = 1
    OBVIOUS
  <2> QED BY <1>3, <2>1 DEF FirstPublished
<1>4. CASE Forced(level, pump)
  BY <1>0, <1>4, PushType DEF Forced
<1>5. CASE NewChange(level, pump)
  BY <1>0, <1>5 DEF NewChange, Judged, Urgent, Skip
<1>6. CASE SpikeSuspected(level, pump)
  BY <1>0, <1>6 DEF SpikeSuspected, Confirmed, Judged, Urgent, Skip
<1>7. CASE SpikeOver(level, pump)
  BY <1>0, <1>7 DEF SpikeOver, Confirmed, Judged, Urgent, Skip
<1>s. ASSUME Steady(level, pump)
      PROVE  /\ {pending', spike'} \subseteq LevelOrNone /\ pending = level
             /\ published # None /\ pump = publishedPump /\ quiet # HEARTBEAT
             /\ ~Unchanged(level, pump) /\ UNCHANGED <<tracked, missed>>
  BY <1>0, <1>s DEF Steady, Confirmed, Judged, Urgent
<1>8. CASE Breakout(level, pump)
  BY <1>0, <1>8, <1>s, PushType DEF Breakout
<1>9. CASE StillOscillating(level, pump)
  BY <1>0, <1>9, <1>s DEF StillOscillating, Skip
<1>10. CASE OscillationStarts(level, pump)
  <2>1. history[1] \in Level /\ history[2] \in Level
    <3>1. Len(history) = 2 /\ history \in Seq(Level)
      BY <1>10 DEF OscillationStarts, Alternates
    <3> QED BY <3>1, HistoryType
  <2> QED BY <1>0, <1>10, <1>s, <2>1 DEF OscillationStarts, Skip
<1>11. CASE Changed(level, pump)
  BY <1>0, <1>11, <1>s, PushType DEF Changed
<1>12. CASE Continued(level, pump)
  <2>1. pending \in Level
    BY <1>12 DEF Continued, LevelOrNone
  <2> QED BY <1>0, <1>12, <2>1, PushType DEF Continued, Judged
<1>13. CASE Reversed(level, pump)
  BY <1>0, <1>13 DEF Reversed, Judged, Urgent, Skip
<1> QED BY <1>1, <1>2, <1>3, <1>4, <1>5, <1>6, <1>7, <1>8, <1>9, <1>10, <1>11, <1>12, <1>13
        DEF ShouldPublish

-----------------------------------------------------------------------------
LEMMA JudgeIInv ==
  ASSUME IInv, NEW level \in Level, NEW pump \in BOOLEAN, Judge(level, pump)
  PROVE  IInv'
<1>0. level # None /\ level \in LevelOrNone /\ level \in Nat
  BY LevelTypes DEF LevelOrNone
<1>j. /\ step = "read" /\ UNCHANGED <<stored, server>> /\ judgedPump' = pump
      /\ behind' = (IF level = published' THEN 0 ELSE behind + 1)
      /\ quiet' = (IF published = None THEN 0 ELSE IF quiet < HEARTBEAT THEN quiet + 1 ELSE quiet)
      /\ behind \in Nat /\ quiet \in 0 .. HEARTBEAT /\ behind <= quiet
      /\ published = None => behind = 0
  BY DEF Judge, IInv, TypeOK, BehindInv
<1>t. /\ {pending', spike', oscillation', stored'} \subseteq LevelOrNone
      /\ history' \in Seq(Level) /\ Len(history') <= 2
      /\ quiet' \in 0 .. HEARTBEAT /\ behind' \in Nat /\ judgedPump' \in BOOLEAN
      /\ server' \in Report
  BY <1>j, Judgement, ReportAssumption DEF Judge, IInv, TypeOK
<1>1. ASSUME UNCHANGED <<loop, tracked, missed>>, published # None, pump = publishedPump,
             quiet # HEARTBEAT \/ level = published
      PROVE  IInv'
  <2>1. BehindInv'
    BY <1>j, <1>1, ReportAssumption DEF BehindInv, loop, tracked
  <2> QED BY <1>j, <1>t, <1>1, <2>1
          DEF IInv, TypeOK, LevelInv, PumpInv, NewsInv, loop, tracked
<1>2. ASSUME FirstSkipped(level, pump) PROVE IInv'
  <2>1. /\ published = None /\ level = stored /\ UNCHANGED loop
        /\ published' = level /\ publishedPump' = pump
        /\ missed' = (IF pump = server.pump THEN missed ELSE missed \cup {"pump"})
    BY <1>2 DEF FirstSkipped, Skip
  <2>2. TypeOK'
    BY <1>0, <1>t, <2>1 DEF IInv, TypeOK, loop
  <2>3. LevelInv'
    BY <1>j, <2>1 DEF IInv, LevelInv, loop
  <2>4. PumpInv' /\ NewsInv'
    BY <1>j, <2>1 DEF IInv, PumpInv, NewsInv, loop
  <2>5. BehindInv'
    BY <1>0, <1>j, <2>1 DEF BehindInv, loop
  <2> QED BY <2>2, <2>3, <2>4, <2>5 DEF IInv
<1>3. ASSUME Send(level, pump), UNCHANGED <<tracked, missed>>,
             \/ published = None /\ level # stored
             \/ published # None /\ ~Unchanged(level, pump)
      PROVE  IInv'
  <2>1. /\ step' = "send" /\ job' = [level |-> level, pump |-> pump]
        /\ UNCHANGED <<published, publishedPump, missed>>
    BY <1>3 DEF Send, tracked
  <2>2. TypeOK'
    BY <1>0, <1>t, <2>1 DEF IInv, TypeOK, Report
  <2>3. LevelInv' /\ PumpInv'
    BY <1>j, <2>1 DEF IInv, LevelInv, PumpInv
  <2>4. BehindInv'
    BY <1>j, <2>1, ReportAssumption DEF BehindInv
  <2>5. NewsInv'
    BY <1>j, <1>3, <2>1 DEF IInv, LevelInv, PumpInv, NewsInv, Unchanged
  <2> QED BY <2>2, <2>3, <2>4, <2>5 DEF IInv
<1> QED BY <1>1, <1>2, <1>3, Judgement DEF Judge, IInv

LEMMA SilenceIInv == IInv /\ Silence => IInv'
<1> SUFFICES ASSUME IInv, Silence PROVE IInv'
  OBVIOUS
<1>1. BehindInv'
  <2>1. /\ quiet \in Nat /\ quiet <= HEARTBEAT /\ HEARTBEAT \in Nat /\ behind \in Nat
        /\ quiet' = HEARTBEAT /\ step = "read" /\ step' = "read" /\ published' = published
        /\ published # None /\ behind' = behind /\ behind <= quiet
    BY ReportAssumption DEF IInv, TypeOK, BehindInv, Silence, tracked, loop
  <2> QED BY <2>1 DEF BehindInv
<1> QED BY <1>1, ReportAssumption
        DEF IInv, TypeOK, LevelInv, PumpInv, NewsInv, Silence, trend, tracked, loop

LEMMA PublishIInv ==
  ASSUME IInv, NEW pump \in BOOLEAN, Publish(pump)
  PROVE  IInv'
<1>1. /\ step = "send" /\ step' = "store" /\ job.level \in Level
      /\ published' = job.level /\ publishedPump' = job.pump /\ pending' = None /\ quiet' = 0
      /\ behind' = 0 /\ UNCHANGED <<spike, history, oscillation, stored, job, judgedPump>>
  BY DEF IInv, NewsInv, Publish, UpdateLastPublishedValues
<1>2. \/ /\ server' = [level |-> job.level, pump |-> pump]
         /\ missed' = (missed \cap {"stored"}) \cup (IF pump = job.pump THEN {} ELSE {"pump"})
      \/ UNCHANGED server /\ missed' = missed \cup {"level", "pump"}
  BY DEF Publish, PublishWaterLevelData
<1>3. TypeOK'
  <2>1. job.level \in LevelOrNone /\ job.pump \in BOOLEAN
    BY DEF IInv, TypeOK, Report
  <2>2. server' \in Report /\ missed' \subseteq {"level", "pump", "stored"}
    <3>1. server \in Report /\ missed \subseteq {"level", "pump", "stored"}
      BY DEF IInv, TypeOK
    <3>2. [level |-> job.level, pump |-> pump] \in Report
      BY <2>1 DEF Report
    <3>3. server' \in Report
      BY <1>2, <3>1, <3>2
    <3> QED BY <1>2, <3>1, <3>3
  <2>3. behind' \in Nat /\ quiet' \in 0 .. HEARTBEAT
    BY <1>1, Nothing
  <2> QED BY <1>1, <2>1, <2>2, <2>3, Nothing DEF IInv, TypeOK
<1>4. LevelInv'
  BY <1>1, <1>2, LevelTypes DEF LevelInv
<1>5. PumpInv'
  BY <1>1, <1>2 DEF IInv, PumpInv
<1>6. BehindInv' /\ NewsInv'
  BY <1>1, LevelTypes DEF BehindInv, NewsInv
<1> QED BY <1>3, <1>4, <1>5, <1>6 DEF IInv

LEMMA StoreIInv == IInv /\ Store => IInv'
<1> SUFFICES ASSUME IInv, Store PROVE IInv'
  OBVIOUS
<1>1. /\ step = "store" /\ step' = "read" /\ job' = NoReport
      /\ UNCHANGED <<trend, tracked, quiet, server, behind, judgedPump>>
      /\ \/ stored' = job.level /\ missed' = missed \ {"stored"}
         \/ UNCHANGED stored /\ missed' = missed \cup {"stored"}
  BY DEF Store
<1>2. TypeOK'
  BY <1>1 DEF IInv, TypeOK, Report, NoReport, LevelOrNone, trend, tracked
<1>3. LevelInv' /\ PumpInv'
  BY <1>1 DEF IInv, LevelInv, PumpInv, tracked
<1>4. BehindInv' /\ NewsInv'
  BY <1>1 DEF IInv, LevelInv, BehindInv, NewsInv, tracked
<1> QED BY <1>2, <1>3, <1>4 DEF IInv

LEMMA RestartIInv == IInv /\ Restart => IInv'
<1> SUFFICES ASSUME IInv, Restart PROVE IInv'
  OBVIOUS
<1>1. TypeOK'
  <2>1. {published', pending', spike', oscillation', stored'} \subseteq LevelOrNone
    BY Nothing DEF Restart, IInv, TypeOK
  <2>2. history' \in Seq(Level) /\ Len(history') <= 2
    BY Nothing DEF Restart
  <2>3. job' \in Report /\ server' \in Report /\ quiet' \in 0 .. HEARTBEAT
    BY Nothing DEF Restart, IInv, TypeOK
  <2>4. missed' \subseteq {"level", "pump", "stored"}
    BY DEF Restart, IInv, TypeOK
  <2> QED BY <2>1, <2>2, <2>3, <2>4 DEF Restart, TypeOK
<1>2. LevelInv' /\ PumpInv' /\ BehindInv' /\ NewsInv'
  BY DEF IInv, LevelInv, PumpInv, BehindInv, NewsInv, Restart, None
<1> QED BY <1>1, <1>2 DEF IInv

LEMMA NextIInv == IInv /\ [Next]_vars => IInv'
<1> SUFFICES ASSUME IInv, UNCHANGED vars PROVE IInv'
  BY JudgeIInv, SilenceIInv, PublishIInv, StoreIInv, RestartIInv DEF Next
<1> QED BY DEF IInv, TypeOK, LevelInv, PumpInv, BehindInv, NewsInv, vars, trend, tracked, loop

LEMMA SpecIInv == Spec => []IInv
BY InitIInv, NextIInv, PTL DEF Spec

-----------------------------------------------------------------------------
(* The level and the pump that the loop takes for reported are the ones    *)
(* the server shows, as long as nothing was lost on the way (ReportInv):   *)
(* through every filter of spikes and oscillations, and across restarts.   *)
THEOREM ReportsAgree == Spec => []ReportInv
<1>1. IInv => ReportInv
  <2> SUFFICES ASSUME IInv PROVE LevelAgrees /\ PumpReported
    BY DEF IInv, ReportInv
  <2>1. LevelAgrees
    BY DEF IInv, LevelInv, LevelAgrees
  <2>2. PumpReported
    BY DEF IInv, PumpInv, PumpReported
  <2> QED BY <2>1, <2>2
<1> QED BY <1>1, SpecIInv, PTL

(* A change of level is reported at the latest with the heartbeat, however *)
(* it wanders between suspected spikes and oscillations (ChangeReported).  *)
THEOREM ChangesAreReported == Spec => []ChangeReported
<1>1. IInv => ChangeReported
  <2> SUFFICES ASSUME IInv PROVE behind <= HEARTBEAT + 1
    BY DEF ChangeReported
  <2>1. behind \in Nat /\ quiet \in Nat /\ quiet <= HEARTBEAT /\ HEARTBEAT \in Nat
    BY ReportAssumption DEF IInv, TypeOK
  <2> QED BY <2>1 DEF IInv, BehindInv
<1> QED BY <1>1, SpecIInv, PTL

(* What is published is news to the server, if nothing went wrong before   *)
(* (NoDuplicates): also the first report after a restart.                  *)
THEOREM ReportsAreNews == Spec => NoDuplicates
<1>1. IInv /\ [Next]_vars =>
        [step = "send" /\ step' = "store" /\ missed = {} /\ missed' = {}
           => server' # server]_vars
  <2> SUFFICES ASSUME IInv, Next, step = "send", step' = "store", missed = {}, missed' = {}
               PROVE  server' # server
    OBVIOUS
  <2>1. PICK pump \in BOOLEAN : Publish(pump)
    BY DEF Next, Judge, Silence, Store, Restart
  <2>2. server' = [level |-> job.level, pump |-> pump] /\ pump = job.pump
    BY <2>1 DEF Publish, PublishWaterLevelData
  <2>3. job.level # server.level \/ job.pump # server.pump
    BY DEF IInv, NewsInv
  <2> QED BY <2>2, <2>3
<1> QED BY <1>1, SpecIInv, PTL DEF Spec, NoDuplicates
=============================================================================
