------------------------------ MODULE SuLinkProofs ------------------------------
(***************************************************************************)
(* What passes between the two units.  The UART link is proved for one     *)
(* calling task, every set of its commands and every depth of the two      *)
(* queues: with two callers one overwrites the identifier the other waits  *)
(* for, and the theorems are false, for nothing in executeTransaction      *)
(* keeps the tasks apart.  The presence line, at the end, is proved for    *)
(* every width of the counter and all periods.                             *)
(***************************************************************************)
EXTENDS SuLink, Presence, SequenceTheorems, TLAPS

Labels == {"idle", "clear", "send", "take", "giveup", "conclude"}
Mishaps == {"none", "lost", "late", "crossed"}

Requests == [id : Command, owner : Task] \cup [id : {"PING"}, owner : {Nobody}]
Responses == [kind : {"response"}, id : Command, code : StatusCode, owner : Task]
        \cup [kind : {"response"}, id : {"PING"}, code : StatusCode, owner : {Nobody}]
Events == [kind : {"event"}, owner : {Nobody},
           id : {"PUMP_STARTED", "PUMP_STOPPED", "COOLDOWN_STARTED", "COOLDOWN_ENDED"}]

TypeInv ==
  /\ expected \in Command \cup {"none"} /\ waiting \in BOOLEAN /\ semaphore \in BOOLEAN
  /\ motorRunning \in BOOLEAN /\ motor \in BOOLEAN /\ receiver \in {"idle", "give"}
  /\ pending \in {NoFrame} \cup Responses
  /\ pc \in [Task -> Labels] /\ cmd \in [Task -> Command \cup {"none"}]
  /\ \A t \in Task : pc[t] # "idle" => cmd[t] \in Command
  /\ missed \in [Task -> BOOLEAN] /\ mishap \in Mishaps
  /\ toSu \in Seq(Requests) /\ Len(toSu) <= MaxToSu
  /\ toCu \in Seq(Responses \cup Events) /\ Len(toCu) <= MaxToCu

(* As long as no call began in the middle of processFrame, the slot is     *)
(* armed for the call that is open, and what the RX task has delivered, or *)
(* is about to deliver, to it answers its command.                         *)
Expects(t) ==
  /\ pc[t] \in {"clear", "send", "take", "conclude"} => expected = cmd[t]
  /\ receiver = "give" /\ pc[t] \in {"clear", "send", "take"} => pending.id = cmd[t]
  /\ (pc[t] \in {"send", "take"} /\ semaphore) \/ pc[t] = "conclude" => pending.id = cmd[t]

MatchInv == mishap # "crossed" => \A t \in Task : Expects(t)

(* The frames of a call: whether one is in a queue, that there are not     *)
(* two, and that they are of its command.                                  *)
Has(q, t) == \E i \in DOMAIN q : q[i].owner = t
Once(q, t) == \A i, j \in DOMAIN q : q[i].owner = t /\ q[j].owner = t => i = j
Only(q, t, c) == \A i \in DOMAIN q : q[i].owner = t => q[i].id = c

(* As long as no answer has come too late, the one frame of a call is in   *)
(* one place: on its way there, on its way back, with the RX task, or      *)
(* delivered; or it was lost.  Nothing of it is left when the call is not  *)
(* waiting for it, and the slot is armed until it is delivered.            *)
OwnFrame(t) ==
  /\ pc[t] # "take" => ~Has(toSu, t) /\ ~Has(toCu, t) /\ receiver = "idle" /\ ~semaphore
  /\ Once(toSu, t) /\ Once(toCu, t) /\ Only(toSu, t, cmd[t]) /\ Only(toCu, t, cmd[t])
  /\ Has(toSu, t) => ~Has(toCu, t) /\ receiver = "idle" /\ ~semaphore
  /\ Has(toCu, t) => receiver = "idle" /\ ~semaphore
  /\ receiver = "give" => ~semaphore
  /\ pc[t] = "take" => Has(toSu, t) \/ Has(toCu, t) \/ receiver = "give" \/ semaphore \/ missed[t]
  /\ pc[t] = "giveup" => missed[t]
  /\ pc[t] \in {"clear", "send"} \/ (pc[t] = "take" /\ ~semaphore) => waiting
  /\ receiver = "give" \/ semaphore \/ pc[t] = "conclude" => pending.owner = t

OwnInv == mishap \in {"none", "lost"} => \A t \in Task : OwnFrame(t)

OneCaller == \E t : Task = {t}

-----------------------------------------------------------------------------
(* Queues. *)

LEMMA Appended ==
  ASSUME NEW S, NEW q \in Seq(S), NEW f \in S
  PROVE  /\ Append(q, f) \in Seq(S) /\ Len(Append(q, f)) = Len(q) + 1
         /\ DOMAIN q = 1 .. Len(q) /\ Len(q) \in Nat /\ DOMAIN Append(q, f) = 1 .. Len(q) + 1
         /\ \A i \in 1 .. Len(q) : Append(q, f)[i] = q[i]
         /\ Append(q, f)[Len(q) + 1] = f
BY AppendProperties, LenProperties

LEMMA Tailed ==
  ASSUME NEW S, NEW q \in Seq(S), q # <<>>
  PROVE  /\ Tail(q) \in Seq(S) /\ Len(Tail(q)) = Len(q) - 1 /\ Len(q) \in Nat \ {0}
         /\ DOMAIN q = 1 .. Len(q) /\ DOMAIN Tail(q) = 1 .. Len(q) - 1
         /\ \A i \in 1 .. Len(q) - 1 : Tail(q)[i] = q[i + 1]
         /\ Head(q) = q[1] /\ Head(q) \in S
<1>1. /\ Tail(q) \in Seq(S) /\ Len(Tail(q)) = Len(q) - 1 /\ Head(q) \in S
      /\ \A i \in 1 .. Len(Tail(q)) : Tail(q)[i] = q[i + 1]
  BY HeadTailProperties
<1>2. Len(q) \in Nat \ {0} /\ DOMAIN q = 1 .. Len(q) /\ DOMAIN Tail(q) = 1 .. Len(Tail(q))
  BY <1>1, LenProperties, EmptySeq
<1>3. Head(q) = q[1]
  OBVIOUS
<1> QED BY <1>1, <1>2, <1>3

LEMMA StillFits ==
  ASSUME NEW S, NEW q \in Seq(S), q # <<>>, NEW n \in Nat, Len(q) <= n
  PROVE  Tail(q) \in Seq(S) /\ Len(Tail(q)) <= n
BY Tailed

-----------------------------------------------------------------------------
(* What a mishap makes of the worst so far. *)

LEMMA Rank ==
  \A m \in Mishaps : (CHOOSE i \in DOMAIN Mishap : Mishap[i] = m) =
    IF m = "none" THEN 1 ELSE IF m = "lost" THEN 2 ELSE IF m = "late" THEN 3 ELSE 4
<1>1. DOMAIN Mishap = 1 .. 4 /\ Mishap[1] = "none" /\ Mishap[2] = "lost"
      /\ Mishap[3] = "late" /\ Mishap[4] = "crossed"
  BY DEF Mishap
<1> QED BY <1>1 DEF Mishaps

LEMMA Worsened ==
  ASSUME TypeInv, NEW what \in {"lost", "late", "crossed"}, Worsen(what)
  PROVE  /\ mishap' \in Mishaps
         /\ what = "crossed" => mishap' = "crossed"
         /\ what = "late" => mishap' \in {"late", "crossed"}
         /\ what = "lost" => mishap' = IF mishap = "none" THEN "lost" ELSE mishap
         /\ mishap = "crossed" => mishap' = "crossed"
         /\ mishap \in {"late", "crossed"} => mishap' \in {"late", "crossed"}
<1> DEFINE order(m) == CHOOSE i \in DOMAIN Mishap : Mishap[i] = m
<1>1. mishap' = IF order(mishap) < order(what) THEN what ELSE mishap
  BY DEF Worsen
<1>2. mishap \in Mishaps /\ what \in Mishaps
  BY DEF TypeInv, Mishaps
<1>3. /\ order(mishap) = IF mishap = "none" THEN 1 ELSE IF mishap = "lost" THEN 2
                         ELSE IF mishap = "late" THEN 3 ELSE 4
      /\ order(what) = IF what = "lost" THEN 2 ELSE IF what = "late" THEN 3 ELSE 4
  BY <1>2, Rank
<1> HIDE DEF order
<1> QED BY <1>1, <1>2, <1>3 DEF Mishaps

LEMMA LostFrames ==
  ASSUME TypeInv, NEW frames, Lost(frames)
  PROVE  /\ missed' \in [Task -> BOOLEAN] /\ mishap' \in Mishaps
         /\ \A t \in Task : missed'[t] = (missed[t] \/ \E i \in DOMAIN frames : frames[i].owner = t)
         /\ mishap' = IF mishap = "none" /\ frames # <<>> THEN "lost" ELSE mishap
<1>1. mishap' \in Mishaps /\ mishap' = IF mishap = "none" /\ frames # <<>> THEN "lost" ELSE mishap
  BY Worsened DEF Lost, TypeInv
<1>2. \A t \in Task : (missed[t] \/ \E i \in DOMAIN frames : frames[i].owner = t) \in BOOLEAN
  BY DEF TypeInv
<1> QED BY <1>1, <1>2 DEF Lost

-----------------------------------------------------------------------------
(* Types. *)

LEMMA InitTypes == Init => TypeInv
<1> SUFFICES ASSUME Init PROVE TypeInv
  OBVIOUS
<1>1. <<>> \in Seq(Requests) /\ <<>> \in Seq(Responses \cup Events) /\ Len(<<>>) = 0
  OBVIOUS
<1>2. toSu = <<>> /\ toCu = <<>>
  BY DEF Init
<1>3. /\ toSu \in Seq(Requests) /\ Len(toSu) <= MaxToSu
      /\ toCu \in Seq(Responses \cup Events) /\ Len(toCu) <= MaxToCu
  BY <1>1, <1>2, LinkAssumption
<1> QED BY <1>3 DEF Init, TypeInv, Labels, Mishaps

LEMMA TransmitTypes ==
  ASSUME TypeInv, NEW frame \in Requests, Transmits(frame)
  PROVE  /\ toSu' \in Seq(Requests) /\ Len(toSu') <= MaxToSu
         /\ missed' \in [Task -> BOOLEAN] /\ mishap' \in Mishaps
<1>1. CASE Len(toSu) < MaxToSu
  <2>1. toSu' = Append(toSu, frame) /\ UNCHANGED observers /\ toSu \in Seq(Requests)
    BY <1>1 DEF Transmits, TypeInv
  <2> QED BY <1>1, <2>1, Appended, LinkAssumption DEF TypeInv, observers
<1>2. CASE ~(Len(toSu) < MaxToSu)
  <2>1. Lost(<<frame>>) /\ toSu' = toSu
    BY <1>2 DEF Transmits
  <2> QED BY <2>1, LostFrames DEF TypeInv
<1> QED BY <1>1, <1>2

LEMMA CallTypes ==
  ASSUME TypeInv, NEW t \in Task, BeginCall(t) \/ CallStep(t)
  PROVE  TypeInv'
<1> USE DEF TypeInv, slot, wire, calls, actuator, observers, Goto, Labels
<1>1. CASE BeginCall(t)
  <2>1. PICK c \in Command : Arm(t, c)
    BY <1>1 DEF BeginCall
  <2>2. mishap' \in Mishaps
    BY <2>1, Worsened DEF Arm
  <2>3. pc' \in [Task -> Labels] /\ cmd' \in [Task -> Command \cup {"none"}]
        /\ \A u \in Task : pc'[u] # "idle" => cmd'[u] \in Command
    BY <2>1 DEF Arm
  <2> QED BY <2>1, <2>2, <2>3 DEF Arm
<1>2. CASE Clear(t)
  BY <1>2 DEF Clear
<1>3. CASE Send(t)
  <2>1. [id |-> cmd[t], owner |-> t] \in Requests /\ Transmits([id |-> cmd[t], owner |-> t])
    BY <1>3 DEF Send, Requests
  <2>2. /\ toSu' \in Seq(Requests) /\ Len(toSu') <= MaxToSu
        /\ missed' \in [Task -> BOOLEAN] /\ mishap' \in Mishaps
    BY <2>1, TransmitTypes
  <2>3. pc' \in [Task -> Labels] /\ cmd' = cmd
        /\ \A u \in Task : pc'[u] # "idle" => cmd'[u] \in Command
    BY <1>3 DEF Send
  <2> QED BY <1>3, <2>2, <2>3 DEF Send
<1>4. CASE Take(t)
  BY <1>4 DEF Take
<1>5. CASE TimeOut(t)
  <2>1. mishap' \in Mishaps
    BY <1>5, Worsened DEF TimeOut
  <2> QED BY <1>5, <2>1 DEF TimeOut
<1>6. CASE GiveUp(t)
  BY <1>6 DEF GiveUp, Return
<1>7. CASE Conclude(t)
  <2>1. motorRunning' \in BOOLEAN
    BY <1>7 DEF Conclude, Believed
  <2> QED BY <1>7, <2>1 DEF Conclude, Return
<1> QED BY <1>1, <1>2, <1>3, <1>4, <1>5, <1>6, <1>7 DEF CallStep

LEMMA ReceiverTypes ==
  ASSUME TypeInv, ProcessFrame
  PROVE  TypeInv'
<1> USE DEF TypeInv, slot, wire, calls, actuator, observers
<1>1. CASE Give
  BY <1>1 DEF Give
<1>2. CASE Accept \/ Discard \/ FollowEvent
  <2>1. toCu # <<>> /\ toCu' = Tail(toCu) /\ toCu \in Seq(Responses \cup Events)
    BY <1>2 DEF Accept, Discard, FollowEvent, Arriving
  <2>2. toCu' \in Seq(Responses \cup Events) /\ Len(toCu') <= MaxToCu /\ Head(toCu) \in Responses \cup Events
    BY <2>1, Tailed, LinkAssumption
  <2>3. CASE Accept
    <3>1. Head(toCu) \in Responses
      BY <2>2, <2>3 DEF Accept, Matches, Events
    <3> QED BY <2>2, <2>3, <3>1 DEF Accept
  <2>4. CASE Discard
    BY <2>2, <2>4 DEF Discard
  <2>5. CASE FollowEvent
    <3>1. motorRunning' \in BOOLEAN
      BY <2>5 DEF FollowEvent
    <3> QED BY <2>2, <2>5, <3>1 DEF FollowEvent
  <2> QED BY <1>2, <2>3, <2>4, <2>5
<1> QED BY <1>1, <1>2 DEF ProcessFrame

LEMMA SaysTypes ==
  ASSUME TypeInv, NEW f \in Responses \cup Events, Says(f)
  PROVE  toCu' \in Seq(Responses \cup Events) /\ Len(toCu') <= MaxToCu
BY Appended, LinkAssumption DEF TypeInv, Says

LEMMA EventType ==
  \A e \in {"PUMP_STARTED", "PUMP_STOPPED", "COOLDOWN_STARTED", "COOLDOWN_ENDED"} : Event(e) \in Events
BY DEF Event, Events

(* The answer to a request. *)
LEMMA ReplyType ==
  ASSUME NEW r \in Requests, NEW code \in StatusCode
  PROVE  Reply(r.id, code, r.owner) \in Responses
BY DEF Requests, Reply, Responses

LEMMA UnitTypes ==
  ASSUME TypeInv,
         HandleCommand \/ MotorChanges \/ Trip \/ RestEnds \/ TimePasses \/ SuRestarts \/ LoseFrame
         \/ KeepAlive
  PROVE  TypeInv'
<1> USE DEF TypeInv, slot, wire, calls, observers, Unmoved
<1>1. CASE HandleCommand
  <2>1. /\ toSu \in Seq(Requests) /\ toSu # <<>> /\ toSu' = Tail(toSu)
        /\ UNCHANGED <<slot, motorRunning, receiver, calls, observers, motor>>
    BY <1>1 DEF HandleCommand
  <2>2. PICK code \in StatusCode : Says(Reply(Head(toSu).id, code, Head(toSu).owner))
    BY <1>1 DEF HandleCommand
  <2>3. toSu' \in Seq(Requests) /\ Len(toSu') <= MaxToSu /\ Head(toSu) \in Requests
    BY <2>1, Tailed, LinkAssumption
  <2>4. toCu' \in Seq(Responses \cup Events) /\ Len(toCu') <= MaxToCu
    BY <2>2, <2>3, ReplyType, SaysTypes
  <2> QED BY <2>1, <2>3, <2>4
<1>2. CASE MotorChanges
  <2>1. toCu' \in Seq(Responses \cup Events) /\ Len(toCu') <= MaxToCu
    BY <1>2, EventType, SaysTypes DEF MotorChanges
  <2> QED BY <1>2, <2>1 DEF MotorChanges
<1>3. CASE Trip
  <2>1. toCu' \in Seq(Responses \cup Events) /\ Len(toCu') <= MaxToCu
    BY <1>3, EventType, SaysTypes DEF Trip
  <2> QED BY <1>3, <2>1 DEF Trip
<1>4. CASE RestEnds
  <2>1. toCu' \in Seq(Responses \cup Events) /\ Len(toCu') <= MaxToCu
    BY <1>4, EventType, SaysTypes DEF RestEnds
  <2> QED BY <1>4, <2>1 DEF RestEnds
<1>5. CASE TimePasses
  BY <1>5 DEF TimePasses
<1>6. CASE SuRestarts
  <2>1. missed' \in [Task -> BOOLEAN] /\ mishap' \in Mishaps
    BY <1>6, LostFrames DEF SuRestarts
  <2>2. toSu' \in Seq(Requests) /\ Len(toSu') <= MaxToSu
    BY <1>6, LinkAssumption DEF SuRestarts
  <2> QED BY <1>6, <2>1, <2>2 DEF SuRestarts
<1>7. CASE LoseFrame
  <2>1. missed' \in [Task -> BOOLEAN] /\ mishap' \in Mishaps
    BY <1>7, LostFrames DEF LoseFrame
  <2>2. \/ toSu # <<>> /\ toSu' = Tail(toSu) /\ toCu' = toCu
        \/ toCu # <<>> /\ toCu' = Tail(toCu) /\ toSu' = toSu
    BY <1>7 DEF LoseFrame
  <2>3. toSu' \in Seq(Requests) /\ Len(toSu') <= MaxToSu
    <3>1. toSu # <<>> => Tail(toSu) \in Seq(Requests) /\ Len(Tail(toSu)) <= MaxToSu
      BY StillFits, LinkAssumption
    <3> QED BY <2>2, <3>1
  <2>4. toCu' \in Seq(Responses \cup Events) /\ Len(toCu') <= MaxToCu
    <3>1. toCu # <<>> => Tail(toCu) \in Seq(Responses \cup Events) /\ Len(Tail(toCu)) <= MaxToCu
      BY StillFits, LinkAssumption
    <3> QED BY <2>2, <3>1
  <2> QED BY <1>7, <2>1, <2>3, <2>4 DEF LoseFrame
<1>8. CASE KeepAlive
  <2>1. [id |-> "PING", owner |-> Nobody] \in Requests /\ Transmits([id |-> "PING", owner |-> Nobody])
    BY <1>8 DEF KeepAlive, Requests
  <2>2. /\ toSu' \in Seq(Requests) /\ Len(toSu') <= MaxToSu
        /\ missed' \in [Task -> BOOLEAN] /\ mishap' \in Mishaps
    BY <2>1, TransmitTypes
  <2> QED BY <1>8, <2>2 DEF KeepAlive
<1> QED BY <1>1, <1>2, <1>3, <1>4, <1>5, <1>6, <1>7, <1>8

LEMMA NextTypes == TypeInv /\ [Next]_vars => TypeInv'
<1> SUFFICES ASSUME TypeInv, [Next]_vars PROVE TypeInv'
  OBVIOUS
<1>1. CASE UNCHANGED vars
  BY <1>1 DEF vars, slot, wire, calls, actuator, observers, TypeInv
<1> QED BY <1>1, CallTypes, ReceiverTypes, UnitTypes DEF Next

-----------------------------------------------------------------------------
(* The frames of a call in a queue that grows, or shrinks. *)

LEMMA GrowsBy ==
  ASSUME NEW S, NEW q \in Seq(S), NEW f \in S, NEW t
  PROVE  /\ Has(Append(q, f), t) <=> Has(q, t) \/ f.owner = t
         /\ Once(q, t) /\ (f.owner = t => ~Has(q, t)) => Once(Append(q, f), t)
         /\ \A c : Only(q, t, c) /\ (f.owner = t => f.id = c) => Only(Append(q, f), t, c)
<1> DEFINE p == Append(q, f)
<1>1. /\ DOMAIN q = 1 .. Len(q) /\ Len(q) \in Nat /\ DOMAIN p = 1 .. Len(q) + 1
      /\ \A i \in 1 .. Len(q) : p[i] = q[i]
      /\ p[Len(q) + 1] = f
  BY Appended
<1> HIDE DEF p
<1>2. \A i \in DOMAIN p : (i \in DOMAIN q /\ p[i] = q[i]) \/ (i = Len(q) + 1 /\ p[i] = f)
  BY <1>1
<1>3. \A i \in DOMAIN q : i \in DOMAIN p /\ p[i] = q[i]
  BY <1>1
<1>4. Len(q) + 1 \in DOMAIN p /\ p[Len(q) + 1] = f
  BY <1>1
<1>5. Has(p, t) <=> Has(q, t) \/ f.owner = t
  BY <1>2, <1>3, <1>4 DEF Has
<1>6. Once(q, t) /\ (f.owner = t => ~Has(q, t)) => Once(p, t)
  BY <1>2 DEF Has, Once
<1>7. \A c : Only(q, t, c) /\ (f.owner = t => f.id = c) => Only(p, t, c)
  BY <1>2 DEF Only
<1> QED BY <1>5, <1>6, <1>7 DEF p

LEMMA ShrinksBy ==
  ASSUME NEW S, NEW q \in Seq(S), q # <<>>, NEW t
  PROVE  /\ Has(q, t) <=> Has(Tail(q), t) \/ Head(q).owner = t
         /\ Once(q, t) => Once(Tail(q), t) /\ (Head(q).owner = t => ~Has(Tail(q), t))
         /\ \A c : Only(q, t, c) => Only(Tail(q), t, c) /\ (Head(q).owner = t => Head(q).id = c)
<1> DEFINE p == Tail(q)
<1>1. /\ Len(q) \in Nat \ {0} /\ DOMAIN q = 1 .. Len(q) /\ DOMAIN p = 1 .. Len(q) - 1
      /\ \A i \in 1 .. Len(q) - 1 : p[i] = q[i + 1]
      /\ Head(q) = q[1]
  BY Tailed
<1> HIDE DEF p
<1>2. \A i \in DOMAIN p : i + 1 \in DOMAIN q /\ p[i] = q[i + 1] /\ i + 1 # 1
  BY <1>1
<1>3. \A i \in DOMAIN q : i = 1 \/ (i - 1 \in DOMAIN p /\ q[i] = p[i - 1])
  <2> TAKE i \in DOMAIN q
  <2>1. CASE i # 1
    <3>1. i - 1 \in 1 .. Len(q) - 1 /\ (i - 1) + 1 = i
      BY <1>1, <2>1
    <3> QED BY <1>1, <3>1
  <2> QED BY <2>1
<1>4. 1 \in DOMAIN q /\ q[1] = Head(q)
  BY <1>1
<1>5. Has(q, t) <=> Has(p, t) \/ Head(q).owner = t
  <2>1. Has(q, t) => Has(p, t) \/ Head(q).owner = t
    BY <1>3, <1>4 DEF Has
  <2>2. Has(p, t) => Has(q, t)
    BY <1>2 DEF Has
  <2>3. Head(q).owner = t => Has(q, t)
    BY <1>4 DEF Has
  <2> QED BY <2>1, <2>2, <2>3
<1>6. ASSUME Once(q, t) PROVE Once(p, t) /\ (Head(q).owner = t => ~Has(p, t))
  <2>1. ASSUME NEW i \in DOMAIN p, NEW j \in DOMAIN p, p[i].owner = t, p[j].owner = t PROVE i = j
    <3>1. i + 1 = j + 1
      BY <1>2, <1>6, <2>1 DEF Once
    <3>2. i \in Int /\ j \in Int
      BY <1>1, <2>1
    <3> QED BY <3>1, <3>2
  <2>2. Head(q).owner = t => ~Has(p, t)
    BY <1>2, <1>4, <1>6 DEF Once, Has
  <2> QED BY <2>1, <2>2 DEF Once
<1>7. \A c : Only(q, t, c) => Only(p, t, c) /\ (Head(q).owner = t => Head(q).id = c)
  BY <1>2, <1>4 DEF Only
<1> QED BY <1>5, <1>6, <1>7 DEF p

LEMMA NoFrames == \A t, c : ~Has(<<>>, t) /\ Once(<<>>, t) /\ Only(<<>>, t, c)
  BY DEF Has, Once, Only

(* No mishap is forgotten. *)
LEMMA Remembered ==
  ASSUME TypeInv, [Next]_vars
  PROVE  /\ mishap' # "crossed" => mishap # "crossed"
         /\ mishap' \in {"none", "lost"} => mishap \in {"none", "lost"}
         /\ mishap' = "none" => mishap = "none"
<1> DEFINE Goal == /\ mishap' # "crossed" => mishap # "crossed"
                   /\ mishap' \in {"none", "lost"} => mishap \in {"none", "lost"}
                   /\ mishap' = "none" => mishap = "none"
<1>1. ASSUME NEW w \in {"lost", "late", "crossed"}, Worsen(w) PROVE Goal
  BY <1>1, Worsened DEF TypeInv, Mishaps
<1>2. ASSUME NEW frames, Lost(frames) PROVE Goal
  BY <1>1, <1>2 DEF Lost
<1>3. ASSUME NEW frame, Transmits(frame) PROVE Goal
  BY <1>2, <1>3 DEF Transmits, observers
<1>4. ASSUME NEW t \in Task, BeginCall(t) \/ CallStep(t) PROVE Goal
  BY <1>1, <1>3, <1>4 DEF BeginCall, CallStep, Arm, Clear, Send, Take, TimeOut, GiveUp, Conclude, observers
<1>5. ASSUME ProcessFrame PROVE Goal
  BY <1>5 DEF ProcessFrame, Accept, Give, Discard, FollowEvent, observers
<1>6. ASSUME SuRestarts \/ LoseFrame \/ KeepAlive PROVE Goal
  BY <1>2, <1>3, <1>6 DEF SuRestarts, LoseFrame, KeepAlive
<1>7. ASSUME HandleCommand \/ MotorChanges \/ Trip \/ RestEnds \/ TimePasses PROVE Goal
  BY <1>7 DEF HandleCommand, MotorChanges, Trip, RestEnds, TimePasses, Unmoved, observers
<1>8. ASSUME UNCHANGED vars PROVE Goal
  BY <1>8 DEF vars, observers
<1> HIDE DEF Goal
<1>9. Goal
  BY <1>4, <1>5, <1>6, <1>7, <1>8 DEF Next
<1> QED BY <1>9 DEF Goal

-----------------------------------------------------------------------------
(* Whose command is answered. *)

(* The steps of the Switching Unit, of the wire and of the keep-alive      *)
(* timer do not touch the calls.                                           *)
LEMMA Apart ==
  ASSUME HandleCommand \/ MotorChanges \/ Trip \/ RestEnds \/ TimePasses \/ SuRestarts
         \/ LoseFrame \/ KeepAlive
  PROVE  UNCHANGED <<expected, waiting, semaphore, pending, receiver, pc, cmd, motorRunning>>
BY DEF HandleCommand, MotorChanges, Trip, RestEnds, TimePasses, SuRestarts, LoseFrame, KeepAlive,
       Unmoved, slot, calls

LEMMA InitMatch == Init => MatchInv
BY DEF Init, MatchInv, Expects

LEMMA CallMatch ==
  ASSUME OneCaller, TypeInv, MatchInv, mishap' # "crossed", mishap # "crossed",
         NEW t \in Task, BeginCall(t) \/ CallStep(t)
  PROVE  Expects(t)'
<1> USE DEF MatchInv, Expects, slot, wire, calls, observers, Goto, TypeInv
<1>1. CASE BeginCall(t)
  <2>1. PICK c \in Command : Arm(t, c)
    BY <1>1 DEF BeginCall
  <2>2. receiver' = receiver /\ receiver # "give"
    BY <2>1, Worsened DEF Arm
  <2>3. pc'[t] = "clear" /\ cmd'[t] = c /\ expected' = c
    BY <2>1 DEF Arm
  <2> QED BY <2>2, <2>3
<1>2. CASE Clear(t)
  BY <1>2 DEF Clear
<1>3. CASE Send(t)
  BY <1>3 DEF Send
<1>4. CASE Take(t)
  BY <1>4 DEF Take
<1>5. CASE TimeOut(t)
  BY <1>5 DEF TimeOut
<1>6. CASE GiveUp(t)
  BY <1>6 DEF GiveUp, Return
<1>7. CASE Conclude(t)
  BY <1>7 DEF Conclude, Return
<1> QED BY <1>1, <1>2, <1>3, <1>4, <1>5, <1>6, <1>7 DEF CallStep

LEMMA ReceiverMatch ==
  ASSUME MatchInv, mishap # "crossed", ProcessFrame, NEW t \in Task
  PROVE  Expects(t)'
<1> USE DEF MatchInv, Expects, slot, calls
<1>1. CASE Accept
  BY <1>1 DEF Accept, Matches
<1>2. CASE Give
  BY <1>2 DEF Give
<1>3. CASE Discard \/ FollowEvent
  <2>1. UNCHANGED <<expected, semaphore, pending, receiver, pc, cmd>>
    BY <1>3 DEF Discard, FollowEvent
  <2> QED BY <2>1
<1> QED BY <1>1, <1>2, <1>3 DEF ProcessFrame

LEMMA NextMatch == OneCaller /\ TypeInv /\ MatchInv /\ [Next]_vars => MatchInv'
<1> SUFFICES ASSUME OneCaller, TypeInv, MatchInv, [Next]_vars, mishap' # "crossed", NEW u \in Task
             PROVE  Expects(u)'
  BY DEF MatchInv
<1>1. mishap # "crossed"
  BY Remembered
<1>2. ASSUME NEW t \in Task, BeginCall(t) \/ CallStep(t) PROVE Expects(u)'
  BY <1>1, <1>2, CallMatch DEF OneCaller
<1>3. CASE ProcessFrame
  BY <1>1, <1>3, ReceiverMatch
<1>4. CASE UNCHANGED <<expected, waiting, semaphore, pending, receiver, pc, cmd, motorRunning>>
  BY <1>1, <1>4 DEF MatchInv, Expects
<1>5. CASE UNCHANGED vars
  BY <1>4, <1>5 DEF vars, slot, calls
<1> QED BY <1>2, <1>3, <1>4, <1>5, Apart DEF Next

-----------------------------------------------------------------------------
(* Whose frame is answered. *)

LEMMA InitOwn == Init => OwnInv
BY NoFrames DEF Init, OwnInv, OwnFrame

(* The call sends its only frame, or loses it. *)
LEMMA SendOwn ==
  ASSUME TypeInv, NEW t \in Task, OwnFrame(t), Send(t)
  PROVE  OwnFrame(t)'
<1>1. /\ pc[t] = "send" /\ pc'[t] = "take" /\ Transmits([id |-> cmd[t], owner |-> t])
      /\ UNCHANGED <<expected, waiting, semaphore, pending, receiver, cmd, toCu>>
  BY DEF Send, slot, TypeInv, Goto
<1>2. ~Has(toSu, t) /\ ~Has(toCu, t) /\ receiver = "idle" /\ ~semaphore /\ waiting
  BY <1>1 DEF OwnFrame
<1>3. CASE Len(toSu) < MaxToSu
  <2> DEFINE f == [id |-> cmd[t], owner |-> t]
  <2>1. toSu' = Append(toSu, f) /\ f \in Requests /\ toSu \in Seq(Requests) /\ f.owner = t /\ f.id = cmd[t]
    BY <1>1, <1>3 DEF Transmits, TypeInv, Requests
  <2> HIDE DEF f
  <2>2. Has(toSu', t) /\ Once(toSu', t) /\ Only(toSu', t, cmd[t])
    BY <1>2, <2>1, GrowsBy DEF OwnFrame
  <2> QED BY <1>1, <1>2, <2>2 DEF OwnFrame, Has, Once, Only
<1>4. CASE ~(Len(toSu) < MaxToSu)
  <2>1. Lost(<<[id |-> cmd[t], owner |-> t]>>) /\ toSu' = toSu
    BY <1>1, <1>4 DEF Transmits
  <2>2. missed'[t]
    BY <2>1, LostFrames
  <2> QED BY <1>1, <1>2, <2>1, <2>2 DEF OwnFrame, Has, Once, Only
<1> QED BY <1>3, <1>4

LEMMA CallOwn ==
  ASSUME TypeInv, mishap' \in {"none", "lost"}, NEW t \in Task, OwnFrame(t),
         BeginCall(t) \/ CallStep(t)
  PROVE  OwnFrame(t)'
<1> USE DEF slot, wire, calls, observers, Goto
<1>0. pc \in [Task -> Labels] /\ cmd \in [Task -> Command \cup {"none"}] /\ missed \in [Task -> BOOLEAN]
  BY DEF TypeInv
<1>1. CASE BeginCall(t)
  <2>1. PICK c \in Command : Arm(t, c)
    BY <1>1 DEF BeginCall
  <2>2. /\ pc[t] = "idle" /\ pc'[t] = "clear" /\ waiting'
        /\ UNCHANGED <<semaphore, pending, receiver, toSu, toCu>>
    BY <1>0, <2>1 DEF Arm
  <2>3. ~Has(toSu, t) /\ ~Has(toCu, t) /\ receiver = "idle" /\ ~semaphore
    BY <2>2 DEF OwnFrame
  <2> QED BY <2>2, <2>3 DEF OwnFrame, Has, Once, Only
<1>2. CASE Clear(t)
  <2>1. /\ pc[t] = "clear" /\ pc'[t] = "send" /\ ~semaphore'
        /\ UNCHANGED <<waiting, pending, receiver, toSu, toCu, cmd>>
    BY <1>0, <1>2 DEF Clear
  <2> QED BY <2>1 DEF OwnFrame, Has, Once, Only
<1>3. CASE Send(t)
  BY <1>3, SendOwn
<1>4. CASE Take(t)
  <2>1. /\ pc[t] = "take" /\ pc'[t] = "conclude" /\ semaphore /\ ~semaphore'
        /\ UNCHANGED <<waiting, pending, receiver, toSu, toCu, cmd>>
    BY <1>0, <1>4 DEF Take
  <2>2. ~Has(toSu, t) /\ ~Has(toCu, t) /\ receiver # "give"
    BY <2>1 DEF OwnFrame
  <2> QED BY <2>1, <2>2 DEF OwnFrame, Has, Once, Only, TypeInv
<1>5. CASE TimeOut(t)
  <2>1. /\ pc[t] = "take" /\ pc'[t] = "giveup" /\ ~semaphore
        /\ UNCHANGED <<semaphore, waiting, pending, receiver, toSu, toCu, cmd, missed>>
    BY <1>0, <1>5 DEF TimeOut
  <2>2. ~Underway(t)
    BY <1>5, Worsened DEF TimeOut
  <2>3. ~Has(toSu, t) /\ ~Has(toCu, t) /\ receiver = "idle"
    BY <2>2 DEF Underway, Has, TypeInv
  <2> QED BY <2>1, <2>3 DEF OwnFrame, Has, Once, Only
<1>6. CASE GiveUp(t)
  <2>1. /\ pc[t] = "giveup" /\ pc'[t] = "idle"
        /\ UNCHANGED <<semaphore, pending, receiver, toSu, toCu, missed>>
    BY <1>0, <1>6 DEF GiveUp, Return
  <2> QED BY <2>1 DEF OwnFrame, Has, Once, Only
<1>7. CASE Conclude(t)
  <2>1. /\ pc[t] = "conclude" /\ pc'[t] = "idle"
        /\ UNCHANGED <<semaphore, pending, receiver, toSu, toCu, missed>>
    BY <1>0, <1>7 DEF Conclude, Return
  <2> QED BY <2>1 DEF OwnFrame, Has, Once, Only
<1> QED BY <1>1, <1>2, <1>3, <1>4, <1>5, <1>6, <1>7 DEF CallStep

LEMMA Owners ==
  /\ \A r \in Requests : r.owner \in Task \cup {Nobody} /\ (r.owner = Nobody => r.id = "PING")
  /\ \A r \in Responses : /\ r.owner \in Task \cup {Nobody} /\ r.kind = "response"
                          /\ (r.id # "PING" => r.owner \in Task)
  /\ \A e \in Events : e.owner = Nobody /\ e.kind = "event"
  /\ Nobody \notin Task
BY LinkAssumption DEF Requests, Responses, Events, Nobody

LEMMA ReceiverOwn ==
  ASSUME OneCaller, TypeInv, NEW t \in Task, OwnFrame(t), Expects(t), ProcessFrame
  PROVE  OwnFrame(t)'
<1>1. CASE Give
  <2>1. /\ receiver = "give" /\ receiver' = "idle" /\ ~waiting' /\ semaphore'
        /\ UNCHANGED <<pending, pc, cmd, toSu, toCu, missed>>
    BY <1>1 DEF Give, calls, wire, observers
  <2>2. pc[t] = "take" /\ ~Has(toSu, t) /\ ~Has(toCu, t)
    BY <2>1 DEF OwnFrame
  <2> QED BY <2>1, <2>2 DEF OwnFrame, Has, Once, Only
<1>2. CASE Accept \/ Discard \/ FollowEvent
  <2> DEFINE f == Head(toCu)
  <2>1. /\ receiver = "idle" /\ toCu # <<>> /\ toCu' = Tail(toCu)
        /\ UNCHANGED <<expected, waiting, semaphore, pc, cmd, toSu, missed>>
    BY <1>2 DEF Accept, Discard, FollowEvent, Arriving, slot, calls, observers
  <2>2. /\ Has(toCu, t) <=> Has(toCu', t) \/ f.owner = t
        /\ Once(toCu', t) /\ (f.owner = t => ~Has(toCu', t))
        /\ Only(toCu', t, cmd[t]) /\ (f.owner = t => f.id = cmd[t])
    BY <2>1, ShrinksBy DEF TypeInv, OwnFrame
  <2>3. f \in Responses \cup Events
    BY <2>1, Tailed DEF TypeInv
  <2>4. /\ ~Has(toSu, t)' <=> ~Has(toSu, t)
        /\ Once(toSu, t)' <=> Once(toSu, t)
        /\ Only(toSu, t, cmd[t])' <=> Only(toSu, t, cmd[t])
    BY <2>1 DEF Has, Once, Only
  <2>5. Has(toCu, t)' <=> Has(toCu', t)
    BY DEF Has
  <2>6. Once(toCu, t)' <=> Once(toCu', t)
    BY DEF Once
  <2>7. Only(toCu, t, cmd[t])' <=> Only(toCu', t, cmd[t])
    BY <2>1 DEF Only
  <2> HIDE DEF f
  <2>8. CASE Accept
    <3>1. pending' = f /\ receiver' = "give" /\ waiting /\ f.kind = "response" /\ f.id = expected
      BY <2>8 DEF Accept, Matches, f
    <3>2. f.owner = t
      <4>1. f \in Responses /\ f.id # "PING"
        BY <2>3, <3>1, Owners, LinkAssumption DEF TypeInv
      <4> QED BY <4>1, Owners DEF OneCaller
    <3>3. Has(toCu, t) /\ ~Has(toSu, t) /\ ~semaphore /\ pc[t] = "take"
      BY <2>2, <3>2 DEF OwnFrame
    <3> QED BY <2>1, <2>2, <2>4, <2>5, <2>6, <2>7, <3>1, <3>2, <3>3 DEF OwnFrame
  <2>9. CASE Discard
    <3>1. UNCHANGED <<pending, receiver>> /\ f.kind = "response" /\ ~(waiting /\ f.id = expected)
      BY <2>9 DEF Discard, Matches, slot, f
    <3>2. f.owner # t
      <4> SUFFICES ASSUME f.owner = t PROVE FALSE
        OBVIOUS
      <4>1. Has(toCu, t) /\ f.id = cmd[t]
        BY <2>2
      <4>2. pc[t] = "take" /\ ~semaphore
        BY <4>1 DEF OwnFrame
      <4> QED BY <3>1, <4>1, <4>2 DEF OwnFrame, Expects
    <3> QED BY <2>1, <2>2, <2>4, <2>5, <2>6, <2>7, <3>1, <3>2 DEF OwnFrame
  <2>10. CASE FollowEvent
    <3>1. UNCHANGED <<pending, receiver>> /\ f.kind = "event"
      BY <2>10 DEF FollowEvent, slot, f
    <3>2. f.owner # t
      BY <2>3, <3>1, Owners
    <3> QED BY <2>1, <2>2, <2>4, <2>5, <2>6, <2>7, <3>1, <3>2 DEF OwnFrame
  <2> QED BY <1>2, <2>8, <2>9, <2>10
<1> QED BY <1>1, <1>2 DEF ProcessFrame

(* The calls stand still while their frames move. *)
LEMMA WireOwn ==
  ASSUME NEW t \in Task, OwnFrame(t),
         UNCHANGED <<waiting, semaphore, pending, receiver, pc, cmd>>,
         Once(toSu', t), Once(toCu', t), Only(toSu', t, cmd[t]), Only(toCu', t, cmd[t]),
         Has(toSu', t) => ~Has(toCu', t),
         Has(toSu', t) \/ Has(toCu', t) => Has(toSu, t) \/ Has(toCu, t),
         missed[t] => missed'[t],
         Has(toSu, t) \/ Has(toCu, t) => Has(toSu', t) \/ Has(toCu', t) \/ missed'[t]
  PROVE  OwnFrame(t)'
<1>1. /\ Has(toSu, t)' <=> Has(toSu', t)
      /\ Has(toCu, t)' <=> Has(toCu', t)
  BY DEF Has
<1>2. Once(toSu, t)' /\ Once(toCu, t)'
  BY DEF Once
<1>3. Only(toSu, t, cmd[t])' /\ Only(toCu, t, cmd[t])'
  BY DEF Only
<1> QED BY <1>1, <1>2, <1>3 DEF OwnFrame

LEMMA UnitOwn ==
  ASSUME OneCaller, TypeInv, NEW t \in Task, OwnFrame(t),
         HandleCommand \/ MotorChanges \/ Trip \/ RestEnds \/ TimePasses \/ SuRestarts
         \/ LoseFrame \/ KeepAlive
  PROVE  OwnFrame(t)'
<1>1. /\ UNCHANGED <<waiting, semaphore, pending, receiver, pc, cmd>>
      /\ toSu \in Seq(Requests) /\ toCu \in Seq(Responses \cup Events)
      /\ Once(toSu, t) /\ Once(toCu, t) /\ Only(toSu, t, cmd[t]) /\ Only(toCu, t, cmd[t])
      /\ Has(toSu, t) => ~Has(toCu, t)
  BY Apart DEF TypeInv, OwnFrame
<1>2. CASE HandleCommand
  <2> DEFINE r == Head(toSu)
  <2>1. /\ toSu # <<>> /\ toSu' = Tail(toSu) /\ missed' = missed
    BY <1>2 DEF HandleCommand, Unmoved, observers
  <2>2. PICK code \in StatusCode : toCu' = Append(toCu, Reply(r.id, code, r.owner))
    BY <1>2 DEF HandleCommand, Says
  <2>3. r \in Requests
    BY <1>1, <2>1, Tailed
  <2> DEFINE f == Reply(r.id, code, r.owner)
  <2>4. f \in Responses \cup Events /\ f.owner = r.owner /\ f.id = r.id /\ toCu' = Append(toCu, f)
    BY <2>2, <2>3, ReplyType DEF Reply
  <2>5. /\ Has(toSu, t) <=> Has(toSu', t) \/ r.owner = t
        /\ Once(toSu', t) /\ (r.owner = t => ~Has(toSu', t))
        /\ Only(toSu', t, cmd[t]) /\ (r.owner = t => r.id = cmd[t])
    BY <1>1, <2>1, ShrinksBy
  <2> HIDE DEF f, r
  <2>6. /\ Has(toCu', t) <=> Has(toCu, t) \/ f.owner = t
        /\ Once(toCu, t) /\ (f.owner = t => ~Has(toCu, t)) => Once(toCu', t)
        /\ Only(toCu, t, cmd[t]) /\ (f.owner = t => f.id = cmd[t]) => Only(toCu', t, cmd[t])
    BY <1>1, <2>4, GrowsBy
  <2> QED BY <1>1, <2>1, <2>4, <2>5, <2>6, WireOwn
<1>3. ASSUME NEW e \in {"PUMP_STARTED", "PUMP_STOPPED", "COOLDOWN_STARTED", "COOLDOWN_ENDED"},
             Says(Event(e)), toSu' = toSu, missed' = missed
      PROVE  OwnFrame(t)'
  <2>1. Event(e) \in Responses \cup Events /\ Event(e).owner # t
    BY EventType, Owners
  <2>2. toCu' = Append(toCu, Event(e))
    BY <1>3 DEF Says
  <2>3. /\ Has(toCu', t) <=> Has(toCu, t)
        /\ Once(toCu', t) /\ Only(toCu', t, cmd[t])
    BY <1>1, <2>1, <2>2, GrowsBy
  <2> QED BY <1>1, <1>3, <2>3, WireOwn
<1>4. CASE MotorChanges \/ Trip \/ RestEnds
  BY <1>3, <1>4 DEF MotorChanges, Trip, RestEnds, Unmoved, observers
<1>5. CASE TimePasses
  BY <1>1, <1>5, WireOwn DEF TimePasses, Unmoved, observers, wire
<1>6. CASE SuRestarts
  <2>1. toSu' = <<>> /\ Lost(toSu) /\ toCu' = toCu
    BY <1>6 DEF SuRestarts
  <2>2. (missed[t] => missed'[t]) /\ (Has(toSu, t) => missed'[t])
    BY <2>1, LostFrames DEF Has
  <2> QED BY <1>1, <2>1, <2>2, NoFrames, WireOwn
<1>7. CASE LoseFrame
  <2>1. ASSUME toSu # <<>>, toSu' = Tail(toSu), Lost(<<Head(toSu)>>), toCu' = toCu
        PROVE  OwnFrame(t)'
    <3>1. (missed[t] => missed'[t]) /\ (Head(toSu).owner = t => missed'[t])
      BY <2>1, LostFrames
    <3>2. /\ Has(toSu, t) <=> Has(toSu', t) \/ Head(toSu).owner = t
          /\ Once(toSu', t) /\ Only(toSu', t, cmd[t])
      BY <1>1, <2>1, ShrinksBy
    <3> QED BY <1>1, <2>1, <3>1, <3>2, WireOwn
  <2>2. ASSUME toCu # <<>>, toCu' = Tail(toCu), Lost(<<Head(toCu)>>), toSu' = toSu
        PROVE  OwnFrame(t)'
    <3>1. (missed[t] => missed'[t]) /\ (Head(toCu).owner = t => missed'[t])
      BY <2>2, LostFrames
    <3>2. /\ Has(toCu, t) <=> Has(toCu', t) \/ Head(toCu).owner = t
          /\ Once(toCu', t) /\ Only(toCu', t, cmd[t])
      BY <1>1, <2>2, ShrinksBy
    <3> QED BY <1>1, <2>2, <3>1, <3>2, WireOwn
  <2> QED BY <1>7, <2>1, <2>2 DEF LoseFrame
<1>8. CASE KeepAlive
  <2> DEFINE f == [id |-> "PING", owner |-> Nobody]
  <2>1. f \in Requests /\ f.owner # t /\ Transmits(f) /\ toCu' = toCu
    BY <1>8, Owners DEF KeepAlive, Requests
  <2> HIDE DEF f
  <2>2. CASE Len(toSu) < MaxToSu
    <3>1. toSu' = Append(toSu, f) /\ missed' = missed
      BY <2>1, <2>2 DEF Transmits, observers
    <3>2. /\ Has(toSu', t) <=> Has(toSu, t)
          /\ Once(toSu', t) /\ Only(toSu', t, cmd[t])
      BY <1>1, <2>1, <3>1, GrowsBy
    <3> QED BY <1>1, <2>1, <3>1, <3>2, WireOwn
  <2>3. CASE ~(Len(toSu) < MaxToSu)
    <3>1. toSu' = toSu /\ Lost(<<f>>)
      BY <2>1, <2>3 DEF Transmits
    <3>2. missed[t] => missed'[t]
      BY <3>1, LostFrames
    <3> QED BY <1>1, <2>1, <3>1, <3>2, WireOwn
  <2> QED BY <2>2, <2>3
<1> QED BY <1>2, <1>4, <1>5, <1>6, <1>7, <1>8

LEMMA NextOwn == OneCaller /\ TypeInv /\ MatchInv /\ OwnInv /\ [Next]_vars => OwnInv'
<1> SUFFICES ASSUME OneCaller, TypeInv, MatchInv, OwnInv, [Next]_vars,
                    mishap' \in {"none", "lost"}, NEW u \in Task
             PROVE  OwnFrame(u)'
  BY DEF OwnInv
<1>1. OwnFrame(u) /\ Expects(u)
  BY Remembered DEF OwnInv, MatchInv
<1>2. ASSUME NEW t \in Task, BeginCall(t) \/ CallStep(t) PROVE OwnFrame(u)'
  <2>1. t = u
    BY DEF OneCaller
  <2> QED BY <1>1, <1>2, <2>1, CallOwn
<1>3. CASE ProcessFrame
  BY <1>1, <1>3, ReceiverOwn
<1>4. CASE HandleCommand \/ MotorChanges \/ Trip \/ RestEnds \/ TimePasses \/ SuRestarts
           \/ LoseFrame \/ KeepAlive
  BY <1>1, <1>4, UnitOwn
<1>5. CASE UNCHANGED vars
  BY <1>1, <1>5 DEF vars, slot, calls, wire, observers, OwnFrame, Has, Once, Only
<1> QED BY <1>2, <1>3, <1>4, <1>5 DEF Next

-----------------------------------------------------------------------------
(* What the unit believes.                                                 *)
(*                                                                         *)
(* While the Switching Unit holds a running motor under its command, a     *)
(* frame that says "stopped" is never the last word on the wire: every     *)
(* PUMP_STOPPED is followed by a frame that raises _motorRunning again,    *)
(* and the flag is TRUE, or such a frame is on its way, or such an answer  *)
(* waits for the call to conclude.  A stop that the unit still has to      *)
(* conclude has not been carried out.                                      *)
Raises(f) == \/ f.kind = "event" /\ f.id = "PUMP_STARTED"
             \/ f.kind = "response" /\ f.id = "ON" /\ f.code = "OK"
Lowers(f) == f.kind = "event" /\ f.id = "PUMP_STOPPED"

Rising(q) == \E i \in DOMAIN q : Raises(q[i])
Settled(q) == \A i \in DOMAIN q : Lowers(q[i]) => \E j \in DOMAIN q : i < j /\ Raises(q[j])

Answered(t) == /\ cmd[t] = "ON" /\ pending.code = "OK"
               /\ receiver = "give" \/ semaphore \/ pc[t] = "conclude"

Fresh == Settled(toCu) /\ (motorRunning \/ Rising(toCu) \/ \E t \in Task : Answered(t))

StopAhead(t) == pc[t] \in {"take", "conclude"} /\ cmd[t] = "OFF" /\ mode = "on" => Has(toSu, t)

BelievedInv ==
  mishap = "none" => /\ \A t \in Task : ~missed[t]
                     /\ \A t \in Task : StopAhead(t)
                     /\ mode = "on" /\ motor => Fresh

LEMMA Grows ==
  ASSUME NEW S, NEW q \in Seq(S), NEW f \in S
  PROVE  /\ Rising(q) \/ Raises(f) => Rising(Append(q, f))
         /\ Raises(f) \/ (Settled(q) /\ ~Lowers(f)) => Settled(Append(q, f))
<1> DEFINE p == Append(q, f)
<1>1. /\ DOMAIN q = 1 .. Len(q) /\ Len(q) \in Nat /\ DOMAIN p = 1 .. Len(q) + 1
      /\ \A i \in 1 .. Len(q) : p[i] = q[i]
      /\ p[Len(q) + 1] = f
  BY Appended
<1> HIDE DEF p
<1>2. \A i \in DOMAIN p : (i \in DOMAIN q /\ p[i] = q[i] /\ i < Len(q) + 1) \/ (i = Len(q) + 1 /\ p[i] = f)
  BY <1>1
<1>3. \A i \in DOMAIN q : i \in DOMAIN p /\ p[i] = q[i]
  BY <1>1
<1>4. Len(q) + 1 \in DOMAIN p /\ p[Len(q) + 1] = f
  BY <1>1
<1>5. Rising(q) \/ Raises(f) => Rising(p)
  BY <1>3, <1>4 DEF Rising
<1>6. Raises(f) => ~Lowers(f)
  BY DEF Raises, Lowers
<1>7. Raises(f) => Settled(p)
  BY <1>2, <1>4, <1>6 DEF Settled
<1>8. Settled(q) /\ ~Lowers(f) => Settled(p)
  BY <1>2, <1>3 DEF Settled
<1> QED BY <1>5, <1>7, <1>8 DEF p

LEMMA Shrinks ==
  ASSUME NEW S, NEW q \in Seq(S), q # <<>>, Settled(q)
  PROVE  /\ Settled(Tail(q))
         /\ Lowers(Head(q)) => Rising(Tail(q))
         /\ Rising(q) /\ ~Raises(Head(q)) => Rising(Tail(q))
<1> DEFINE p == Tail(q)
<1>1. /\ Len(q) \in Nat \ {0} /\ DOMAIN q = 1 .. Len(q) /\ DOMAIN p = 1 .. Len(q) - 1
      /\ \A i \in 1 .. Len(q) - 1 : p[i] = q[i + 1]
      /\ Head(q) = q[1]
  BY Tailed
<1> HIDE DEF p
<1>2. \A i \in DOMAIN p : i \in Nat /\ i + 1 \in DOMAIN q /\ p[i] = q[i + 1]
  BY <1>1
<1>3. \A i \in DOMAIN q : i \in Nat /\ i # 1 => i - 1 \in DOMAIN p /\ q[i] = p[i - 1]
  <2> SUFFICES ASSUME NEW i \in DOMAIN q, i # 1
               PROVE  i - 1 \in DOMAIN p /\ q[i] = p[i - 1]
    OBVIOUS
  <2>1. i - 1 \in 1 .. Len(q) - 1 /\ (i - 1) + 1 = i
    BY <1>1
  <2> QED BY <1>1, <2>1
<1>4. 1 \in DOMAIN q /\ q[1] = Head(q) /\ \A i \in DOMAIN q : i \in Nat
  BY <1>1
<1>5. ASSUME NEW i \in DOMAIN p, Lowers(p[i])
      PROVE  \E j \in DOMAIN p : i < j /\ Raises(p[j])
  <2>1. PICK k \in DOMAIN q : i + 1 < k /\ Raises(q[k])
    BY <1>2, <1>5 DEF Settled
  <2>2. k \in Nat /\ i \in Nat /\ k # 1 /\ i < k - 1
    BY <1>2, <1>4, <2>1
  <2> QED BY <1>3, <2>1, <2>2
<1>6. ASSUME Lowers(Head(q)) PROVE Rising(p)
  <2>1. PICK k \in DOMAIN q : 1 < k /\ Raises(q[k])
    BY <1>4, <1>6 DEF Settled
  <2> QED BY <1>3, <1>4, <2>1 DEF Rising
<1>7. ASSUME Rising(q), ~Raises(Head(q)) PROVE Rising(p)
  BY <1>3, <1>4, <1>7 DEF Rising
<1> QED BY <1>5, <1>6, <1>7 DEF p, Settled

LEMMA InitBelieved == Init => BelievedInv
BY DEF Init, BelievedInv, StopAhead, Actuator!Init

(* The steps of the one call. *)
LEMMA CallBelieved ==
  ASSUME OneCaller, "STATUS" \notin Command, TypeInv, mishap = "none", mishap' = "none",
         NEW t \in Task, OwnFrame(t), BelievedInv, BeginCall(t) \/ CallStep(t)
  PROVE  BelievedInv'
<1> USE DEF slot, wire, calls, observers, actuator, Goto
<1>0. /\ pc \in [Task -> Labels] /\ cmd \in [Task -> Command \cup {"none"}]
      /\ missed \in [Task -> BOOLEAN] /\ \A u \in Task : u = t
      /\ ~missed[t] /\ StopAhead(t) /\ (mode = "on" /\ motor => Fresh)
  BY DEF TypeInv, OneCaller, BelievedInv
<1>1. UNCHANGED <<mode, motor, toCu>>
  BY DEF BeginCall, CallStep, Arm, Clear, Send, Take, TimeOut, GiveUp, Conclude
<1>2. ASSUME ~missed'[t], StopAhead(t)', motorRunning => motorRunning', Answered(t) => Answered(t)'
      PROVE  BelievedInv'
  <2>1. Fresh => Fresh'
    BY <1>0, <1>1, <1>2 DEF Fresh, Settled, Rising
  <2> QED BY <1>0, <1>1, <1>2, <2>1 DEF BelievedInv
<1>3. CASE BeginCall(t)
  <2>1. PICK c \in Command : Arm(t, c)
    BY <1>3 DEF BeginCall
  <2>2. pc[t] = "idle" /\ pc'[t] = "clear" /\ ~missed'[t] /\ motorRunning' = motorRunning
    BY <1>0, <2>1 DEF Arm
  <2>3. ~Answered(t)
    BY <2>2 DEF OwnFrame, Answered
  <2> QED BY <1>2, <2>2, <2>3 DEF StopAhead
<1>4. CASE Clear(t)
  <2>1. pc[t] = "clear" /\ pc'[t] = "send" /\ UNCHANGED <<missed, motorRunning>>
    BY <1>0, <1>4 DEF Clear
  <2>2. ~Answered(t)
    BY <2>1 DEF OwnFrame, Answered
  <2> QED BY <1>0, <1>2, <2>1, <2>2 DEF StopAhead
<1>5. CASE Send(t)
  <2>1. /\ pc[t] = "send" /\ Transmits([id |-> cmd[t], owner |-> t])
        /\ UNCHANGED motorRunning
    BY <1>5 DEF Send
  <2>2. ~Answered(t)
    BY <2>1 DEF OwnFrame, Answered
  <2>3. ~Lost(<<[id |-> cmd[t], owner |-> t]>>)
    BY LostFrames
  <2>4. toSu' = Append(toSu, [id |-> cmd[t], owner |-> t]) /\ missed' = missed
    BY <2>1, <2>3 DEF Transmits
  <2>5. Has(toSu', t)
    <3>1. [id |-> cmd[t], owner |-> t] \in Requests /\ toSu \in Seq(Requests)
      BY <2>1 DEF TypeInv, Requests
    <3> QED BY <2>4, <3>1, GrowsBy
  <2> QED BY <1>0, <1>2, <2>1, <2>2, <2>4, <2>5 DEF StopAhead, Has
<1>6. CASE Take(t)
  <2>1. /\ pc[t] = "take" /\ pc'[t] = "conclude"
        /\ UNCHANGED <<missed, motorRunning, cmd, toSu, pending>>
    BY <1>0, <1>6 DEF Take
  <2>2. StopAhead(t)'
    BY <1>0, <1>1, <2>1 DEF StopAhead, Has
  <2> QED BY <1>0, <1>2, <2>1, <2>2 DEF Answered
<1>7. CASE TimeOut(t)
  <2>1. ~Underway(t) /\ pc[t] = "take" /\ ~semaphore
    BY <1>7, Worsened DEF TimeOut
  <2>2. ~Has(toSu, t) /\ ~Has(toCu, t) /\ receiver = "idle"
    BY <2>1 DEF Underway, Has, TypeInv
  <2> QED BY <1>0, <2>1, <2>2 DEF OwnFrame
<1>8. CASE GiveUp(t)
  BY <1>0, <1>8 DEF GiveUp, OwnFrame
<1>9. CASE Conclude(t)
  <2>1. /\ pc[t] = "conclude" /\ pc'[t] = "idle" /\ missed' = missed
        /\ motorRunning' = Believed(cmd[t], pending.code)
    BY <1>0, <1>9 DEF Conclude, Return
  <2>2. ~missed'[t] /\ StopAhead(t)'
    BY <1>0, <2>1 DEF StopAhead
  <2>3. ASSUME mode = "on", motor PROVE Fresh'
    <3>1. Fresh /\ cmd[t] \notin {"OFF", "STATUS"}
      BY <1>0, <2>1, <2>3 DEF StopAhead, OwnFrame
    <3>2. motorRunning' = (motorRunning \/ (cmd[t] = "ON" /\ pending.code = "OK"))
      BY <2>1, <3>1 DEF Believed, TypeInv
    <3>3. motorRunning \/ Rising(toCu) \/ Answered(t) => motorRunning' \/ Rising(toCu)
      BY <3>2 DEF Answered
    <3>4. Settled(toCu)' /\ (motorRunning' \/ Rising(toCu)')
      BY <1>0, <1>1, <3>1, <3>3 DEF Fresh, Settled, Rising
    <3> QED BY <3>4 DEF Fresh
  <2> QED BY <1>0, <1>1, <2>2, <2>3 DEF BelievedInv
<1> QED BY <1>3, <1>4, <1>5, <1>6, <1>7, <1>8, <1>9 DEF CallStep

(* An answer that the RX task accepts is the open call's, one that it      *)
(* drops is nobody's.                                                      *)
LEMMA Delivered ==
  ASSUME TypeInv, NEW t \in Task, OneCaller, OwnFrame(t), Expects(t), toCu # <<>>,
         Head(toCu).kind = "response"
  PROVE  /\ Matches(Head(toCu)) => /\ Head(toCu).owner = t /\ Head(toCu).id = cmd[t]
                                   /\ ~semaphore /\ pc[t] = "take"
         /\ ~Matches(Head(toCu)) => Head(toCu).id = "PING"
<1> DEFINE f == Head(toCu)
<1>1. f \in Responses
  BY Tailed, Owners DEF TypeInv
<1>2. /\ f.owner = t => Has(toCu, t) /\ f.id = cmd[t]
  BY ShrinksBy DEF TypeInv, OwnFrame
<1>3. f.owner = t => ~semaphore /\ pc[t] = "take" /\ Matches(f)
  BY <1>2 DEF OwnFrame, Expects, Matches
<1>4. f.id # "PING" => f.owner = t
  BY <1>1, Owners DEF OneCaller
<1>5. Matches(f) => f.id # "PING"
  BY LinkAssumption DEF Matches, TypeInv
<1> QED BY <1>2, <1>3, <1>4, <1>5

LEMMA ReceiverBelieved ==
  ASSUME OneCaller, TypeInv, mishap = "none", NEW t \in Task, OwnFrame(t), Expects(t),
         BelievedInv, ProcessFrame
  PROVE  BelievedInv'
<1> USE DEF slot, wire, calls, observers, actuator
<1>0. /\ \A u \in Task : u = t
      /\ ~missed[t] /\ StopAhead(t) /\ (mode = "on" /\ motor => Fresh)
  BY DEF OneCaller, BelievedInv
<1>1. UNCHANGED <<mode, motor, toSu, pc, cmd, missed>>
  BY DEF ProcessFrame, Accept, Give, Discard, FollowEvent
<1>2. StopAhead(t)'
  BY <1>0, <1>1 DEF StopAhead, Has
<1>3. ASSUME Fresh => Fresh' PROVE BelievedInv'
  BY <1>0, <1>1, <1>2, <1>3 DEF BelievedInv
<1>4. CASE Give
  <2>1. /\ receiver = "give" /\ semaphore' /\ UNCHANGED <<pending, motorRunning, toCu>>
    BY <1>4 DEF Give
  <2>2. Fresh => Fresh'
    BY <1>0, <1>1, <2>1 DEF Fresh, Settled, Rising, Answered
  <2> QED BY <1>3, <2>2
<1>5. CASE Accept \/ Discard \/ FollowEvent
  <2> DEFINE f == Head(toCu)
  <2>1. /\ receiver = "idle" /\ toCu # <<>> /\ toCu' = Tail(toCu) /\ semaphore' = semaphore
    BY <1>5 DEF Accept, Discard, FollowEvent, Arriving
  <2>2. ASSUME Fresh
        PROVE  /\ Settled(toCu')
               /\ Lowers(f) => Rising(toCu')
               /\ Rising(toCu) /\ ~Raises(f) => Rising(toCu')
    BY <2>1, <2>2, Shrinks DEF Fresh, TypeInv
  <2>3. ASSUME Fresh, Rising(toCu') \/ motorRunning' \/ Answered(t)' PROVE Fresh'
    BY <2>2, <2>3 DEF Fresh, Settled, Rising
  <2>4. CASE Accept
    <3>1. /\ pending' = f /\ receiver' = "give" /\ motorRunning' = motorRunning
          /\ f.kind = "response" /\ Matches(f)
      BY <2>4 DEF Accept, Matches
    <3>2. f.id = cmd[t] /\ ~semaphore /\ pc[t] = "take"
      BY <2>1, <3>1, Delivered
    <3>3. ~Answered(t)
      BY <2>1, <3>2 DEF Answered
    <3>4. Raises(f) => Answered(t)'
      BY <1>1, <3>1, <3>2 DEF Raises, Answered
    <3>5. Fresh => Fresh'
      BY <1>0, <2>2, <2>3, <3>1, <3>3, <3>4 DEF Fresh
    <3> QED BY <1>3, <3>5
  <2>5. CASE Discard
    <3>1. UNCHANGED <<pending, receiver, motorRunning>> /\ f.kind = "response" /\ ~Matches(f)
      BY <2>5 DEF Discard
    <3>2. ~Raises(f)
      BY <2>1, <3>1, Delivered DEF Raises
    <3>3. Answered(t) => Answered(t)'
      BY <1>1, <2>1, <3>1 DEF Answered
    <3>4. Fresh => Fresh'
      BY <1>0, <2>2, <2>3, <3>1, <3>2, <3>3 DEF Fresh
    <3> QED BY <1>3, <3>4
  <2>6. CASE FollowEvent
    <3>1. UNCHANGED <<pending, receiver>> /\ f.kind = "event"
      BY <2>6 DEF FollowEvent
    <3>2. Answered(t) => Answered(t)'
      BY <1>1, <2>1, <3>1 DEF Answered
    <3>3. /\ f.id = "PUMP_STARTED" => motorRunning'
          /\ f.id \notin {"PUMP_STARTED", "PUMP_STOPPED"} => motorRunning' = motorRunning
      BY <2>6 DEF FollowEvent
    <3>4. CASE f.id = "PUMP_STARTED"
      <4>1. Fresh => Fresh'
        BY <2>3, <3>3, <3>4
      <4> QED BY <1>3, <4>1
    <3>5. CASE f.id = "PUMP_STOPPED"
      <4>1. Fresh => Fresh'
        BY <2>2, <2>3, <3>1, <3>5 DEF Lowers
      <4> QED BY <1>3, <4>1
    <3>6. CASE f.id \notin {"PUMP_STARTED", "PUMP_STOPPED"}
      <4>1. ~Raises(f)
        BY <3>1, <3>6 DEF Raises
      <4>2. Fresh => Fresh'
        BY <1>0, <2>2, <2>3, <3>2, <3>3, <3>6, <4>1 DEF Fresh
      <4> QED BY <1>3, <4>2
    <3> QED BY <3>4, <3>5, <3>6
  <2> QED BY <1>5, <2>4, <2>5, <2>6
<1> QED BY <1>4, <1>5 DEF ProcessFrame

(* A request and what it makes of the actuator. *)
LEMMA Handled ==
  ASSUME NEW c \in Command \cup {"PING"}, NEW code \in StatusCode, Carries(c, code), mode' = "on"
  PROVE  /\ c # "OFF"
         /\ mode = "on" \/ (c = "ON" /\ code = "OK")
<1> USE DEF Carries, actuator, Actuator!Start, Actuator!Stop, Actuator!Lock, Actuator!Unlock
<1>1. CASE c = "ON"
  BY <1>1
<1>2. CASE c = "OFF"
  BY <1>2
<1>3. CASE c = "LOCK"
  BY <1>3
<1>4. CASE c = "UNLOCK"
  BY <1>4
<1>5. CASE c \in {"STATUS", "PING"}
  BY <1>5
<1> QED BY <1>1, <1>2, <1>3, <1>4, <1>5, LinkAssumption

LEMMA UnitBelieved ==
  ASSUME OneCaller, TypeInv, mishap = "none", mishap' = "none", NEW t \in Task, OwnFrame(t),
         BelievedInv,
         HandleCommand \/ MotorChanges \/ Trip \/ RestEnds \/ TimePasses \/ SuRestarts
         \/ LoseFrame \/ KeepAlive
  PROVE  BelievedInv'
<1>0. /\ \A u \in Task : u = t
      /\ ~missed[t] /\ StopAhead(t) /\ (mode = "on" /\ motor => Fresh)
      /\ toSu \in Seq(Requests) /\ toCu \in Seq(Responses \cup Events)
      /\ UNCHANGED <<semaphore, pending, receiver, pc, cmd, motorRunning>>
  BY Apart DEF OneCaller, BelievedInv, TypeInv
<1>1. Answered(t)' <=> Answered(t)
  BY <1>0 DEF Answered
<1>2. ASSUME NEW frames, Lost(frames) PROVE frames = <<>>
  BY <1>2, LostFrames
<1>3. ASSUME NEW f \in Responses \cup Events, toCu' = Append(toCu, f),
             Raises(f) \/ (Fresh /\ ~Lowers(f))
      PROVE  Fresh'
  <2>1. /\ Rising(toCu) \/ Raises(f) => Rising(toCu')
        /\ Raises(f) \/ (Settled(toCu) /\ ~Lowers(f)) => Settled(toCu')
    BY <1>0, <1>3, Grows
  <2>2. Settled(toCu') /\ (Rising(toCu') \/ motorRunning' \/ Answered(t)')
    BY <1>0, <1>1, <1>3, <2>1 DEF Fresh
  <2> QED BY <2>2 DEF Fresh, Settled, Rising
<1>4. ASSUME missed' = missed, mode' = "on" => mode = "on" /\ toSu' = toSu,
             mode' = "on" /\ motor' => Fresh'
      PROVE  BelievedInv'
  <2>1. StopAhead(t)'
    BY <1>0, <1>4 DEF StopAhead, Has
  <2> QED BY <1>0, <1>4, <2>1 DEF BelievedInv
<1>5. CASE HandleCommand
  <2> DEFINE r == Head(toSu)
  <2>1. /\ toSu # <<>> /\ toSu' = Tail(toSu) /\ missed' = missed /\ motor' = motor
    BY <1>5 DEF HandleCommand, Unmoved, observers
  <2>2. PICK code \in StatusCode : /\ Carries(r.id, code)
                                   /\ toCu' = Append(toCu, Reply(r.id, code, r.owner))
    BY <1>5 DEF HandleCommand, Says
  <2>3. r \in Requests /\ r.id \in Command \cup {"PING"}
    <3>1. r \in Requests
      BY <1>0, <2>1, Tailed
    <3> QED BY <3>1 DEF Requests
  <2> DEFINE f == Reply(r.id, code, r.owner)
  <2>4. /\ f \in Responses \cup Events /\ toCu' = Append(toCu, f)
        /\ f.kind = "response" /\ f.id = r.id /\ f.code = code
    BY <2>2, <2>3, ReplyType DEF Reply
  <2>5. mode' = "on" => r.id # "OFF" /\ (mode = "on" \/ (r.id = "ON" /\ code = "OK"))
    BY <2>2, <2>3, Handled
  <2>6. /\ Has(toSu, t) <=> Has(toSu', t) \/ r.owner = t
        /\ r.owner = t => r.id = cmd[t]
    BY <1>0, <2>1, ShrinksBy DEF OwnFrame
  <2>7. r.id = "ON" => r.owner = t
    BY <1>0, <2>3, Owners, LinkAssumption
  <2> HIDE DEF f, r
  <2>8. StopAhead(t)'
    <3> SUFFICES ASSUME pc[t] \in {"take", "conclude"}, cmd[t] = "OFF", mode' = "on"
                 PROVE  Has(toSu', t)
      BY <1>0 DEF StopAhead, Has
    <3>1. r.owner # t
      BY <2>5, <2>6
    <3>2. mode = "on"
      BY <2>5, <2>7, <3>1
    <3> QED BY <1>0, <2>6, <3>1, <3>2 DEF StopAhead
  <2>9. ASSUME mode' = "on", motor' PROVE Fresh'
    <3>1. ~Lowers(f) /\ (r.id = "ON" /\ code = "OK" => Raises(f))
      BY <2>4 DEF Lowers, Raises
    <3>2. Raises(f) \/ (Fresh /\ ~Lowers(f))
      BY <1>0, <2>1, <2>5, <2>9, <3>1
    <3> QED BY <1>3, <2>4, <3>2
  <2> QED BY <1>0, <2>1, <2>8, <2>9 DEF BelievedInv
<1>6. CASE MotorChanges
  <2>1. /\ motor' = ~motor /\ Says(Event(IF motor' THEN "PUMP_STARTED" ELSE "PUMP_STOPPED"))
        /\ UNCHANGED <<toSu, mode, missed>>
    BY <1>6 DEF MotorChanges, Unmoved, observers, actuator
  <2>2. ASSUME motor' PROVE Fresh'
    <3>1. toCu' = Append(toCu, Event("PUMP_STARTED"))
      BY <2>1, <2>2 DEF Says
    <3>2. Event("PUMP_STARTED") \in Events /\ Raises(Event("PUMP_STARTED"))
      BY EventType DEF Event, Raises
    <3> QED BY <1>3, <3>1, <3>2
  <2> QED BY <1>4, <2>1, <2>2
<1>7. CASE Trip \/ RestEnds \/ SuRestarts
  <2>1. mode' # "on"
    BY <1>7 DEF Trip, RestEnds, SuRestarts, Actuator!Stop, Actuator!Recover, Actuator!PowerCycle
  <2>2. missed' = missed
    <3>1. CASE SuRestarts
      <4>1. Lost(toSu) /\ toSu = <<>>
        BY <1>2, <3>1 DEF SuRestarts
      <4> QED BY <4>1, LostFrames DEF TypeInv
    <3> QED BY <1>7, <3>1 DEF Trip, RestEnds, Unmoved, observers
  <2> QED BY <1>4, <2>1, <2>2
<1>8. CASE TimePasses
  <2>1. UNCHANGED <<missed, motor, toSu, toCu, mode>>
    BY <1>8 DEF TimePasses, Unmoved, observers, wire, Actuator!DropWinding, Actuator!Rest
  <2>2. Fresh => Fresh'
    BY <1>0, <1>1, <2>1 DEF Fresh, Settled, Rising
  <2> QED BY <1>0, <1>4, <2>1, <2>2
<1>9. CASE LoseFrame
  <2>1. \E f : Lost(<<f>>)
    BY <1>9 DEF LoseFrame
  <2> QED BY <1>2, <2>1
<1>10. CASE KeepAlive
  <2> DEFINE f == [id |-> "PING", owner |-> Nobody]
  <2>1. Transmits(f) /\ f \in Requests /\ UNCHANGED <<toCu, mode, motor>>
    BY <1>10 DEF KeepAlive, actuator, Requests
  <2>2. toSu' = Append(toSu, f) /\ missed' = missed
    BY <1>2, <2>1 DEF Transmits, observers
  <2>3. Has(toSu, t) => Has(toSu', t)
    BY <1>0, <2>1, <2>2, GrowsBy
  <2>4. StopAhead(t)'
    BY <1>0, <2>1, <2>3 DEF StopAhead, Has
  <2>5. Fresh => Fresh'
    BY <1>0, <1>1, <2>1 DEF Fresh, Settled, Rising
  <2> QED BY <1>0, <2>1, <2>2, <2>4, <2>5 DEF BelievedInv
<1> QED BY <1>5, <1>6, <1>7, <1>8, <1>9, <1>10

LEMMA NextBelieved ==
  OneCaller /\ "STATUS" \notin Command /\ TypeInv /\ MatchInv /\ OwnInv /\ BelievedInv /\ [Next]_vars
  => BelievedInv'
<1> SUFFICES ASSUME OneCaller, "STATUS" \notin Command, TypeInv, MatchInv, OwnInv, BelievedInv,
                    [Next]_vars, mishap' = "none"
             PROVE  BelievedInv'
  BY DEF BelievedInv
<1>1. PICK t \in Task : \A u \in Task : u = t
  BY DEF OneCaller
<1>2. mishap = "none" /\ OwnFrame(t) /\ Expects(t)
  BY Remembered DEF OwnInv, MatchInv
<1>3. ASSUME NEW u \in Task, BeginCall(u) \/ CallStep(u) PROVE BelievedInv'
  <2>1. BeginCall(t) \/ CallStep(t)
    BY <1>1, <1>3
  <2> QED BY <1>2, <2>1, CallBelieved
<1>4. CASE ProcessFrame
  BY <1>2, <1>4, ReceiverBelieved
<1>5. CASE HandleCommand \/ MotorChanges \/ Trip \/ RestEnds \/ TimePasses \/ SuRestarts
           \/ LoseFrame \/ KeepAlive
  BY <1>2, <1>5, UnitBelieved
<1>6. CASE UNCHANGED vars
  BY <1>6 DEF vars, slot, calls, wire, observers, actuator, BelievedInv, StopAhead, Has, Fresh,
              Settled, Rising, Answered
<1> QED BY <1>3, <1>4, <1>5, <1>6 DEF Next

-----------------------------------------------------------------------------
(* The theorems. *)

LEMMA TypesKept == Spec => []TypeInv
BY InitTypes, NextTypes, PTL DEF Spec

LEMMA MatchKept == OneCaller => (Spec => []MatchInv)
<1> SUFFICES ASSUME OneCaller PROVE Spec => []MatchInv
  OBVIOUS
<1>1. TypeInv /\ MatchInv /\ [Next]_vars => MatchInv'
  BY NextMatch
<1> QED BY <1>1, InitMatch, TypesKept, PTL DEF Spec

LEMMA OwnKept == OneCaller => (Spec => []OwnInv)
<1> SUFFICES ASSUME OneCaller PROVE Spec => []OwnInv
  OBVIOUS
<1>1. TypeInv /\ MatchInv /\ OwnInv /\ [Next]_vars => OwnInv'
  BY NextOwn
<1>2. Spec => []MatchInv
  BY MatchKept
<1> QED BY <1>1, <1>2, InitOwn, TypesKept, PTL DEF Spec

(* The types, and, for one caller, whose answer a call of                  *)
(* executeTransaction concludes from: its own command's as long as no call *)
(* began in the middle of processFrame, and its own frame's as long as no  *)
(* answer came too late.                                                   *)
THEOREM AnswersBelong == OneCaller => (Spec => []AnswerInv)
<1> SUFFICES ASSUME OneCaller PROVE Spec => []AnswerInv
  OBVIOUS
<1>1. TypeInv => TypeOK
  <2> SUFFICES ASSUME TypeInv PROVE TypeOK
    OBVIOUS
  <2>1. \E i \in DOMAIN Mishap : mishap = Mishap[i]
    <3>1. DOMAIN Mishap = 1 .. 4 /\ Mishap[1] = "none" /\ Mishap[2] = "lost"
          /\ Mishap[3] = "late" /\ Mishap[4] = "crossed"
      BY DEF Mishap
    <3> QED BY <3>1 DEF TypeInv, Mishaps
  <2>2. \A f \in Frames(toSu) : f.id \in Command \cup {"PING"}
    <3>1. \A r \in Requests : r.id \in Command \cup {"PING"}
      BY DEF Requests
    <3>2. \A i \in DOMAIN toSu : toSu[i] \in Requests
      BY ElementOfSeq, LenProperties DEF TypeInv
    <3> QED BY <3>1, <3>2 DEF Frames
  <2>3. \A f \in Frames(toCu) : f.kind \in {"response", "event"}
    <3>1. \A f \in Responses \cup Events : f.kind \in {"response", "event"}
      BY DEF Responses, Events
    <3>2. \A i \in DOMAIN toCu : toCu[i] \in Responses \cup Events
      BY ElementOfSeq, LenProperties DEF TypeInv
    <3> QED BY <3>1, <3>2 DEF Frames
  <2> QED BY <2>1, <2>2, <2>3 DEF TypeInv, TypeOK, Labels
<1>2. MatchInv => AnswerMatchesCommand
  BY DEF MatchInv, Expects, AnswerMatchesCommand
<1>3. OwnInv => OwnAnswer
  BY DEF OwnInv, OwnFrame, OwnAnswer
<1>4. Spec => []MatchInv /\ []OwnInv
  BY MatchKept, OwnKept
<1>5. TypeInv /\ MatchInv /\ OwnInv => AnswerInv
  BY <1>1, <1>2, <1>3 DEF AnswerInv
<1> QED BY <1>4, <1>5, TypesKept, PTL

(* One caller's executeTransaction gives up only when its frame, or the    *)
(* answer to it, was lost or is late: no answer is dropped between the     *)
(* statements of the call.                                                 *)
THEOREM TimeOutsAreLosses == OneCaller => (Spec => []OnlyLossTimesOut)
<1> SUFFICES ASSUME OneCaller PROVE Spec => []OnlyLossTimesOut
  OBVIOUS
<1>1. OwnInv => OnlyLossTimesOut
  BY DEF OwnInv, OwnFrame, OnlyLossTimesOut
<1>2. Spec => []OwnInv
  BY OwnKept
<1> QED BY <1>1, <1>2, PTL

(* One caller that uses every command but the query of the status, which   *)
(* nothing in the Control Unit calls: unless a frame was lost or late, it  *)
(* never takes a motor that runs under the Switching Unit's command for    *)
(* stopped once the wire is silent.  With the query it would: the answer   *)
(* "stopped" can be concluded after the PUMP_STARTED that followed it.     *)
THEOREM RunningKnown == OneCaller /\ "STATUS" \notin Command => (Spec => []RunningIsBelieved)
<1> SUFFICES ASSUME OneCaller, "STATUS" \notin Command PROVE Spec => []RunningIsBelieved
  OBVIOUS
<1>1. TypeInv /\ MatchInv /\ OwnInv /\ BelievedInv /\ [Next]_vars => BelievedInv'
  BY NextBelieved
<1>2. Spec => []MatchInv /\ []OwnInv
  BY MatchKept, OwnKept
<1>3. OwnInv /\ BelievedInv => RunningIsBelieved
  <2> SUFFICES ASSUME OwnInv, BelievedInv, Quiet, mishap = "none", mode = "on", motor, ~motorRunning
               PROVE  FALSE
    BY DEF RunningIsBelieved
  <2>1. ~Rising(toCu)
    BY DEF Quiet, Rising
  <2>2. PICK t \in Task : Answered(t)
    BY <2>1 DEF BelievedInv, Fresh
  <2> QED BY <2>2 DEF Answered, Quiet, OwnInv, OwnFrame
<1> QED BY <1>1, <1>2, <1>3, InitBelieved, TypesKept, PTL DEF Spec

-----------------------------------------------------------------------------
(***************************************************************************)
(* The presence line.                                                      *)
(***************************************************************************)

(* Differences of instants: a clock that has moved on by one, or to the    *)
(* instant itself, and the way over a third instant.                       *)
LEMMA SinceGrows ==
  ASSUME NEW a \in Instant, NEW b \in Instant
  PROVE  /\ Since(a, b) \in Instant /\ Since(a, a) = 0
         /\ Following(a) \in Instant
         /\ Since(a, b) + 1 < CLOCK => Since(Following(a), b) = Since(a, b) + 1
BY ClockAssumption DEF Instant, Since, Following

LEMMA SinceOver ==
  ASSUME NEW a \in Instant, NEW b \in Instant, NEW c \in Instant
  PROVE  /\ Since(a, b) <= Since(a, c) => Since(b, c) = Since(a, c) - Since(a, b)
         /\ Since(a, c) < Since(a, b) => Since(b, c) = (CLOCK - Since(a, b)) + Since(a, c)
BY ClockAssumption DEF Instant, Since

(* The tick's own time stamp is as old as the tick; between two ticks the  *)
(* last pulse is as old as its stamp says, and at the last tick it was not *)
(* over yet, or the next one not due.                                      *)
BeatInv ==
  /\ Since(ms_counter, now) = unpolled
  /\ stage = "store" => low /\ ~pulse_active /\ beat = unpolled
  /\ stage # "store" => (pulse_active <=> low) /\ Since(ms_counter, last_pulse_ms) = beat
  /\ low => held = beat /\ beat < PULSE_WIDTH + unpolled
  /\ ~low => beat < PULSE_PERIOD + unpolled
  /\ ~low => held = 0 \/ (PULSE_WIDTH <= held /\ held <= PulseBound)

(* The stamps of the Control Unit are as old as the silence, until they    *)
(* come round; what a tick has made of them is out of date by its age, or  *)
(* by that of the one before while it has not got to the evaluation.       *)
SilenceInv ==
  /\ Recorded < CLOCK => Since(ms_counter, last_cu_seen_ms) = Recorded
  /\ last_cu_uart_ms # 0 /\ silentUart < CLOCK => Since(ms_counter, last_cu_uart_ms) = silentUart
  /\ cu_present /\ Recorded < CLOCK =>
       Recorded < CU_TIMEOUT + unpolled + (IF stage = "top" THEN 0 ELSE MaxPoll)
  /\ stage = "top" /\ unpolled < Recorded /\ Recorded < CU_TIMEOUT + unpolled => cu_present

LineInv == PresenceTypeOK /\ BeatInv /\ SilenceInv

LEMMA LineConstants ==
  /\ CLOCK \in Nat /\ 0 < CLOCK /\ 0 \in Instant /\ 0 \in 0 .. CLOCK
  /\ PULSE_PERIOD \in Nat /\ PULSE_WIDTH \in Nat /\ CU_TIMEOUT \in Nat /\ UART_TIMEOUT \in Nat
  /\ MaxPoll \in Nat /\ 0 < PULSE_WIDTH /\ 0 < CU_TIMEOUT /\ 0 < MaxPoll /\ 0 < PULSE_PERIOD
  /\ PULSE_WIDTH + MaxPoll <= PULSE_PERIOD
  /\ PULSE_PERIOD + MaxPoll < CLOCK /\ CU_TIMEOUT + MaxPoll < CLOCK /\ UART_TIMEOUT < CLOCK
BY ClockAssumption, PresenceAssumption DEF Instant

LEMMA LineInit == PresenceInit => LineInv
<1> SUFFICES ASSUME PresenceInit PROVE LineInv OBVIOUS
<1> USE LineConstants DEF PresenceInit
<1>1. PresenceTypeOK
  <2>1. unpolled \in 0 .. MaxPoll
        /\ {beat, held, silentWire, misheard, silentUart} \subseteq 0 .. CLOCK
    OBVIOUS
  <2>2. {ms_counter, last_pulse_ms, last_cu_seen_ms, last_cu_uart_ms, now} \subseteq Instant OBVIOUS
  <2>3. {pulse_active, cu_present, low} \subseteq BOOLEAN /\ edge \in {"none", "own", "foreign"}
    OBVIOUS
  <2> QED BY <2>1, <2>2, <2>3 DEF PresenceTypeOK
<1>2. Since(0, 0) = 0 BY SinceGrows
<1>3. BeatInv BY <1>2 DEF BeatInv
<1>r. Recorded = 0 BY DEF Recorded
<1>4. SilenceInv BY <1>2, <1>r DEF SilenceInv
<1> QED BY <1>1, <1>3, <1>4 DEF LineInv

(* What the invariant says in plain arithmetic. *)
LEMMA LineType ==
  ASSUME LineInv
  PROVE  /\ ms_counter \in Instant /\ last_pulse_ms \in Instant /\ last_cu_seen_ms \in Instant
         /\ last_cu_uart_ms \in Instant /\ now \in Instant
         /\ pulse_active \in BOOLEAN /\ cu_present \in BOOLEAN /\ low \in BOOLEAN
         /\ edge \in {"none", "own", "foreign"}
         /\ stage \in {"top", "store", "evaluate"}
         /\ unpolled \in Nat /\ unpolled <= MaxPoll
         /\ beat \in Nat /\ held \in Nat /\ silentWire \in Nat /\ misheard \in Nat
         /\ silentUart \in Nat /\ beat <= CLOCK /\ held <= CLOCK /\ silentWire <= CLOCK
         /\ misheard <= CLOCK /\ silentUart <= CLOCK
         /\ Recorded \in Nat /\ Recorded <= CLOCK /\ Recorded <= silentWire
BY LineConstants DEF LineInv, PresenceTypeOK, Recorded

(* A tick begins: the age of the last one is what it was. *)
LEMMA BeginLine ==
  ASSUME LineInv, BeginTick, stage' # "top"
  PROVE  SilenceInv' /\ Since(ms_counter', now') = unpolled'
<1> USE LineConstants, LineType
<1>1. /\ stage = "top" /\ now' = ms_counter /\ unpolled' = 0
      /\ ms_counter' = ms_counter /\ last_cu_seen_ms' = last_cu_seen_ms
      /\ last_cu_uart_ms' = last_cu_uart_ms /\ cu_present' = cu_present
      /\ UNCHANGED <<silentWire, misheard, silentUart>> /\ Recorded' = Recorded
  BY DEF BeginTick, stamps, Recorded
<1>2. Since(ms_counter, ms_counter) = 0 BY SinceGrows
<1>3. cu_present /\ Recorded < CLOCK => Recorded < CU_TIMEOUT + unpolled
  BY <1>1 DEF LineInv, SilenceInv
<1>4. cu_present' /\ Recorded' < CLOCK => Recorded' < CU_TIMEOUT + unpolled' + MaxPoll
  BY <1>1, <1>3
<1> QED BY <1>1, <1>2, <1>4 DEF LineInv, SilenceInv

LEMMA TickLine ==
  ASSUME LineInv, StartPulse \/ EndPulse \/ NoPulse \/ StorePulse
  PROVE  LineInv'
<1> USE LineConstants, LineType
<1>b. BeatInv /\ SilenceInv BY DEF LineInv
<1>1. CASE StartPulse
  <2>1. /\ low' = TRUE /\ stage = "top" /\ stage' = "store" /\ edge' \in {edge, "own"} /\ beat' = 0 /\ held' = 0
        /\ pulse_active' = pulse_active /\ ~pulse_active /\ unpolled' = 0 /\ now' = ms_counter
        /\ ms_counter' = ms_counter /\ UNCHANGED stamps
        /\ cu_present' = cu_present /\ UNCHANGED <<silentWire, misheard, silentUart>> /\ Recorded' = Recorded
    BY <1>1 DEF StartPulse, BeginTick, PulseDue, Recorded
  <2>2. SilenceInv' /\ Since(ms_counter', now') = unpolled'
    BY <1>1, <2>1, BeginLine DEF StartPulse
  <2>3. BeatInv' BY <2>1, <2>2 DEF BeatInv
  <2>4. PresenceTypeOK' BY <2>1 DEF PresenceTypeOK, stamps, Instant
  <2> QED BY <2>2, <2>3, <2>4 DEF LineInv
<1>2. CASE EndPulse
  <2>1. /\ low' = FALSE /\ pulse_active' = FALSE /\ stage = "top" /\ stage' = "evaluate"
        /\ edge' = edge /\ beat' = beat /\ held' = held /\ pulse_active
        /\ PULSE_WIDTH <= Since(ms_counter, last_pulse_ms)
        /\ unpolled' = 0 /\ now' = ms_counter /\ ms_counter' = ms_counter /\ UNCHANGED stamps
        /\ cu_present' = cu_present /\ UNCHANGED <<silentWire, misheard, silentUart>> /\ Recorded' = Recorded
    BY <1>2, SinceGrows DEF EndPulse, BeginTick, PulseOver, Instant, Recorded
  <2>2. SilenceInv' /\ Since(ms_counter', now') = unpolled'
    BY <1>2, <2>1, BeginLine DEF EndPulse
  <2>3. low /\ Since(ms_counter, last_pulse_ms) = beat /\ held = beat
        /\ beat < PULSE_WIDTH + unpolled
    BY <1>b, <2>1 DEF BeatInv
  <2>4. PULSE_WIDTH <= held' /\ held' <= PulseBound /\ beat' < PULSE_PERIOD + unpolled'
    BY <2>1, <2>3 DEF PulseBound
  <2>5. Since(ms_counter', last_pulse_ms') = beat' BY <2>1, <2>3 DEF stamps
  <2>6. BeatInv' BY <2>1, <2>2, <2>4, <2>5 DEF BeatInv, PulseBound
  <2>7. {pulse_active', cu_present', low'} \subseteq BOOLEAN BY <2>1
  <2>8. PresenceTypeOK' BY <2>1, <2>7 DEF PresenceTypeOK, stamps, Instant
  <2> QED BY <2>2, <2>6, <2>8 DEF LineInv
<1>3. CASE NoPulse
  <2>0. Since(ms_counter, last_pulse_ms) \in Int BY SinceGrows DEF Instant
  <2>1. /\ low' = low /\ pulse_active' = pulse_active /\ stage = "top" /\ stage' = "evaluate"
        /\ edge' = edge /\ beat' = beat /\ held' = held
        /\ pulse_active => Since(ms_counter, last_pulse_ms) < PULSE_WIDTH
        /\ ~pulse_active => Since(ms_counter, last_pulse_ms) < PULSE_PERIOD
        /\ unpolled' = 0 /\ now' = ms_counter /\ ms_counter' = ms_counter /\ UNCHANGED stamps
        /\ cu_present' = cu_present /\ UNCHANGED <<silentWire, misheard, silentUart>> /\ Recorded' = Recorded
    BY <1>3, <2>0 DEF NoPulse, BeginTick, PulseOver, PulseDue, Recorded
  <2>2. SilenceInv' /\ Since(ms_counter', now') = unpolled'
    BY <1>3, <2>1, BeginLine DEF NoPulse
  <2>3. (pulse_active <=> low) /\ Since(ms_counter, last_pulse_ms) = beat BY <1>b, <2>1 DEF BeatInv
  <2>4. (low => beat < PULSE_WIDTH) /\ (~low => beat < PULSE_PERIOD) BY <2>1, <2>3
  <2>5. BeatInv' BY <1>b, <2>1, <2>2, <2>3, <2>4 DEF BeatInv, stamps, PulseBound
  <2>6. PresenceTypeOK' BY <2>1 DEF PresenceTypeOK, stamps, Instant
  <2> QED BY <2>2, <2>5, <2>6 DEF LineInv
<1>4. CASE StorePulse
  <2>1. /\ stage = "store" /\ stage' = "evaluate" /\ pulse_active' = TRUE /\ last_pulse_ms' = now
        /\ UNCHANGED <<ms_counter, last_cu_seen_ms, last_cu_uart_ms, cu_present, low, edge, now,
                       unpolled, beat, held, silentWire, misheard, silentUart>>
        /\ Recorded' = Recorded
    BY <1>4 DEF StorePulse, presenceObservers, Recorded
  <2>2. SilenceInv' BY <1>b, <2>1 DEF SilenceInv
  <2>3. BeatInv' BY <1>b, <2>1 DEF BeatInv, PulseBound
  <2>4. PresenceTypeOK' BY <2>1 DEF PresenceTypeOK, Instant
  <2> QED BY <2>2, <2>3, <2>4 DEF LineInv
<1> QED BY <1>1, <1>2, <1>3, <1>4

LEMMA EvaluateLine ==
  ASSUME LineInv, Evaluate
  PROVE  LineInv'
<1> USE LineConstants, LineType
<1>b. BeatInv /\ SilenceInv BY DEF LineInv
<1>1. /\ stage = "evaluate" /\ stage' = "top"
      /\ UNCHANGED <<ms_counter, last_pulse_ms, last_cu_seen_ms, last_cu_uart_ms, pulse_active, low,
                     edge, now, unpolled, beat, held, silentWire, misheard, silentUart>>
      /\ Recorded' = Recorded
  BY DEF Evaluate, stamps, presenceObservers, Recorded
<1>e. cu_present' = (Since(now, last_cu_seen_ms) < CU_TIMEOUT) BY DEF Evaluate
<1>p. cu_present' <=> Since(now, last_cu_seen_ms) < CU_TIMEOUT BY <1>e
<1>t. cu_present' \in BOOLEAN BY <1>e
<1>2. Since(ms_counter, now) = unpolled BY <1>b DEF BeatInv
<1>3. Recorded < CLOCK => Since(ms_counter, last_cu_seen_ms) = Recorded BY <1>b DEF SilenceInv
<1>4. /\ Recorded < CLOCK /\ unpolled <= Recorded =>
           Since(now, last_cu_seen_ms) = Recorded - unpolled
      /\ Recorded < unpolled =>
           Since(now, last_cu_seen_ms) = (CLOCK - unpolled) + Recorded
  BY <1>2, <1>3, SinceOver
<1>5. cu_present' /\ Recorded < CLOCK => Recorded < CU_TIMEOUT + unpolled
  BY <1>p, <1>1, <1>4
<1>6. unpolled < Recorded /\ Recorded < CU_TIMEOUT + unpolled => cu_present'
  BY <1>p, <1>1, <1>4
<1>7. SilenceInv' BY <1>b, <1>1, <1>5, <1>6 DEF SilenceInv
<1>8. BeatInv' BY <1>b, <1>1 DEF BeatInv, PulseBound
<1>9. PresenceTypeOK' BY <1>1, <1>t DEF PresenceTypeOK, Instant
<1> QED BY <1>7, <1>8, <1>9 DEF LineInv

LEMMA InterruptLine ==
  ASSUME LineInv, EdgeInterrupt \/ RecordUartActive \/ ForeignPulse
  PROVE  LineInv'
<1> USE LineConstants, LineType
<1>b. BeatInv /\ SilenceInv BY DEF LineInv
<1>0. Since(ms_counter, ms_counter) = 0 BY SinceGrows
<1>1. UNCHANGED <<ms_counter, last_pulse_ms, pulse_active, cu_present, low, stage, now, unpolled,
                  beat, held>>
  BY DEF EdgeInterrupt, RecordUartActive, ForeignPulse, stamps, presenceObservers
<1>2. BeatInv' BY <1>b, <1>1 DEF BeatInv, PulseBound
<1>3. /\ \/ last_cu_seen_ms' = last_cu_seen_ms /\ Recorded' = Recorded
         \/ last_cu_seen_ms' = ms_counter /\ Recorded' = 0
      /\ \/ last_cu_uart_ms' = last_cu_uart_ms /\ silentUart' = silentUart
         \/ last_cu_uart_ms' = ms_counter /\ silentUart' = 0
      /\ silentWire' \in {0, silentWire} /\ misheard' \in {0, misheard}
      /\ edge' \in {"none", "own", "foreign"}
  BY DEF EdgeInterrupt, RecordUartActive, ForeignPulse, stamps, presenceObservers, Recorded
<1>4. Recorded' < CLOCK => Since(ms_counter', last_cu_seen_ms') = Recorded'
  BY <1>b, <1>0, <1>1, <1>3 DEF SilenceInv
<1>5. last_cu_uart_ms' # 0 /\ silentUart' < CLOCK => Since(ms_counter', last_cu_uart_ms') = silentUart'
  BY <1>b, <1>0, <1>1, <1>3 DEF SilenceInv
<1>6. CASE Recorded' = Recorded
  <2>1. SilenceInv' BY <1>b, <1>1, <1>4, <1>5, <1>6 DEF SilenceInv
  <2>2. PresenceTypeOK' BY <1>1, <1>3, <1>6 DEF PresenceTypeOK, Instant
  <2> QED BY <1>2, <2>1, <2>2 DEF LineInv
<1>7. CASE Recorded' = 0
  <2>1. SilenceInv' BY <1>1, <1>4, <1>5, <1>7 DEF SilenceInv
  <2>2. PresenceTypeOK' BY <1>1, <1>3, <1>7 DEF PresenceTypeOK, Instant
  <2> QED BY <1>2, <2>1, <2>2 DEF LineInv
<1> QED BY <1>3, <1>6, <1>7

LEMMA MillisecondLine ==
  ASSUME LineInv, Millisecond
  PROVE  LineInv'
<1> USE LineConstants, LineType
<1>b. BeatInv /\ SilenceInv BY DEF LineInv
<1>1. /\ unpolled < MaxPoll /\ ms_counter' = Following(ms_counter) /\ unpolled' = unpolled + 1
      /\ beat' = Age(beat) /\ held' = (IF low THEN Age(held) ELSE held)
      /\ silentWire' = Age(silentWire) /\ misheard' = Age(misheard)
      /\ silentUart' = Age(silentUart)
      /\ UNCHANGED <<last_pulse_ms, last_cu_seen_ms, last_cu_uart_ms, pulse_active, cu_present, low,
                     edge, stage, now>>
  BY DEF Millisecond, stamps
<1>2. /\ Following(ms_counter) \in Instant
      /\ \A b \in Instant : Since(ms_counter, b) + 1 < CLOCK =>
            Since(Following(ms_counter), b) = Since(ms_counter, b) + 1
  BY SinceGrows
<1>3. beat + 1 < CLOCK /\ beat' = beat + 1
  <2>1. beat < PULSE_PERIOD + unpolled BY <1>b DEF BeatInv
  <2> QED BY <1>1, <2>1 DEF Age
<1>4. low => held' = held + 1 BY <1>1, <1>3, <1>b DEF BeatInv, Age
<1>5. Since(ms_counter', now') = unpolled' BY <1>1, <1>2, <1>b DEF BeatInv
<1>6. stage # "store" => Since(ms_counter', last_pulse_ms') = beat'
  BY <1>1, <1>2, <1>3, <1>b DEF BeatInv
<1>7. BeatInv' BY <1>1, <1>3, <1>4, <1>5, <1>6, <1>b DEF BeatInv, PulseBound
<1>r. Recorded' = Age(Recorded) BY <1>1 DEF Recorded, Age
<1>8. Recorded' < CLOCK => Recorded' = Recorded + 1 /\ Recorded + 1 < CLOCK
  BY <1>r DEF Age
<1>9. silentUart' < CLOCK => silentUart' = silentUart + 1 /\ silentUart + 1 < CLOCK
  BY <1>1 DEF Age
<1>10. Recorded' < CLOCK => Since(ms_counter', last_cu_seen_ms') = Recorded'
  BY <1>1, <1>2, <1>8, <1>b DEF SilenceInv
<1>11. last_cu_uart_ms' # 0 /\ silentUart' < CLOCK => Since(ms_counter', last_cu_uart_ms') = silentUart'
  BY <1>1, <1>2, <1>9, <1>b DEF SilenceInv
<1>12. cu_present' /\ Recorded' < CLOCK =>
         Recorded' < CU_TIMEOUT + unpolled' + (IF stage' = "top" THEN 0 ELSE MaxPoll)
  BY <1>1, <1>8, <1>b DEF SilenceInv
<1>s. Recorded' \in Nat BY <1>r DEF Age
<1>13. stage' = "top" /\ unpolled' < Recorded' /\ Recorded' < CU_TIMEOUT + unpolled' => cu_present'
  <2> SUFFICES ASSUME stage' = "top", unpolled' < Recorded', Recorded' < CU_TIMEOUT + unpolled'
               PROVE  cu_present'
    OBVIOUS
  <2>0. stage = "top" /\ unpolled' = unpolled + 1 /\ cu_present' = cu_present BY <1>1
  <2>1. Recorded' = Recorded + 1 BY <1>1, <1>8, <1>s
  <2>2. unpolled < Recorded /\ Recorded < CU_TIMEOUT + unpolled BY <2>0, <2>1
  <2>3. cu_present BY <1>b, <2>0, <2>2 DEF SilenceInv
  <2> QED BY <2>0, <2>3
<1>14. SilenceInv' BY <1>10, <1>11, <1>12, <1>13 DEF SilenceInv
<1>15. PresenceTypeOK' BY <1>1, <1>2, <1>3 DEF PresenceTypeOK, Age
<1> QED BY <1>7, <1>14, <1>15 DEF LineInv

LEMMA LineInvariant == PresenceSpec => []LineInv
<1>1. LineInv /\ [PresenceNext]_presenceVars => LineInv'
  <2> SUFFICES ASSUME LineInv, [PresenceNext]_presenceVars PROVE LineInv' OBVIOUS
  <2>1. CASE UNCHANGED presenceVars
    BY <2>1 DEF presenceVars, stamps, presenceObservers, LineInv, PresenceTypeOK, BeatInv, SilenceInv,
                PulseBound, Instant, Recorded
  <2> QED BY <2>1, TickLine, EvaluateLine, InterruptLine, MillisecondLine
          DEF PresenceNext, PresenceTick
<1> QED BY <1>1, LineInit, PTL DEF PresenceSpec

(* The heartbeat of presence_tick is never late by more than a superloop   *)
(* round, and a pulse is as long as it should be, and at most a round      *)
(* longer (HeartbeatInv): for every width of ms_counter, all periods, and  *)
(* interrupts between any two statements.                                  *)
THEOREM HeartbeatRegular == PresenceSpec => []HeartbeatInv
<1>1. LineInv => HeartbeatInv
  <2> SUFFICES ASSUME LineInv PROVE HeartbeatInv OBVIOUS
  <2> USE LineConstants, LineType
  <2>1. beat < PULSE_PERIOD + unpolled /\ (low => beat < PULSE_WIDTH + unpolled /\ held = beat)
    BY DEF LineInv, BeatInv
  <2>2. ~low => held = 0 \/ (PULSE_WIDTH <= held /\ held <= PulseBound) BY DEF LineInv, BeatInv
  <2>3. HeartbeatKept BY <2>1 DEF HeartbeatKept, HeartbeatBound
  <2>4. PulseShaped BY <2>1, <2>2 DEF PulseShaped, PulseBound
  <2> QED BY <2>3, <2>4 DEF LineInv, HeartbeatInv
<1> QED BY <1>1, LineInvariant, PTL

(* presence_is_control_unit_present is false once both ways have been      *)
(* silent for their timeouts and two rounds and no pulse of the unit's own *)
(* has been recorded in that time, and true once a pulse of the last       *)
(* CU_TIMEOUT has met a whole tick (PresenceInv), as long as the time      *)
(* stamps have not come all the way round.                                 *)
THEOREM PresenceTimely == PresenceSpec => []PresenceInv
<1>1. LineInv => PresenceInv
  <2> SUFFICES ASSUME LineInv PROVE PresenceInv OBVIOUS
  <2> USE LineConstants, LineType
  <2>1. AbsentInTime
    <3> SUFFICES ASSUME WireLimit <= Recorded, Recorded < CLOCK,
                        last_cu_uart_ms = 0 \/ (UART_TIMEOUT <= silentUart /\ silentUart < CLOCK)
                 PROVE  ~Present
      BY DEF AbsentInTime
    <3>1. ~cu_present BY DEF LineInv, SilenceInv, WireLimit
    <3>2. last_cu_uart_ms # 0 => ~(Since(ms_counter, last_cu_uart_ms) < UART_TIMEOUT)
      BY DEF LineInv, SilenceInv
    <3> QED BY <3>1, <3>2 DEF Present
  <2>2. PresentIfPulse BY DEF LineInv, SilenceInv, PresentIfPulse, Present
  <2> QED BY <2>1, <2>2 DEF PresenceInv
<1> QED BY <1>1, LineInvariant, PTL
=============================================================================
