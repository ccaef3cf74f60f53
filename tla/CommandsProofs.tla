----------------------------- MODULE CommandsProofs -----------------------------
(***************************************************************************)
(* What the broker sends, and how it is reached.  The MQTT commands are    *)
(* proved for every capacity, interval, depth of the queues and number of  *)
(* messages: no stretch of time admits more than a bucket and its refills, *)
(* at most one message is executed after the gate closed, and every        *)
(* response string has one owner.  The network, at the end, is proved for  *)
(* every set of networks and of clients and every depth of its queue.      *)
(***************************************************************************)
EXTENDS Commands, Network, TLAPS

R == REQUEST_REFILL_INTERVAL
C == REQUEST_BUCKET_CAPACITY

(* What the bucket is worth now, in units of time: its tokens, and what    *)
(* has passed since they were last added.  A full bucket that is read just *)
(* before its next token is worth Most; what passes beyond is lost.        *)
Credit == tokens * R + (now - lastRefillTime)
Most == C * R + R - 1

(* Since a window was opened, what has been admitted and what is still     *)
(* there have been paid by a full bucket and the time that has passed.     *)
Paid ==
  LET budget == Most + (now - windowStart)
  IN admitted * R + Credit <= budget \/ admitted * R + Most <= budget

WindowInv ==
  /\ LimitTypeOK
  /\ lastRefillTime <= now
  /\ windowStart = NoWindow => admitted = 0
  /\ windowStart # NoWindow => windowStart <= now /\ Paid

(* While the gate is closed, a message that has passed it is the first.    *)
GateInv ==
  /\ gate \in BOOLEAN /\ slipped \in Nat /\ slipped <= 1
  /\ gate /\ processor.step \in {"limit", "call"} => slipped = 0

-----------------------------------------------------------------------------
(* Arithmetic.                                                             *)

LEMMA Division ==
  ASSUME NEW d \in Nat, NEW r \in Nat \ {0}
  PROVE  /\ d \div r \in Nat
         /\ (d \div r) * r <= d
         /\ d < (d \div r) * r + r
<1>1. d \div r \in Nat
  OBVIOUS
<1>2. d = r * (d \div r) + (d % r) /\ d % r \in 0 .. r - 1
  OBVIOUS
<1> QED BY <1>1, <1>2

LEMMA Monotone ==
  ASSUME NEW a \in Int, NEW b \in Int, NEW r \in Nat, a <= b
  PROVE  a * r <= b * r
  OBVIOUS

LEMMA Distributes ==
  ASSUME NEW a \in Int, NEW b \in Int, NEW r \in Int
  PROVE  /\ (a + b) * r = a * r + b * r
         /\ (a + 1) * r = a * r + r
         /\ (a - 1) * r = a * r - r
  OBVIOUS

LEMMA Transfer ==
  ASSUME NEW a \in Int, NEW m \in Int, NEW w \in Int, NEW r \in Int, NEW k \in Int,
         a + m <= m + w, k <= m - r
  PROVE  (a + r) + k <= m + w
  OBVIOUS

LEMMA Product == \A a, b \in Int : a * b \in Int
  OBVIOUS

-----------------------------------------------------------------------------
(* The rate limits.                                                        *)

LEMMA InitWindow == Init => WindowInv
  BY LimitAssumption DEF Init, LimitInit, WindowInv, LimitTypeOK, NoWindow

LEMMA TickWindow == WindowInv /\ Tick => WindowInv'
<1> SUFFICES ASSUME WindowInv, Tick PROVE WindowInv'
  OBVIOUS
<1>1. tokens * R \in Int /\ admitted * R \in Int /\ C * R \in Int /\ R \in Int
  BY Product, LimitAssumption DEF WindowInv, LimitTypeOK, R, C
<1>2. UNCHANGED <<tokens, lastRefillTime, lastCommandTime, windowStart, admitted>>
  BY DEF Tick, limits, window
<1>3. LimitTypeOK' /\ (lastRefillTime <= now)' /\ (windowStart = NoWindow => admitted = 0)'
  BY <1>2 DEF Tick, WindowInv, LimitTypeOK
<1>4. ASSUME (windowStart # NoWindow)' PROVE (windowStart <= now /\ Paid)'
  BY <1>1, <1>2, <1>4 DEF Tick, WindowInv, LimitTypeOK, NoWindow, Paid, Credit, Most, R, C
<1> QED BY <1>3, <1>4 DEF WindowInv

LEMMA OpenWindowWindow == WindowInv /\ OpenWindow => WindowInv'
<1> SUFFICES ASSUME WindowInv, OpenWindow PROVE WindowInv'
  OBVIOUS
<1>1. C * R \in Int /\ R \in Int /\ 0 * R = 0
  BY Product, LimitAssumption DEF R, C
<1>2. admitted = 0 /\ windowStart' = now
  BY DEF OpenWindow, WindowInv
<1>3. (admitted * R + Most <= Most + (now - windowStart))'
  BY <1>1, <1>2 DEF OpenWindow, WindowInv, LimitTypeOK, Most, R, C
<1> QED BY <1>2, <1>3 DEF OpenWindow, WindowInv, LimitTypeOK, limits, Paid, NoWindow

(* A request pays a refill interval, or finds the bucket empty.            *)
LEMMA RequestWindow == WindowInv /\ checkRequestRateLimit => WindowInv'
<1> SUFFICES ASSUME WindowInv, checkRequestRateLimit PROVE WindowInv'
  OBVIOUS
<1> DEFINE q == tokensToAdd
           d == now - lastRefillTime
<1>1. /\ R \in Nat \ {0} /\ C \in Nat \ {0} /\ d \in Nat
      /\ tokens \in 0 .. C /\ admitted \in Nat /\ now \in Nat /\ lastRefillTime \in Nat
  BY LimitAssumption DEF WindowInv, LimitTypeOK, R, C
<1>2. q \in Nat /\ q * R <= d /\ d < q * R + R
  BY <1>1, Division DEF tokensToAdd, R
<1>3. lastRefillTime' = lastRefillTime + q * R /\ now' = now /\ windowStart' = windowStart
      /\ lastCommandTime' = lastCommandTime
  BY DEF checkRequestRateLimit, Refill, R
<1>4. q * R \in Nat /\ tokens * R \in Nat /\ C * R \in Nat /\ admitted * R \in Nat
  BY <1>1, <1>2
<1>5. lastRefillTime' \in Nat /\ lastRefillTime' <= now'
  BY <1>1, <1>2, <1>3, <1>4
<1>6. Credit \in Nat /\ Credit = tokens * R + d /\ Most \in Nat /\ Most = C * R + R - 1
  BY <1>1, <1>4 DEF Credit, Most
<1>7. CASE ~RequestAllowed
  <2>1. tokens = 0 /\ q = 0 /\ Refilled = 0
    BY <1>1, <1>2, <1>7 DEF RequestAllowed, Refilled, C
  <2>2. tokens' = tokens /\ lastRefillTime' = lastRefillTime /\ admitted' = admitted
    BY <1>1, <1>3, <1>7, <2>1 DEF checkRequestRateLimit
  <2> QED BY <1>3, <2>2 DEF WindowInv, LimitTypeOK, Paid, Credit, Most
<1>8. CASE RequestAllowed
  <2>1. Refilled \in 1 .. C /\ tokens' = Refilled - 1 /\ tokens' \in 0 .. C
    BY <1>1, <1>2, <1>8 DEF RequestAllowed, Refilled, checkRequestRateLimit, C
  <2>2. LimitTypeOK' /\ (windowStart = NoWindow => admitted = 0)'
    BY <1>1, <1>3, <1>5, <1>8, <2>1 DEF WindowInv, LimitTypeOK, checkRequestRateLimit, C
  <2>3. ASSUME windowStart # NoWindow PROVE Paid'
    <3>1. admitted' = admitted + 1 /\ admitted' * R = admitted * R + R
      BY <1>1, <1>8, <2>3, Distributes DEF checkRequestRateLimit
    <3>2. tokens' * R = Refilled * R - R /\ Refilled * R \in Int
      BY <1>1, <2>1, Distributes
    <3>3. Credit' = Refilled * R - R + (d - q * R)
      BY <1>1, <1>2, <1>3, <1>4, <3>2 DEF Credit, R
    <3>4. windowStart \in Nat /\ Paid
      BY <2>3 DEF WindowInv, LimitTypeOK
    <3>5. CASE tokens + q <= C
      <4>1. Refilled = tokens + q /\ Refilled * R = tokens * R + q * R
        BY <1>1, <1>2, <3>5, Distributes DEF Refilled, C
      <4>2. Refilled * R <= C * R
        BY <1>1, <2>1, Monotone
      <4>3. Credit' = Credit - R /\ Credit <= Most
        BY <1>1, <1>2, <1>4, <1>6, <3>3, <4>1, <4>2
      <4>4. admitted * R + Credit <= Most + (now - windowStart)
        BY <1>1, <1>4, <1>6, <3>4, <4>3 DEF Paid
      <4> QED BY <1>1, <1>3, <1>4, <1>6, <3>1, <3>4, <4>3, <4>4 DEF Paid, Most, R, C
    <3>6. CASE tokens + q > C
      <4>1. Refilled = C
        BY <1>1, <1>2, <3>6 DEF Refilled, C
      <4>2. (C + 1) * R <= (tokens + q) * R
        BY <1>1, <1>2, <3>6, Monotone
      <4>3. C * R + R <= tokens * R + q * R
        BY <1>1, <1>2, <4>2, Distributes
      <4>4. Most <= Credit /\ Credit' <= Most - R
        BY <1>1, <1>2, <1>4, <1>6, <3>3, <4>1, <4>3
      <4>5. admitted * R + Most <= Most + (now - windowStart)
        BY <1>1, <1>4, <1>6, <3>4, <4>4 DEF Paid
      <4>6. Credit' \in Int
        BY <1>1, <1>2, <1>4, <3>2, <3>3
      <4>7. admitted' * R + Credit' <= Most + (now - windowStart)
        <5>1. admitted * R \in Int /\ R \in Int /\ Most \in Int /\ now - windowStart \in Int
          BY <1>1, <1>4, <1>6, <3>4
        <5> HIDE DEF Most, Credit, R
        <5> QED BY <3>1, <4>4, <4>5, <4>6, <5>1, Transfer
      <4> QED BY <1>3, <4>7 DEF Paid, Most, R, C
    <3> QED BY <1>1, <1>2, <3>5, <3>6
  <2> QED BY <1>3, <1>5, <2>2, <2>3 DEF WindowInv
<1> QED BY <1>7, <1>8

LEMMA CommandWindow == WindowInv /\ checkCommandRateLimit => WindowInv'
  BY DEF checkCommandRateLimit, WindowInv, LimitTypeOK, window, Paid, Credit, Most, R, C, NoWindow

LEMMA IdleWindow == WindowInv /\ UNCHANGED limitVars => WindowInv'
  BY DEF limitVars, limits, window, WindowInv, LimitTypeOK, Paid, Credit, Most, R, C, NoWindow

LEMMA NextWindow == WindowInv /\ [Next]_vars => WindowInv'
<1> SUFFICES ASSUME WindowInv, [Next]_vars PROVE WindowInv'
  OBVIOUS
<1>1. CASE Time
  BY <1>1, TickWindow, OpenWindowWindow DEF Time
<1>2. CASE Limit
  BY <1>2, RequestWindow, CommandWindow DEF Limit
<1>3. CASE UNCHANGED limitVars
  BY <1>3, IdleWindow
<1> QED
  BY <1>1, <1>2, <1>3 DEF Next, BrokerChanges, UpdateStarts, UpdateEnds, queueIncomingCommand,
     commandProcessorTask, Receive, Malformed, Call, AnswerQueued, AnswerLost,
     publisherTask, TakeResponse, Publish, vars

(* What a window has admitted has been paid for: the burst is bounded.     *)
LEMMA PaidBounds == WindowInv => BurstBounded
<1> SUFFICES ASSUME WindowInv, windowStart # NoWindow
             PROVE  admitted <= C + (now - windowStart) \div R + 1
  BY DEF BurstBounded, R, C
<1> DEFINE d == now - windowStart
           q == d \div R
<1>1. /\ R \in Nat \ {0} /\ C \in Nat \ {0} /\ d \in Nat /\ admitted \in Nat
      /\ tokens \in Nat /\ now - lastRefillTime \in Nat
  BY LimitAssumption DEF WindowInv, LimitTypeOK, NoWindow, R, C
<1>2. q \in Nat /\ d < q * R + R
  BY <1>1, Division
<1>3. C * R \in Nat /\ q * R \in Nat /\ tokens * R \in Nat /\ admitted * R \in Nat
  BY <1>1, <1>2
<1>4. admitted * R <= C * R + R - 1 + d
  BY <1>1, <1>3 DEF WindowInv, Paid, Credit, Most
<1>5. SUFFICES ASSUME admitted >= C + q + 2 PROVE FALSE
  BY <1>1, <1>2
<1>6. (C + q + 2) * R <= admitted * R
  BY <1>1, <1>2, <1>5, Monotone
<1>7. (C + q + 2) * R = C * R + q * R + R + R
  <2>1. (C + q + 2) * R = (C + q + 1) * R + R
    BY <1>1, <1>2, Distributes
  <2>2. (C + q + 1) * R = (C + q) * R + R
    BY <1>1, <1>2, Distributes
  <2> QED BY <1>1, <1>2, <2>1, <2>2, Distributes
<1> QED BY <1>1, <1>2, <1>3, <1>4, <1>6, <1>7

(* In no stretch of time does the processor admit more requests than a     *)
(* full bucket, the refills of that time and one that was under way.       *)
THEOREM BurstsAreBounded == Spec => []BurstBounded
<1>1. Spec => []WindowInv
  BY InitWindow, NextWindow, PTL DEF Spec
<1> QED BY <1>1, PaidBounds, PTL

-----------------------------------------------------------------------------
(* The update gate.                                                        *)

LEMMA InitGate == Init => GateInv
<1> SUFFICES ASSUME Init PROVE GateInv
  OBVIOUS
<1>1. ~gate /\ slipped = 0
  BY DEF Init
<1>2. gate \in BOOLEAN
  BY DEF Init
<1> QED BY <1>1, <1>2 DEF GateInv

LEMMA NextGate == GateInv /\ [Next]_vars => GateInv'
<1> SUFFICES ASSUME GateInv, [Next]_vars PROVE GateInv'
  OBVIOUS
<1> USE DEF GateInv, Idle, Busy
<1>1. CASE Receive
  BY <1>1 DEF Receive, Rejected, outside
<1>2. CASE Limit
  BY <1>2 DEF Limit, outside
<1>3. CASE Call
  BY <1>3 DEF Call, outside
<1>4. CASE Malformed \/ AnswerQueued \/ AnswerLost
  BY <1>4 DEF Malformed, AnswerQueued, AnswerLost, outside
<1>5. CASE TakeResponse \/ Publish
  BY <1>5 DEF TakeResponse, Publish, outside
<1>6. CASE UpdateStarts \/ UpdateEnds
  <2>1. gate' \in BOOLEAN
    BY <1>6 DEF UpdateStarts, UpdateEnds
  <2>2. ~gate' \/ slipped' = 0
    BY <1>6 DEF UpdateStarts, UpdateEnds
  <2>3. slipped' = 0 \/ slipped' = slipped
    BY <1>6 DEF UpdateStarts, UpdateEnds
  <2> QED BY <2>1, <2>2, <2>3
<1>7. CASE Time \/ BrokerChanges \/ queueIncomingCommand \/ UNCHANGED vars
  BY <1>7 DEF Time, BrokerChanges, queueIncomingCommand, Elsewhere, tasks, outside, vars
<1> QED
  BY <1>1, <1>2, <1>3, <1>4, <1>5, <1>6, <1>7 DEF Next, commandProcessorTask, publisherTask

-----------------------------------------------------------------------------
(* Who frees what.                                                         *)

Ids(S) == {m.id : m \in S}

(* A sequence in which no identity occurs twice. *)
Single(s) == \A i, j \in 1 .. Len(s) : s[i].id = s[j].id => i = j

(* No identity is in two places at once. *)
Apart ==
  /\ Single(cmdQueue) /\ Single(respQueue)
  /\ Ids(ToSet(cmdQueue)) \cap Ids(ToSet(respQueue)) = {}
  /\ Ids(At(processor)) \cap (Ids(ToSet(cmdQueue)) \cup Ids(ToSet(respQueue))) = {}
  /\ Ids(At(publisher)) \cap (Ids(ToSet(cmdQueue)) \cup Ids(ToSet(respQueue))) = {}
  /\ Ids(At(processor)) \cap Ids(At(publisher)) = {}

Places ==
  /\ cmdQueue \in Seq(Item) /\ Len(cmdQueue) <= CMD_QUEUE_DEPTH
  /\ respQueue \in Seq(Item) /\ Len(respQueue) <= RESP_QUEUE_DEPTH
  /\ processor = Idle \/ processor \in [step : {"limit", "call", "answer"}, message : Item]
  /\ publisher = Idle \/ publisher \in [step : {"publish"}, message : Item]
  /\ connected \in BOOLEAN

HeapInv == Places /\ Apart /\ HeapOwned

LEMMA ToSetAppend ==
  ASSUME NEW S, NEW s \in Seq(S), NEW e \in S
  PROVE  ToSet(Append(s, e)) = ToSet(s) \cup {e}
<1>1. Len(Append(s, e)) = Len(s) + 1 /\ DOMAIN s = 1 .. Len(s)
      /\ DOMAIN Append(s, e) = 1 .. Len(s) + 1 /\ Len(s) \in Nat
  OBVIOUS
<1>2. Append(s, e)[Len(s) + 1] = e /\ \A i \in 1 .. Len(s) : Append(s, e)[i] = s[i]
  OBVIOUS
<1>3. ASSUME NEW x PROVE x \in ToSet(Append(s, e)) <=> x \in ToSet(s) \cup {e}
  <2>1. x \in ToSet(Append(s, e)) <=> \E i \in 1 .. Len(s) + 1 : x = Append(s, e)[i]
    BY <1>1 DEF ToSet
  <2>2. x \in ToSet(s) <=> \E i \in 1 .. Len(s) : x = s[i]
    BY <1>1 DEF ToSet
  <2> QED BY <1>1, <1>2, <2>1, <2>2
<1> QED BY <1>3

LEMMA ToSetTail ==
  ASSUME NEW S, NEW s \in Seq(S), s # <<>>
  PROVE  ToSet(s) = {Head(s)} \cup ToSet(Tail(s))
<1>1. \A i \in 1 .. Len(s) : s[i] = Head(s) \/ \E j \in 1 .. Len(s) - 1 : s[i] = Tail(s)[j]
  <2> TAKE i \in 1 .. Len(s)
  <2>1. CASE i = 1
    BY <2>1
  <2>2. CASE i # 1
    <3>1. i - 1 \in 1 .. Len(s) - 1 /\ Tail(s)[i - 1] = s[i]
      BY <2>2
    <3> QED BY <3>1
  <2> QED BY <2>1, <2>2
<1>2. \A j \in 1 .. Len(s) - 1 : Tail(s)[j] = s[j + 1] /\ j + 1 \in 1 .. Len(s)
  OBVIOUS
<1>3. Len(Tail(s)) = Len(s) - 1 /\ DOMAIN Tail(s) = 1 .. Len(s) - 1 /\ DOMAIN s = 1 .. Len(s)
      /\ 1 \in 1 .. Len(s) /\ Head(s) = s[1]
  OBVIOUS
<1>4. ASSUME NEW x PROVE x \in ToSet(s) <=> x \in {Head(s)} \cup ToSet(Tail(s))
  <2>1. x \in ToSet(s) <=> \E i \in 1 .. Len(s) : x = s[i]
    BY <1>3 DEF ToSet
  <2>2. x \in ToSet(Tail(s)) <=> \E j \in 1 .. Len(s) - 1 : x = Tail(s)[j]
    BY <1>3 DEF ToSet
  <2> QED BY <1>1, <1>2, <1>3, <2>1, <2>2
<1> QED BY <1>4

LEMMA SingleAppend ==
  ASSUME NEW S, NEW s \in Seq(S), NEW e \in S, Single(s), e.id \notin Ids(ToSet(s))
  PROVE  Single(Append(s, e))
  BY DEF Single, Ids, ToSet

LEMMA SingleTail ==
  ASSUME NEW S, NEW s \in Seq(S), s # <<>>, Single(s)
  PROVE  Single(Tail(s)) /\ Head(s).id \notin Ids(ToSet(Tail(s))) /\ Tail(s) \in Seq(S) /\ Head(s) \in S
<1>1. Tail(s) \in Seq(S) /\ Head(s) \in S /\ Len(Tail(s)) = Len(s) - 1 /\ Head(s) = s[1]
  OBVIOUS
<1>2. \A j \in 1 .. Len(s) - 1 : Tail(s)[j] = s[j + 1] /\ j + 1 \in 2 .. Len(s)
  OBVIOUS
<1>3. Single(Tail(s))
  BY <1>1, <1>2 DEF Single
<1>4. \A j \in 1 .. Len(s) - 1 : Tail(s)[j].id # Head(s).id
  BY <1>1, <1>2 DEF Single
<1>5. DOMAIN Tail(s) = 1 .. Len(s) - 1
  BY <1>1
<1> QED BY <1>1, <1>3, <1>4, <1>5 DEF Ids, ToSet

LEMMA IdsOf ==
  /\ Ids({}) = {} /\ \A m : Ids({m}) = {m.id}
  /\ \A A, B : Ids(A \cup B) = Ids(A) \cup Ids(B)
  BY DEF Ids

LEMMA BusyAt ==
  ASSUME NEW step \in {"limit", "call", "answer", "publish"}, NEW m
  PROVE  /\ Busy(step, m) # Idle /\ Busy(step, m).step = step /\ Busy(step, m).message = m
         /\ At(Busy(step, m)) = {m} /\ At(Idle) = {} /\ Idle.step = "idle"
<1>1. Busy(step, m).step = step /\ Busy(step, m).message = m /\ Idle.step = "idle"
  BY DEF Busy, Idle
<1>2. Busy(step, m) # Idle
  BY <1>1
<1> QED BY <1>1, <1>2 DEF At

LEMMA InitHeap == Init => HeapInv
<1> SUFFICES ASSUME Init PROVE HeapInv
  OBVIOUS
<1>1. cmdQueue = <<>> /\ respQueue = <<>> /\ processor = Idle /\ publisher = Idle /\ live = {}
      /\ connected \in BOOLEAN
  BY DEF Init
<1>2. ToSet(<<>>) = {} /\ At(Idle) = {} /\ Idle.step # "answer"
  BY DEF ToSet, At, Idle
<1>3. Places
  BY <1>1, QueueAssumption DEF Places
<1>4. Apart
  BY <1>1, <1>2, IdsOf DEF Apart, Single
<1>5. HeapOwned
  BY <1>1, <1>2 DEF HeapOwned, Owned
<1> QED BY <1>3, <1>4, <1>5 DEF HeapInv

(* The first message of a queue leaves it. *)
LEMMA Departs ==
  ASSUME NEW s \in Seq(Item), s # <<>>, Single(s)
  PROVE  /\ Tail(s) \in Seq(Item) /\ Head(s) \in Item /\ Single(Tail(s))
         /\ ToSet(s) = {Head(s)} \cup ToSet(Tail(s))
         /\ Head(s).id \notin Ids(ToSet(Tail(s)))
         /\ Len(Tail(s)) <= Len(s)
  BY SingleTail, ToSetTail

LEMMA ReceiveHeap == HeapInv /\ Receive => HeapInv'
<1> SUFFICES ASSUME HeapInv, Receive PROVE HeapInv'
  OBVIOUS
<1> DEFINE m == Head(cmdQueue)
<1>1. /\ cmdQueue # <<>> /\ cmdQueue' = Tail(cmdQueue) /\ processor = Idle
      /\ respQueue' = respQueue /\ publisher' = publisher /\ live' = live /\ connected' = connected
      /\ processor' = Idle \/ processor' = Busy("limit", m)
  BY DEF Receive, outside
<1>2. /\ Tail(cmdQueue) \in Seq(Item) /\ m \in Item /\ Single(Tail(cmdQueue))
      /\ ToSet(cmdQueue) = {m} \cup ToSet(Tail(cmdQueue))
      /\ m.id \notin Ids(ToSet(Tail(cmdQueue))) /\ Len(Tail(cmdQueue)) <= Len(cmdQueue)
  BY <1>1, Departs DEF HeapInv, Places, Apart
<1>3. /\ At(processor) = {} /\ processor.step # "answer" /\ processor'.step # "answer"
      /\ At(processor') = {} \/ At(processor') = {m}
  BY <1>1, BusyAt
<1>4. Places'
  BY <1>1, <1>2, QueueAssumption DEF HeapInv, Places, Busy
<1>5. Apart'
  <2>1. Ids(ToSet(cmdQueue)) = {m.id} \cup Ids(ToSet(cmdQueue'))
    BY <1>1, <1>2 DEF Ids
  <2>2. Ids(At(processor')) \subseteq {m.id}
    BY <1>3, IdsOf
  <2> QED BY <1>1, <1>2, <2>1, <2>2 DEF HeapInv, Apart
<1>6. HeapOwned'
  BY <1>1, <1>3 DEF HeapInv, HeapOwned, Owned
<1> QED BY <1>4, <1>5, <1>6 DEF HeapInv

(* The rate limit, the parser and the listener. *)
LEMMA ProcessHeap == HeapInv /\ (Limit \/ Malformed \/ Call) => HeapInv'
<1> SUFFICES ASSUME HeapInv, Limit \/ Malformed \/ Call PROVE HeapInv'
  OBVIOUS
<1> DEFINE m == processor.message
<1>1. /\ cmdQueue' = cmdQueue /\ respQueue' = respQueue /\ publisher' = publisher
      /\ connected' = connected /\ processor.step \in {"limit", "call"}
      /\ \/ processor' \in {Idle, Busy("call", m)} /\ live' = live
         \/ processor' = Busy("answer", m) /\ live' = live \cup {m.id}
  BY DEF Limit, Malformed, Call, outside, queues
<1>2. /\ processor # Idle /\ m \in Item /\ At(processor) = {m}
      /\ processor.step # "answer"
  BY <1>1, BusyAt DEF HeapInv, Places, At
<1>3. Places'
  BY <1>1, <1>2 DEF HeapInv, Places, Busy
<1>4. At(processor') \subseteq {m}
  BY <1>1, BusyAt
<1>5. Apart'
  BY <1>1, <1>2, <1>4, IdsOf DEF HeapInv, Apart, Ids
<1>6. HeapOwned'
  <2>1. CASE processor' \in {Idle, Busy("call", m)} /\ live' = live
    BY <1>1, <1>2, <2>1, BusyAt DEF HeapInv, HeapOwned, Owned
  <2>2. CASE processor' = Busy("answer", m) /\ live' = live \cup {m.id}
    <3>1. Owned' = Owned \cup {m}
      BY <1>1, <1>2, <2>2, BusyAt DEF Owned
    <3> QED BY <2>2, <3>1 DEF HeapInv, HeapOwned
  <2> QED BY <1>1, <2>1, <2>2
<1> QED BY <1>3, <1>5, <1>6 DEF HeapInv

(* queueOutgoingResponse: a scan's string goes along, any other is freed.  *)
LEMMA AnswerHeap == HeapInv /\ (AnswerQueued \/ AnswerLost) => HeapInv'
<1> SUFFICES ASSUME HeapInv, AnswerQueued \/ AnswerLost PROVE HeapInv'
  OBVIOUS
<1> DEFINE m == processor.message
           Others == {n \in ToSet(respQueue) \cup At(publisher) : Dynamic(n)}
<1>1. /\ cmdQueue' = cmdQueue /\ publisher' = publisher /\ connected' = connected
      /\ processor.step = "answer" /\ processor' = Idle
  BY DEF AnswerQueued, AnswerLost, outside, queues
<1>2. /\ m \in Item /\ At(processor) = {m} /\ At(processor') = {} /\ processor'.step # "answer"
  BY <1>1, BusyAt DEF HeapInv, Places, At, Idle
<1>3. m.id \notin Ids(ToSet(cmdQueue)) \cup Ids(ToSet(respQueue)) \cup Ids(At(publisher))
  BY <1>2, IdsOf DEF HeapInv, Apart
<1>4. live = Ids(Others) \cup {m.id} /\ m.id \notin Ids(Others)
  <2>1. live = Ids(Others \cup {m})
    BY <1>1, <1>2 DEF HeapInv, HeapOwned, Owned, Ids
  <2> QED BY <1>3, <2>1, IdsOf DEF Ids
<1>5. CASE AnswerLost
  <2>1. respQueue' = respQueue /\ live' = live \ {m.id}
    BY <1>5 DEF AnswerLost, Free, queues
  <2>2. Places' /\ Apart'
    BY <1>1, <1>2, <2>1, IdsOf DEF HeapInv, Places, Apart
  <2>3. HeapOwned'
    BY <1>1, <1>2, <1>4, <2>1 DEF HeapOwned, Owned, Ids
  <2> QED BY <2>2, <2>3 DEF HeapInv
<1>6. CASE AnswerQueued
  <2>1. /\ Len(respQueue) < RESP_QUEUE_DEPTH /\ respQueue' = Append(respQueue, m)
        /\ live' = IF Dynamic(m) THEN live ELSE live \ {m.id}
    BY <1>6 DEF AnswerQueued, Free
  <2>2. respQueue \in Seq(Item) /\ Single(respQueue)
    BY DEF HeapInv, Places, Apart
  <2>3. /\ respQueue' \in Seq(Item) /\ Len(respQueue') = Len(respQueue) + 1
        /\ ToSet(respQueue') = ToSet(respQueue) \cup {m}
        /\ Single(respQueue')
    BY <1>2, <1>3, <2>1, <2>2, ToSetAppend, SingleAppend
  <2>4. Places'
    BY <1>1, <2>1, <2>2, <2>3, QueueAssumption DEF HeapInv, Places
  <2>5. Apart'
    <3>1. Ids(ToSet(respQueue')) = Ids(ToSet(respQueue)) \cup {m.id}
      BY <2>3 DEF Ids
    <3> QED BY <1>1, <1>2, <1>3, <2>3, <3>1, IdsOf DEF HeapInv, Apart
  <2>6. HeapOwned'
    <3>1. Owned' = Others \cup {n \in {m} : Dynamic(n)}
      BY <1>1, <1>2, <2>3 DEF Owned, Dynamic
    <3>2. CASE Dynamic(m)
      BY <1>4, <2>1, <3>1, <3>2, IdsOf DEF HeapOwned, Ids
    <3>3. CASE ~Dynamic(m)
      BY <1>4, <2>1, <3>1, <3>3 DEF HeapOwned, Ids
    <3> QED BY <3>2, <3>3
  <2> QED BY <2>4, <2>5, <2>6 DEF HeapInv
<1> QED BY <1>5, <1>6

LEMMA TakeHeap == HeapInv /\ TakeResponse => HeapInv'
<1> SUFFICES ASSUME HeapInv, TakeResponse PROVE HeapInv'
  OBVIOUS
<1> DEFINE m == Head(respQueue)
           Mine == IF processor.step = "answer" THEN At(processor) ELSE {}
           Rest == {n \in ToSet(Tail(respQueue)) : Dynamic(n)}
<1>1. /\ respQueue # <<>> /\ respQueue' = Tail(respQueue) /\ publisher = Idle
      /\ cmdQueue' = cmdQueue /\ processor' = processor /\ connected' = connected
      /\ \/ publisher' = Busy("publish", m) /\ live' = live
         \/ /\ publisher' = Idle
            /\ live' = IF Dynamic(m) THEN live \ {m.id} ELSE live
  BY DEF TakeResponse, outside, FreeDynamic, Free
<1>2. /\ Tail(respQueue) \in Seq(Item) /\ m \in Item /\ Single(Tail(respQueue))
      /\ ToSet(respQueue) = {m} \cup ToSet(Tail(respQueue))
      /\ m.id \notin Ids(ToSet(Tail(respQueue))) /\ Len(Tail(respQueue)) <= Len(respQueue)
  BY <1>1, Departs DEF HeapInv, Places, Apart
<1>3. Ids(ToSet(respQueue)) = {m.id} \cup Ids(ToSet(respQueue'))
  BY <1>1, <1>2 DEF Ids
<1>4. At(publisher) = {} /\ (At(publisher') = {m} \/ At(publisher') = {})
  BY <1>1, BusyAt
<1>5. m.id \notin Ids(Mine) /\ m.id \notin Ids(Rest)
  BY <1>1, <1>2, <1>3, IdsOf DEF HeapInv, Apart, Ids
<1>6. Places'
  BY <1>1, <1>2, QueueAssumption DEF HeapInv, Places, Busy
<1>7. Apart'
  <2>1. Ids(At(publisher')) \subseteq {m.id}
    BY <1>4, IdsOf
  <2> QED BY <1>1, <1>2, <1>3, <2>1 DEF HeapInv, Apart
<1>8. HeapOwned'
  <2>1. Owned = Rest \cup Mine \cup {n \in {m} : Dynamic(n)}
    BY <1>2, <1>4 DEF Owned, Dynamic
  <2>2. CASE publisher' = Busy("publish", m) /\ live' = live
    <3>1. Owned' = Rest \cup Mine \cup {n \in {m} : Dynamic(n)}
      BY <1>1, <2>2, BusyAt DEF Owned, Dynamic
    <3> QED BY <2>1, <2>2, <3>1 DEF HeapInv, HeapOwned
  <2>3. CASE publisher' = Idle /\ live' = IF Dynamic(m) THEN live \ {m.id} ELSE live
    <3>1. Owned' = Rest \cup Mine
      BY <1>1, <2>3, BusyAt DEF Owned, Dynamic
    <3>2. live = Ids(Owned)
      BY DEF HeapInv, HeapOwned, Ids
    <3>3. m.id \notin Ids(Rest \cup Mine)
      BY <1>5, IdsOf
    <3>4. CASE Dynamic(m)
      <4>1. live = Ids(Rest \cup Mine) \cup {m.id}
        BY <2>1, <3>2, <3>4 DEF Ids
      <4> QED BY <2>3, <3>1, <3>3, <3>4, <4>1 DEF HeapOwned, Ids
    <3>5. CASE ~Dynamic(m)
      BY <2>1, <2>3, <3>1, <3>2, <3>5 DEF HeapOwned, Ids
    <3> QED BY <3>4, <3>5
  <2> QED BY <1>1, <2>2, <2>3
<1> QED BY <1>6, <1>7, <1>8 DEF HeapInv

LEMMA PublishHeap == HeapInv /\ Publish => HeapInv'
<1> SUFFICES ASSUME HeapInv, Publish PROVE HeapInv'
  OBVIOUS
<1> DEFINE m == publisher.message
           Mine == IF processor.step = "answer" THEN At(processor) ELSE {}
           Rest == {n \in ToSet(respQueue) : Dynamic(n)}
<1>1. /\ publisher # Idle /\ publisher' = Idle /\ cmdQueue' = cmdQueue /\ respQueue' = respQueue
      /\ processor' = processor /\ connected' = connected
      /\ live' = IF Dynamic(m) THEN live \ {m.id} ELSE live
  BY DEF Publish, outside, queues, FreeDynamic, Free
<1>2. m \in Item /\ At(publisher) = {m} /\ At(publisher') = {}
  BY <1>1 DEF HeapInv, Places, At
<1>3. Places' /\ Apart'
  BY <1>1, <1>2, IdsOf DEF HeapInv, Places, Apart
<1>4. m.id \notin Ids(Rest \cup Mine)
  BY <1>2, IdsOf DEF HeapInv, Apart, Ids
<1>5. Owned = Rest \cup Mine \cup {n \in {m} : Dynamic(n)} /\ Owned' = Rest \cup Mine
  BY <1>1, <1>2 DEF Owned, Dynamic
<1>6. live = Ids(Owned)
  BY DEF HeapInv, HeapOwned, Ids
<1>7. HeapOwned'
  <2>1. CASE Dynamic(m)
    <3>1. live = Ids(Rest \cup Mine) \cup {m.id}
      BY <1>5, <1>6, <2>1 DEF Ids
    <3> QED BY <1>1, <1>4, <1>5, <2>1, <3>1 DEF HeapOwned, Ids
  <2>2. CASE ~Dynamic(m)
    BY <1>1, <1>5, <1>6, <2>2 DEF HeapOwned, Ids
  <2> QED BY <2>1, <2>2
<1> QED BY <1>3, <1>7 DEF HeapInv

(* A message that arrives is in none of the places yet. *)
LEMMA ArriveHeap == HeapInv /\ queueIncomingCommand => HeapInv'
<1> SUFFICES ASSUME HeapInv, queueIncomingCommand PROVE HeapInv'
  OBVIOUS
<1>1. PICK m \in Item : m.id \notin {p.id : p \in Present} /\ cmdQueue' = Append(cmdQueue, m)
  BY DEF queueIncomingCommand
<1>2. /\ Len(cmdQueue) < CMD_QUEUE_DEPTH /\ respQueue' = respQueue /\ processor' = processor
      /\ publisher' = publisher /\ live' = live /\ connected' = connected
  BY DEF queueIncomingCommand, tasks, outside
<1>3. m.id \notin Ids(ToSet(cmdQueue)) \cup Ids(ToSet(respQueue))
                   \cup Ids(At(processor)) \cup Ids(At(publisher))
  BY <1>1 DEF Present, Ids
<1>4. cmdQueue \in Seq(Item) /\ Single(cmdQueue)
  BY DEF HeapInv, Places, Apart
<1>5. /\ cmdQueue' \in Seq(Item) /\ Len(cmdQueue') = Len(cmdQueue) + 1
      /\ ToSet(cmdQueue') = ToSet(cmdQueue) \cup {m}
      /\ Single(cmdQueue')
  BY <1>1, <1>3, <1>4, ToSetAppend, SingleAppend
<1>6. Places'
  BY <1>2, <1>4, <1>5, QueueAssumption DEF HeapInv, Places
<1>7. Apart'
  <2>1. Ids(ToSet(cmdQueue')) = Ids(ToSet(cmdQueue)) \cup {m.id}
    BY <1>5 DEF Ids
  <2> QED BY <1>2, <1>3, <1>5, <2>1 DEF HeapInv, Apart
<1>8. HeapOwned'
  BY <1>2 DEF HeapInv, HeapOwned, Owned
<1> QED BY <1>6, <1>7, <1>8 DEF HeapInv

LEMMA IdleHeap ==
  HeapInv /\ UNCHANGED <<queues, tasks, live>> /\ connected' \in BOOLEAN => HeapInv'
  BY DEF queues, tasks, HeapInv, Places, Apart, HeapOwned, Owned

LEMMA NextHeap == HeapInv /\ [Next]_vars => HeapInv'
<1> SUFFICES ASSUME HeapInv, [Next]_vars PROVE HeapInv'
  OBVIOUS
<1>1. CASE Receive
  BY <1>1, ReceiveHeap
<1>2. CASE Limit \/ Malformed \/ Call
  BY <1>2, ProcessHeap
<1>3. CASE AnswerQueued \/ AnswerLost
  BY <1>3, AnswerHeap
<1>4. CASE TakeResponse
  BY <1>4, TakeHeap
<1>5. CASE Publish
  BY <1>5, PublishHeap
<1>6. CASE queueIncomingCommand
  BY <1>6, ArriveHeap
<1>7. CASE Time \/ BrokerChanges \/ UpdateStarts \/ UpdateEnds \/ UNCHANGED vars
  <2>1. UNCHANGED <<queues, tasks, live>>
    BY <1>7 DEF Time, BrokerChanges, UpdateStarts, UpdateEnds, Elsewhere, vars
  <2>2. connected' \in BOOLEAN
    BY <1>7 DEF HeapInv, Places, Time, BrokerChanges, UpdateStarts, UpdateEnds, outside, vars
  <2> QED BY <2>1, <2>2, IdleHeap
<1> QED
  BY <1>1, <1>2, <1>3, <1>4, <1>5, <1>6, <1>7 DEF Next, commandProcessorTask, publisherTask

LEMMA HeapTypes == HeapInv => live \subseteq Message
<1> SUFFICES ASSUME HeapInv, NEW n \in Owned PROVE n.id \in Message
  BY DEF HeapInv, HeapOwned
<1>1. \A m \in ToSet(respQueue) : m \in Item
  BY DEF HeapInv, Places, ToSet
<1>2. \A m \in At(processor) \cup At(publisher) : m \in Item
  BY DEF HeapInv, Places, At
<1>3. n \in Item
  BY <1>1, <1>2 DEF Owned
<1> QED BY <1>3 DEF Item

(* While an update runs at most one message is executed. *)
THEOREM GateHolds == Spec => []OneSlips
<1>1. GateInv => OneSlips
  BY DEF GateInv, OneSlips
<1> QED BY <1>1, InitGate, NextGate, PTL DEF Spec

(* Whatever is dropped, lost or out of memory, a response string is on the *)
(* heap exactly as long as somebody owes its release, and at most one      *)
(* message is executed while an update runs.                               *)
THEOREM CommandsContained == Spec => []CommandsInv
<1>1. Spec => [](WindowInv /\ GateInv /\ HeapInv)
  BY InitWindow, NextWindow, InitGate, NextGate, InitHeap, NextHeap, PTL DEF Spec
<1>2. WindowInv /\ GateInv /\ HeapInv => CommandsInv
  BY HeapTypes DEF WindowInv, GateInv, HeapInv, Places, TypeOK, CommandsInv, OneSlips
<1> QED BY <1>1, <1>2, PTL

-----------------------------------------------------------------------------
(***************************************************************************)
(* The network and the client of the broker.                               *)
(***************************************************************************)

(* Outside configuration mode the handlers are registered; the way into it *)
(* is taken only with the mode's flag set.                                 *)
Leaving == {"stopOta", "stopWiFi", "start", "starting", "config"}

ModeInv ==
  /\ enterBit \/ main \in Leaving => isConfigModeActive
  /\ ~isConfigModeActive => registered

(* The listener works for a connection that the event loop has not yet     *)
(* seen end; there is one client at most, the handle's, with its event     *)
(* group, and none where connect() is about to create one.                 *)
LifeInv ==
  /\ loop # "idle" => connectedToAp
  /\ ~isConfigModeActive /\ ~connectedToAp => handle = None /\ ~otaTimer
  /\ ~renewed => /\ DOMAIN clients \subseteq {handle} \ {None}
                 /\ handle # None => mqttGroup
                 /\ loop = "connect" => handle = None
                 /\ ~crashed
  /\ main \in Leaving /\ ~late => handle = None

(* What the event loop will hold for true once it has emptied the queue:   *)
(* what the last event says that speaks of the connection, or, without     *)
(* one, what it holds now.                                                 *)
Says(event, known) == event.type \in (IF known THEN {"gotIp"} ELSE {"lostIp", "disconnected"})

LastWord(q, held, known) ==
  \/ held = known /\ \A j \in 1 .. Len(q) : ~Says(q[j], ~known)
  \/ \E i \in 1 .. Len(q) :
       Says(q[i], known) /\ \A j \in i + 1 .. Len(q) : ~Says(q[j], ~known)

TidingsInv ==
  ~isConfigModeActive =>
    /\ link = "up" => LastWord(queue, connectedToAp, TRUE)
    /\ link = "down" => LastWord(queue, connectedToAp, FALSE)

(* Posting an event that says it, or one that does not deny it, and        *)
(* handling one that makes the handler hold what it says.                  *)
LEMMA WordPosted ==
  ASSUME NEW q \in Seq(Event), NEW held \in BOOLEAN, NEW known \in BOOLEAN, NEW e \in Event,
         Says(e, known) \/ (LastWord(q, held, known) /\ ~Says(e, ~known))
  PROVE  LastWord(Append(q, e), held, known)
<1> DEFINE r == Append(q, e)
<1>1. r \in Seq(Event) /\ Len(r) = Len(q) + 1 /\ r[Len(r)] = e OBVIOUS
<1>2. \A i \in 1 .. Len(q) : r[i] = q[i] OBVIOUS
<1>3. Len(q) \in Nat OBVIOUS
<1> HIDE DEF r
<1>4. CASE Says(e, known)
  <2>1. Len(r) \in 1 .. Len(r) /\ \A j \in Len(r) + 1 .. Len(r) : ~Says(r[j], ~known) BY <1>1, <1>3
  <2>2. LastWord(r, held, known) BY <1>1, <1>4, <2>1 DEF LastWord
  <2> QED BY <2>2 DEF r
<1>5. CASE LastWord(q, held, known) /\ ~Says(e, ~known)
  <2>1. \A j \in 1 .. Len(r) : j \in 1 .. Len(q) \/ r[j] = e BY <1>1, <1>3
  <2>2. CASE held = known /\ \A j \in 1 .. Len(q) : ~Says(q[j], ~known)
    <3>1. \A j \in 1 .. Len(r) : ~Says(r[j], ~known) BY <1>2, <1>5, <2>1, <2>2
    <3>2. LastWord(r, held, known) BY <2>2, <3>1 DEF LastWord
    <3> QED BY <3>2 DEF r
  <2>3. CASE \E i \in 1 .. Len(q) :
               Says(q[i], known) /\ \A j \in i + 1 .. Len(q) : ~Says(q[j], ~known)
    <3>1. PICK i \in 1 .. Len(q) :
            Says(q[i], known) /\ \A j \in i + 1 .. Len(q) : ~Says(q[j], ~known)
      BY <2>3
    <3>2. i \in 1 .. Len(r) /\ Says(r[i], known) BY <1>1, <1>2, <1>3, <3>1
    <3>3. ASSUME NEW j \in i + 1 .. Len(r) PROVE ~Says(r[j], ~known)
      <4>1. j \in 1 .. Len(r) /\ (j \in 1 .. Len(q) => j \in i + 1 .. Len(q)) BY <1>1, <1>3
      <4> QED BY <1>2, <1>5, <2>1, <3>1, <4>1
    <3>4. LastWord(r, held, known) BY <3>2, <3>3 DEF LastWord
    <3> QED BY <3>4 DEF r
  <2> QED BY <1>5, <2>2, <2>3 DEF LastWord
<1> QED BY <1>4, <1>5

LEMMA WordHandled ==
  ASSUME NEW q \in Seq(Event), q # <<>>, NEW held \in BOOLEAN, NEW next \in BOOLEAN,
         NEW known \in BOOLEAN, LastWord(q, held, known),
         Says(Head(q), known) => next = known,
         ~Says(Head(q), TRUE) /\ ~Says(Head(q), FALSE) => next = held
  PROVE  LastWord(Tail(q), next, known)
<1> DEFINE r == Tail(q)
<1>1. Len(q) \in Nat \ {0} /\ r \in Seq(Event) /\ Len(r) = Len(q) - 1 /\ Head(q) = q[1] OBVIOUS
<1>2. \A i \in 1 .. Len(r) : r[i] = q[i + 1] OBVIOUS
<1> HIDE DEF r
<1>3. CASE held = known /\ \A j \in 1 .. Len(q) : ~Says(q[j], ~known)
  <2>1. ~Says(Head(q), ~known) BY <1>1, <1>3
  <2>2. next = known
    <3>1. CASE known = TRUE BY <1>3, <2>1, <3>1
    <3>2. CASE known = FALSE BY <1>3, <2>1, <3>2
    <3> QED BY <3>1, <3>2
  <2>3. ASSUME NEW j \in 1 .. Len(r) PROVE ~Says(r[j], ~known)
    <3>1. j + 1 \in 1 .. Len(q) BY <1>1
    <3> QED BY <1>2, <1>3, <3>1
  <2>4. LastWord(r, next, known) BY <2>2, <2>3 DEF LastWord
  <2> QED BY <2>4 DEF r
<1>4. CASE \E i \in 1 .. Len(q) :
             Says(q[i], known) /\ \A j \in i + 1 .. Len(q) : ~Says(q[j], ~known)
  <2>1. PICK i \in 1 .. Len(q) :
          Says(q[i], known) /\ \A j \in i + 1 .. Len(q) : ~Says(q[j], ~known)
    BY <1>4
  <2>2. ASSUME NEW j \in i .. Len(r), 1 <= j PROVE ~Says(r[j], ~known)
    <3>1. j \in 1 .. Len(r) /\ j + 1 \in i + 1 .. Len(q) BY <1>1
    <3> QED BY <1>2, <2>1, <3>1
  <2>3. CASE i = 1
    <3>1. next = known BY <1>1, <2>1, <2>3
    <3>2. \A j \in 1 .. Len(r) : ~Says(r[j], ~known) BY <1>1, <2>2, <2>3
    <3>3. LastWord(r, next, known) BY <3>1, <3>2 DEF LastWord
    <3> QED BY <3>3 DEF r
  <2>4. CASE i # 1
    <3>1. i - 1 \in 1 .. Len(r) BY <1>1, <2>4
    <3>2. Says(r[i - 1], known)
      <4>1. r[i - 1] = q[i] BY <1>2, <3>1
      <4> QED BY <2>1, <4>1
    <3>3. \A j \in (i - 1) + 1 .. Len(r) : ~Says(r[j], ~known) BY <1>1, <2>2
    <3>4. LastWord(r, next, known) BY <3>1, <3>2, <3>3 DEF LastWord
    <3> QED BY <3>4 DEF r
  <2> QED BY <2>3, <2>4
<1> QED BY <1>3, <1>4 DEF LastWord

-----------------------------------------------------------------------------
(* The parts of the state, for the steps that leave them alone.            *)
LEMMA WaiterTypes ==
  ASSUME NetworkTypeOK
  PROVE  /\ \A b \in Bit, before \in SUBSET Bit :
              SetBit(b, before) => bits' \in SUBSET Bit
                                   /\ waiter' \in [Waiter -> {"idle", "connecting", "ok", "failed"}]
         /\ \A w \in Waiter : TryToConnect(w) =>
              /\ bits' \in SUBSET Bit /\ waiter' \in [Waiter -> {"idle", "connecting", "ok", "failed"}]
              /\ lastConnectedSSID' \in SSID \cup {NoSSID} /\ target' \in SSID \cup {NoSSID}
              /\ link' \in {"down", "joining", "joined", "up"} /\ aborted' \in BOOLEAN
              /\ UNCHANGED <<air, faults, ip, queue, connectedToAp, disconnectionReason, reconnectTimer>>
              /\ link' = link \/ link' = "joining"
<1> USE DEF NetworkTypeOK, StationTypeOK
<1>1. \A b : Given(b) \in {"ok", "failed"} BY DEF Given
<1>2. ASSUME NEW b \in Bit, NEW before \in SUBSET Bit, SetBit(b, before)
      PROVE  bits' \in SUBSET Bit /\ waiter' \in [Waiter -> {"idle", "connecting", "ok", "failed"}]
  BY <1>1, <1>2 DEF SetBit
<1>3. ASSUME NEW w \in Waiter, NEW s \in SSID, ConnectToAccessPoint(s)
      PROVE  /\ bits' = bits /\ waiter' = waiter
             /\ lastConnectedSSID' \in SSID \cup {NoSSID} /\ target' \in SSID \cup {NoSSID}
             /\ link' = link \/ link' = "joining"
             /\ aborted' \in BOOLEAN
             /\ UNCHANGED <<air, faults, ip, queue, connectedToAp, disconnectionReason, reconnectTimer>>
  BY <1>3 DEF ConnectToAccessPoint, ConnectToAp, group
<1>4. ASSUME NEW w \in Waiter, NEW s \in SSID, ConnectToAccessPointSync(w, s)
      PROVE  /\ bits' \in SUBSET Bit /\ waiter' \in [Waiter -> {"idle", "connecting", "ok", "failed"}]
             /\ lastConnectedSSID' \in SSID \cup {NoSSID} /\ target' \in SSID \cup {NoSSID}
             /\ link' = link \/ link' = "joining"
             /\ aborted' \in BOOLEAN
             /\ UNCHANGED <<air, faults, ip, queue, connectedToAp, disconnectionReason, reconnectTimer>>
  BY <1>1, <1>4 DEF ConnectToAccessPointSync, ConnectToAp, WaitBits
<1>5. ASSUME NEW w \in Waiter, TryToConnect(w)
      PROVE  /\ bits' \in SUBSET Bit /\ waiter' \in [Waiter -> {"idle", "connecting", "ok", "failed"}]
             /\ lastConnectedSSID' \in SSID \cup {NoSSID} /\ target' \in SSID \cup {NoSSID}
             /\ link' = link \/ link' = "joining"
             /\ aborted' \in BOOLEAN
             /\ UNCHANGED <<air, faults, ip, queue, connectedToAp, disconnectionReason, reconnectTimer>>
  BY <1>3, <1>4, <1>5 DEF TryToConnect, Visible, driver, station, group
<1> QED BY <1>2, <1>5

(* The types of the tasks and of the client, apart from the station's.     *)
TaskTypes ==
  /\ creds \subseteq SSID /\ reconnectBit \in BOOLEAN /\ task \in {"wait", "trying"}
  /\ main \in {"boot", "booted", "loop", "stopOta", "stopWiFi", "start", "starting", "config"}
  /\ enterBit \in BOOLEAN /\ registered \in BOOLEAN
  /\ loop \in {"idle", "connect", "waiting", "finish"} /\ otaTimer \in BOOLEAN
  /\ renewed \in BOOLEAN /\ crashed \in BOOLEAN /\ late \in BOOLEAN

ClientTypes ==
  /\ handle \in Client \cup {None} /\ DOMAIN clients \subseteq Client
  /\ \A c \in DOMAIN clients : clients[c] \in {"connecting", "connected", "unstarted"}
  /\ mqttGroup \in BOOLEAN /\ mqttConnected \in BOOLEAN /\ connectedToBroker \in BOOLEAN

LEMMA NetworkTypes == NetworkTypeOK <=> StationTypeOK /\ TaskTypes /\ ClientTypes
BY DEF NetworkTypeOK, TaskTypes, ClientTypes

(* The client's variables change in disconnect(), connect(), the events of *)
(* a client, and a restart; what the others leave alone they leave alike.  *)
LEMMA ClientSteps ==
  ASSUME [NetworkNext]_networkVars
  PROVE  UNCHANGED mqtt \/ Disconnect \/ MqttConnect \/ MqttConnectReturns \/ MqttTask \/ Restart
<1> USE DEF netVars
<1>1. Environment => UNCHANGED mqtt BY DEF Environment
<1>2. HandleConnected \/ HandleGotIp \/ HandleStarted \/ DropEvent \/ StartPeriodicUpdatesCheck
        => UNCHANGED mqtt
  BY DEF HandleConnected, HandleGotIp, HandleStarted, DropEvent, StartPeriodicUpdatesCheck
<1>3. HandleDisconnected \/ HandleLostIp => UNCHANGED mqtt \/ Disconnect
  BY DEF HandleDisconnected, HandleLostIp, Listener, NoListener
<1>4. Boot \/ BootDone \/ EnterStopsOta \/ StopWiFi \/ StartWiFiAsAccessPointStationSync => UNCHANGED mqtt
  BY DEF Boot, BootDone, EnterStopsOta, StopWiFi, StartWiFiAsAccessPointStationSync
<1>5. EnterConfigMode => Disconnect BY DEF EnterConfigMode
<1>6. ReconnectTimerCallback \/ ReconnectionTask \/ ConfigButtonLongPressed => UNCHANGED mqtt
  BY DEF ReconnectTimerCallback, ReconnectionTask, TaskWakes, TaskDone, ConfigButtonLongPressed
<1>7. UNCHANGED networkVars => UNCHANGED mqtt BY DEF networkVars
<1> QED BY <1>1, <1>2, <1>3, <1>4, <1>5, <1>6, <1>7 DEF NetworkNext, EventLoop, MainTask

LEMMA InitNetwork ==
  NetworkInit => NetworkTypeOK /\ ModeInv /\ LifeInv /\ TidingsInv
<1> SUFFICES ASSUME NetworkInit PROVE NetworkTypeOK /\ ModeInv /\ LifeInv /\ TidingsInv OBVIOUS
<1> USE NetworkAssumption DEF NetworkInit, StationInit
<1>1. StationTypeOK
  <2>1. air \in [SSID -> {"on", "off", "refusing"}] OBVIOUS
  <2>2. queue \in Seq(Event) /\ Len(queue) <= MaxEvents OBVIOUS
  <2>3. waiter \in [Waiter -> {"idle", "connecting", "ok", "failed"}] OBVIOUS
  <2>4. faults \in 0 .. MaxFaults OBVIOUS
  <2> QED BY <2>1, <2>2, <2>3, <2>4 DEF StationTypeOK, Reason
<1>2. TaskTypes /\ ClientTypes BY DEF TaskTypes, ClientTypes
<1>3. ModeInv /\ LifeInv BY DEF ModeInv, LifeInv, Leaving
<1>4. LastWord(<<>>, FALSE, FALSE) BY DEF LastWord
<1>5. TidingsInv BY <1>4 DEF TidingsInv
<1> QED BY <1>1, <1>2, <1>3, <1>5, NetworkTypes

(* What the driver posts is an event, and what a handler takes is one.     *)
LEMMA QueueTypes ==
  ASSUME NetworkTypeOK
  PROVE  /\ \A type \in {"connected", "gotIp", "lostIp", "started"} : Posted(type) \in Event
         /\ \A reason \in Reason : Disconnected(reason) \in Event
         /\ \A e \in Event : Post(e) => queue' \in Seq(Event) /\ Len(queue') <= MaxEvents
         /\ queue # <<>> => Tail(queue) \in Seq(Event) /\ Len(Tail(queue)) <= MaxEvents
         /\ \A type : Dispatch(type) => /\ queue # <<>> /\ queue' = Tail(queue)
                                       /\ Head(queue) \in Event /\ Head(queue).type = type
         /\ \A e \in Event : e.type = "disconnected" => e.reason \in Reason
<1> USE NetworkAssumption DEF NetworkTypeOK, StationTypeOK
<1>1. \A type \in {"connected", "gotIp", "lostIp", "started"} : Posted(type) \in Event
  BY DEF Posted, Event
<1>2. \A reason \in Reason : Disconnected(reason) \in Event BY DEF Disconnected, Event
<1>3. \A e \in Event : Post(e) => queue' \in Seq(Event) /\ Len(queue') <= MaxEvents BY DEF Post
<1>4. queue # <<>> => Tail(queue) \in Seq(Event) /\ Len(Tail(queue)) <= MaxEvents OBVIOUS
<1>5. \A type : Dispatch(type) => /\ queue # <<>> /\ queue' = Tail(queue)
                                /\ Head(queue) \in Event /\ Head(queue).type = type
  BY DEF Dispatch
<1>6. \A e \in Event : e.type = "disconnected" => e.reason \in Reason BY DEF Event
<1> QED BY <1>1, <1>2, <1>3, <1>4, <1>5, <1>6

(* connect() makes a client that was not there, or none.                   *)
LEMMA ClientMade ==
  ASSUME NetworkTypeOK, MqttConnect, ~NoClient
  PROVE  \E c \in Client, state \in {"connecting", "unstarted"} :
           /\ handle' = c /\ mqttGroup' = TRUE /\ loop' = "waiting"
           /\ clients' = [d \in DOMAIN clients \cup {c} |->
                            IF d = c THEN state ELSE clients[d]]
BY NetworkTypes DEF MqttConnect, CreateClient, ClientTypes

LEMMA ClientTypesKept ==
  ASSUME NetworkTypeOK, [NetworkNext]_networkVars
  PROVE  ClientTypes'
<1> USE NetworkTypes DEF ClientTypes
<1>1. CASE UNCHANGED mqtt BY <1>1 DEF mqtt
<1>2. CASE Disconnect BY <1>2 DEF Disconnect, mqtt
<1>3. CASE MqttConnect
  <2>1. UNCHANGED <<mqttConnected, connectedToBroker>> BY <1>3 DEF MqttConnect
  <2>2. CASE NoClient BY <2>1, <2>2 DEF NoClient
  <2>3. CASE ~NoClient
    <3>1. PICK c \in Client, state \in {"connecting", "unstarted"} :
            /\ handle' = c /\ mqttGroup' = TRUE /\ loop' = "waiting"
            /\ clients' = [d \in DOMAIN clients \cup {c} |->
                             IF d = c THEN state ELSE clients[d]]
      BY <1>3, <2>3, ClientMade
    <3> QED BY <2>1, <3>1
  <2> QED BY <2>2, <2>3
<1>4. CASE MqttConnectReturns BY <1>4 DEF MqttConnectReturns
<1>5. CASE MqttTask
  <2>1. PICK c \in DOMAIN clients : ClientConnected(c) \/ ClientDisconnected(c) BY <1>5 DEF MqttTask
  <2>2. CASE ClientConnected(c) BY <2>2 DEF ClientConnected
  <2>3. CASE ClientDisconnected(c) BY <2>3 DEF ClientDisconnected
  <2> QED BY <2>1, <2>2, <2>3
<1>6. CASE Restart BY <1>6 DEF Restart
<1> QED BY <1>1, <1>2, <1>3, <1>4, <1>5, <1>6, ClientSteps

LEMMA TaskTypesKept ==
  ASSUME NetworkTypeOK, [NetworkNext]_networkVars
  PROVE  TaskTypes'
<1> USE NetworkTypes DEF TaskTypes, netVars, application, observers, reconnection
<1>1. CASE Environment \/ UNCHANGED networkVars BY <1>1 DEF Environment, networkVars
<1>2. CASE HandleConnected BY <1>2 DEF HandleConnected
<1>3. CASE HandleDisconnected \/ HandleLostIp
  <2>1. UNCHANGED <<reconnection, application, loop, observers>>
    BY <1>3 DEF HandleDisconnected, HandleLostIp
  <2>2. NoListener \/ \E reason : Listener(reason) BY <1>3 DEF HandleDisconnected, HandleLostIp
  <2>3. creds' \subseteq SSID /\ otaTimer' \in BOOLEAN
    BY <2>2 DEF Listener, NoListener, Forgets
  <2> QED BY <2>1, <2>3
<1>4. CASE HandleGotIp BY <1>4 DEF HandleGotIp, StationTypeOK
<1>5. CASE HandleStarted BY <1>5 DEF HandleStarted
<1>6. CASE DropEvent BY <1>6 DEF DropEvent
<1>7. CASE MqttConnect
  <2>1. loop' \in {"waiting", "finish"} BY <1>7 DEF MqttConnect, CreateClient, NoClient
  <2> QED BY <1>7, <2>1 DEF MqttConnect, StationTypeOK
<1>8. CASE MqttConnectReturns BY <1>8 DEF MqttConnectReturns
<1>9. CASE StartPeriodicUpdatesCheck BY <1>9 DEF StartPeriodicUpdatesCheck
<1>10. CASE Boot \/ BootDone BY <1>10 DEF Boot, BootDone
<1>11. CASE EnterConfigMode \/ EnterStopsOta BY <1>11 DEF EnterConfigMode, EnterStopsOta
<1>12. CASE StopWiFi \/ StartWiFiAsAccessPointStationSync
  BY <1>12 DEF StopWiFi, StartWiFiAsAccessPointStationSync
<1>13. CASE Restart BY <1>13 DEF Restart
<1>14. CASE MqttTask
  <2>1. PICK c : ClientConnected(c) \/ ClientDisconnected(c) BY <1>14 DEF MqttTask
  <2>2. CASE ClientConnected(c) BY <2>2, NetworkTypes DEF ClientConnected, ClientTypes
  <2>3. CASE ClientDisconnected(c) BY <2>3, NetworkTypes DEF ClientDisconnected, ClientTypes
  <2> QED BY <2>1, <2>2, <2>3
<1>15. CASE ReconnectTimerCallback BY <1>15 DEF ReconnectTimerCallback
<1>16. CASE TaskWakes BY <1>16 DEF TaskWakes
<1>17. CASE TaskDone BY <1>17 DEF TaskDone
<1>18. CASE ConfigButtonLongPressed BY <1>18 DEF ConfigButtonLongPressed
<1> QED BY <1>1, <1>2, <1>3, <1>4, <1>5, <1>6, <1>7, <1>8, <1>9, <1>10, <1>11, <1>12, <1>13,
           <1>14, <1>15, <1>16, <1>17, <1>18
        DEF NetworkNext, EventLoop, MainTask, ReconnectionTask

LEMMA StationTypesKept ==
  ASSUME NetworkTypeOK, [NetworkNext]_networkVars
  PROVE  StationTypeOK'
<1>0. StationTypeOK BY NetworkTypes
<1> USE <1>0, NetworkAssumption, QueueTypes, WaiterTypes
    DEF StationTypeOK, StopReconnectTimer, stationVars, driver, station, group
<1>1. CASE Environment
  <2>1. faults' \in 0 .. MaxFaults
    BY <1>1 DEF Environment, AirChanges, Associates, LosesLink, Leases, LosesLease, LosesAddress, Fault
  <2>2. queue' \in Seq(Event) /\ Len(queue') <= MaxEvents
    BY <1>1 DEF Environment, AirChanges, Associates, LosesLink, Leases, LosesLease, LosesAddress, Reason
  <2>3. air' \in [SSID -> {"on", "off", "refusing"}]
    BY <1>1 DEF Environment, AirChanges, Associates, LosesLink, Leases, LosesLease, LosesAddress
  <2> HIDE QueueTypes, WaiterTypes
  <2> QED
    BY <1>1, <2>1, <2>2, <2>3
    DEF Environment, AirChanges, Associates, LosesLink, Leases, LosesLease, LosesAddress
<1>2. CASE HandleConnected BY <1>2 DEF HandleConnected, StaConnected
<1>3. CASE HandleDisconnected
  BY <1>3 DEF HandleDisconnected, StaDisconnected, StartReconnectTimer, Bit
<1>4. CASE HandleGotIp BY <1>4 DEF HandleGotIp, GotIp, Bit
<1>5. CASE HandleLostIp BY <1>5 DEF HandleLostIp, LostIp, Bit
<1>6. CASE HandleStarted \/ DropEvent BY <1>6 DEF HandleStarted, DropEvent
<1>7. CASE MqttConnect \/ MqttConnectReturns \/ StartPeriodicUpdatesCheck
  BY <1>7 DEF MqttConnect, Fault, MqttConnectReturns, StartPeriodicUpdatesCheck
<1>8. CASE Boot BY <1>8 DEF Boot
<1>9. CASE BootDone BY <1>9 DEF BootDone
<1>10. CASE EnterConfigMode \/ EnterStopsOta BY <1>10 DEF EnterConfigMode, EnterStopsOta
<1>11. CASE StopWiFi BY <1>11 DEF StopWiFi, Reason
<1>12. CASE StartWiFiAsAccessPointStationSync BY <1>12 DEF StartWiFiAsAccessPointStationSync
<1>13. CASE Restart
  <2>1. queue' \in Seq(Event) /\ Len(queue') <= MaxEvents BY <1>13 DEF Restart
  <2>2. waiter' \in [Waiter -> {"idle", "connecting", "ok", "failed"}] BY <1>13 DEF Restart
  <2> HIDE QueueTypes, WaiterTypes
  <2> QED BY <1>13, <2>1, <2>2 DEF Restart, Reason
<1>14. CASE MqttTask BY <1>14 DEF MqttTask, ClientConnected, ClientDisconnected, Fault
<1>15. CASE TaskWakes BY <1>15 DEF TaskWakes
<1>16. CASE TaskDone BY <1>16 DEF TaskDone
<1>17. CASE ReconnectTimerCallback \/ ConfigButtonLongPressed
  BY <1>17 DEF ReconnectTimerCallback, ConfigButtonLongPressed
<1>18. CASE UNCHANGED networkVars BY <1>18 DEF networkVars
<1> HIDE QueueTypes, WaiterTypes
<1> QED BY <1>1, <1>2, <1>3, <1>4, <1>5, <1>6, <1>7, <1>8, <1>9, <1>10, <1>11, <1>12, <1>13, <1>14,
           <1>15, <1>16, <1>17, <1>18
        DEF NetworkNext, EventLoop, MainTask, ReconnectionTask

LEMMA NetworkTypesKept ==
  ASSUME NetworkTypeOK, [NetworkNext]_networkVars
  PROVE  NetworkTypeOK'
BY StationTypesKept, TaskTypesKept, ClientTypesKept
   DEF NetworkTypeOK, TaskTypes, ClientTypes

(* The flag is set with the request, and the handlers are gone only with  *)
(* the flag set.                                                           *)
LEMMA ModeKept ==
  ASSUME NetworkTypeOK, ModeInv, [NetworkNext]_networkVars
  PROVE  ModeInv'
<1> USE DEF ModeInv, Leaving, netVars, application, stationVars
<1>1. CASE Environment
  BY <1>1 DEF Environment, AirChanges, Associates, LosesLink, Leases, LosesLease, LosesAddress
<1>2. CASE HandleConnected \/ HandleDisconnected \/ HandleGotIp \/ HandleLostIp
  BY <1>2 DEF HandleConnected, HandleDisconnected, HandleGotIp, HandleLostIp, StaConnected,
     StaDisconnected, GotIp, LostIp
<1>3. CASE HandleStarted \/ DropEvent BY <1>3 DEF HandleStarted, DropEvent
<1>4. CASE MqttConnect \/ MqttConnectReturns \/ StartPeriodicUpdatesCheck
  BY <1>4 DEF MqttConnect, MqttConnectReturns, StartPeriodicUpdatesCheck
<1>5. CASE Boot \/ BootDone BY <1>5 DEF Boot, BootDone
<1>6. CASE EnterConfigMode \/ EnterStopsOta BY <1>6 DEF EnterConfigMode, EnterStopsOta
<1>7. CASE StopWiFi \/ StartWiFiAsAccessPointStationSync
  BY <1>7 DEF StopWiFi, StartWiFiAsAccessPointStationSync
<1>8. CASE Restart BY <1>8 DEF Restart
<1>9. CASE MqttTask BY <1>9 DEF MqttTask, ClientConnected, ClientDisconnected
<1>10. CASE ReconnectTimerCallback \/ TaskWakes BY <1>10 DEF ReconnectTimerCallback, TaskWakes
<1>11. CASE TaskDone \/ ConfigButtonLongPressed BY <1>11 DEF TaskDone, ConfigButtonLongPressed
<1>12. CASE UNCHANGED networkVars BY <1>12 DEF networkVars
<1> QED BY <1>1, <1>2, <1>3, <1>4, <1>5, <1>6, <1>7, <1>8, <1>9, <1>10, <1>11, <1>12
        DEF NetworkNext, EventLoop, MainTask, ReconnectionTask

(* disconnect() leaves no client behind that the handle does not name.     *)
LEMMA ClientDestroyed ==
  ASSUME NetworkTypeOK, Disconnect
  PROVE  /\ handle' = None
         /\ DOMAIN clients \subseteq {handle} \ {None} => DOMAIN clients' = {}
BY DEF Disconnect, mqtt, NetworkTypeOK

LEMMA LifeKept ==
  ASSUME NetworkTypeOK, ModeInv, LifeInv, [NetworkNext]_networkVars
  PROVE  LifeInv'
<1> USE DEF LifeInv, netVars, application, mqtt, observers, stationVars, station
<1>1. CASE Environment
  BY <1>1 DEF Environment, AirChanges, Associates, LosesLink, Leases, LosesLease, LosesAddress
<1>2. CASE HandleConnected \/ DropEvent BY <1>2 DEF HandleConnected, StaConnected, DropEvent
<1>3. CASE HandleDisconnected
  <2>1. CASE TellsDisconnected
    BY <1>3, <2>1, ClientDestroyed
    DEF HandleDisconnected, TellsDisconnected, Listener, StaDisconnected, Ready
  <2>2. CASE ~TellsDisconnected
    BY <1>3, <2>2 DEF HandleDisconnected, TellsDisconnected, NoListener, StaDisconnected, Ready
  <2> QED BY <2>1, <2>2
<1>4. CASE HandleGotIp BY <1>4 DEF HandleGotIp, GotIp, Ready, TellsConnected
<1>5. CASE HandleLostIp
  <2>1. CASE TellsLostIp
    BY <1>5, <2>1, ClientDestroyed DEF HandleLostIp, TellsLostIp, Listener, LostIp, Ready
  <2>2. CASE ~TellsLostIp BY <1>5, <2>2 DEF HandleLostIp, TellsLostIp, NoListener, LostIp, Ready
  <2> QED BY <2>1, <2>2
<1>6. CASE HandleStarted BY <1>6 DEF HandleStarted, Leaving
<1>7. CASE MqttConnect
  <2>1. loop = "connect" /\ late' = (late \/ isConfigModeActive)
        /\ UNCHANGED <<connectedToAp, isConfigModeActive, otaTimer, renewed, crashed, main>>
    BY <1>7 DEF MqttConnect
  <2>2. main \in Leaving => late' BY <2>1 DEF ModeInv
  <2>3. CASE NoClient
    <3>1. loop' = "finish" /\ clients' = clients BY <2>3 DEF NoClient
    <3>2. handle' = None \/ (~mqttGroup /\ UNCHANGED <<handle, mqttGroup>>) BY <2>3 DEF NoClient
    <3> QED BY <2>1, <2>2, <3>1, <3>2
  <2>4. CASE ~NoClient
    <3>1. PICK c \in Client, state \in {"connecting", "unstarted"} :
            /\ handle' = c /\ mqttGroup' = TRUE /\ loop' = "waiting"
            /\ clients' = [d \in DOMAIN clients \cup {c} |->
                             IF d = c THEN state ELSE clients[d]]
      BY <1>7, <2>4, ClientMade
    <3>2. c # None BY NetworkAssumption
    <3>3. ~renewed => DOMAIN clients' = {c} BY <2>1, <3>1
    <3> QED BY <2>1, <2>2, <3>1, <3>2, <3>3
  <2> QED BY <2>3, <2>4
<1>8. CASE MqttConnectReturns \/ StartPeriodicUpdatesCheck
  BY <1>8 DEF MqttConnectReturns, StartPeriodicUpdatesCheck
<1>9. CASE Boot BY <1>9, WaiterTypes, NetworkAssumption DEF Boot, Leaving
<1>10. CASE BootDone BY <1>10 DEF BootDone, Leaving
<1>11. CASE EnterConfigMode BY <1>11, ClientDestroyed DEF EnterConfigMode, ModeInv, Leaving
<1>12. CASE EnterStopsOta \/ StopWiFi \/ StartWiFiAsAccessPointStationSync
  BY <1>12 DEF EnterStopsOta, StopWiFi, StartWiFiAsAccessPointStationSync, Leaving
<1>13. CASE Restart BY <1>13 DEF Restart, Leaving
<1>14. CASE MqttTask
  <2>1. PICK c \in DOMAIN clients : ClientConnected(c) \/ ClientDisconnected(c) BY <1>14 DEF MqttTask
  <2>2. ~renewed => c = handle /\ handle # None BY <2>1
  <2>3. CASE ClientConnected(c)
    BY <2>2, <2>3 DEF ClientConnected, NetworkTypeOK
  <2>4. CASE ClientDisconnected(c)
    BY <2>2, <2>4 DEF ClientDisconnected, NetworkTypeOK
  <2> QED BY <2>1, <2>3, <2>4
<1>15. CASE ReconnectTimerCallback BY <1>15 DEF ReconnectTimerCallback
<1>16. CASE TaskWakes BY <1>16, WaiterTypes, NetworkAssumption DEF TaskWakes
<1>17. CASE TaskDone \/ ConfigButtonLongPressed BY <1>17 DEF TaskDone, ConfigButtonLongPressed
<1>18. CASE UNCHANGED networkVars BY <1>18 DEF networkVars
<1> QED BY <1>1, <1>2, <1>3, <1>4, <1>5, <1>6, <1>7, <1>8, <1>9, <1>10, <1>11, <1>12, <1>13, <1>14,
           <1>15, <1>16, <1>17, <1>18
        DEF NetworkNext, EventLoop, MainTask, ReconnectionTask

(* Posting and handling, in terms of what the queue says at its end.       *)
LEMMA TidingsPosted ==
  ASSUME NetworkTypeOK, NEW known \in BOOLEAN, NEW e \in Event, Post(e), UNCHANGED connectedToAp,
         Says(e, known) \/ (LastWord(queue, connectedToAp, known) /\ ~Says(e, ~known))
  PROVE  LastWord(queue', connectedToAp', known)
BY WordPosted DEF Post, NetworkTypeOK, StationTypeOK

LEMMA TidingsHandled ==
  ASSUME NetworkTypeOK, NEW known \in BOOLEAN, NEW type, Dispatch(type),
         connectedToAp' = IF type = "gotIp" THEN TRUE
                          ELSE IF type \in {"lostIp", "disconnected"} THEN FALSE ELSE connectedToAp,
         LastWord(queue, connectedToAp, known)
  PROVE  LastWord(queue', connectedToAp', known)
<1>1. queue \in Seq(Event) /\ connectedToAp \in BOOLEAN BY DEF NetworkTypeOK, StationTypeOK
<1>2. queue # <<>> /\ queue' = Tail(queue) /\ Head(queue).type = type BY QueueTypes
<1>3. connectedToAp' \in BOOLEAN BY <1>1
<1>4. Says(Head(queue), known) => connectedToAp' = known BY <1>2 DEF Says
<1>5. ~Says(Head(queue), TRUE) /\ ~Says(Head(queue), FALSE) => connectedToAp' = connectedToAp
  BY <1>2 DEF Says
<1> QED BY <1>1, <1>2, <1>3, <1>4, <1>5, WordHandled

LEMMA TidingsKept ==
  ASSUME NetworkTypeOK, ModeInv, TidingsInv, [NetworkNext]_networkVars
  PROVE  TidingsInv'
<1> USE DEF TidingsInv, ModeInv, Leaving, netVars, application, stationVars, station, driver
<1>1. CASE Environment
  <2>1. CASE (\E s \in SSID : AirChanges(s)) \/ LosesLease
    BY <1>1, <2>1 DEF Environment, AirChanges, LosesLease
  <2>2. CASE Associates
    <3>1. Posted("connected") \in Event /\ ~Says(Posted("connected"), FALSE)
      BY QueueTypes DEF Says, Posted
    <3> QED BY <2>2, <3>1, TidingsPosted DEF Associates
  <2>3. CASE LosesLink
    <3>1. PICK r \in Reason : Post(Disconnected(r)) BY <2>3 DEF LosesLink, Reason
    <3>2. Disconnected(r) \in Event /\ Says(Disconnected(r), FALSE) BY QueueTypes DEF Says, Disconnected
    <3> QED BY <2>3, <3>1, <3>2, TidingsPosted DEF LosesLink
  <2>4. CASE Leases
    <3>1. Posted("gotIp") \in Event /\ Says(Posted("gotIp"), TRUE) BY QueueTypes DEF Says, Posted
    <3> QED BY <2>4, <3>1, TidingsPosted DEF Leases
  <2>5. CASE LosesAddress
    <3>1. Posted("lostIp") \in Event /\ Says(Posted("lostIp"), FALSE) BY QueueTypes DEF Says, Posted
    <3> QED BY <2>5, <3>1, TidingsPosted DEF LosesAddress
  <2> QED BY <1>1, <2>1, <2>2, <2>3, <2>4, <2>5 DEF Environment
<1>2. CASE HandleConnected BY <1>2, TidingsHandled DEF HandleConnected, StaConnected
<1>3. CASE HandleDisconnected BY <1>3, TidingsHandled DEF HandleDisconnected, StaDisconnected
<1>4. CASE HandleGotIp BY <1>4, TidingsHandled DEF HandleGotIp, GotIp
<1>5. CASE HandleLostIp BY <1>5, TidingsHandled DEF HandleLostIp, LostIp
<1>6. CASE HandleStarted \/ DropEvent BY <1>6 DEF HandleStarted, DropEvent
<1>7. CASE MqttConnect \/ MqttConnectReturns \/ StartPeriodicUpdatesCheck
  BY <1>7 DEF MqttConnect, MqttConnectReturns, StartPeriodicUpdatesCheck
<1>8. CASE Boot BY <1>8, WaiterTypes, NetworkAssumption DEF Boot
<1>9. CASE BootDone \/ EnterConfigMode \/ EnterStopsOta
  BY <1>9 DEF BootDone, EnterConfigMode, EnterStopsOta
<1>10. CASE StopWiFi \/ StartWiFiAsAccessPointStationSync
  BY <1>10 DEF StopWiFi, StartWiFiAsAccessPointStationSync
<1>11. CASE Restart
  <2>1. LastWord(queue', connectedToAp', FALSE) BY <1>11 DEF Restart, LastWord
  <2> QED BY <1>11, <2>1 DEF Restart
<1>12. CASE MqttTask
  <2>1. PICK c : ClientConnected(c) \/ ClientDisconnected(c) BY <1>12 DEF MqttTask
  <2>2. CASE ClientConnected(c) BY <2>2 DEF ClientConnected
  <2>3. CASE ClientDisconnected(c) BY <2>3 DEF ClientDisconnected
  <2> QED BY <2>1, <2>2, <2>3
<1>13. CASE TaskWakes BY <1>13, WaiterTypes, NetworkAssumption DEF TaskWakes
<1>14. CASE ReconnectTimerCallback \/ TaskDone \/ ConfigButtonLongPressed
  BY <1>14 DEF ReconnectTimerCallback, TaskDone, ConfigButtonLongPressed
<1>15. CASE UNCHANGED networkVars BY <1>15 DEF networkVars
<1> QED BY <1>1, <1>2, <1>3, <1>4, <1>5, <1>6, <1>7, <1>8, <1>9, <1>10, <1>11, <1>12, <1>13, <1>14,
           <1>15
        DEF NetworkNext, EventLoop, MainTask, ReconnectionTask

LEMMA NetworkInvariant == NetworkSpec => [](NetworkTypeOK /\ ModeInv /\ LifeInv /\ TidingsInv)
<1>1. NetworkTypeOK /\ ModeInv /\ LifeInv /\ TidingsInv /\ [NetworkNext]_networkVars
        => NetworkTypeOK' /\ ModeInv' /\ LifeInv' /\ TidingsInv'
  BY NetworkTypesKept, ModeKept, LifeKept, TidingsKept
<1> QED BY <1>1, InitNetwork, PTL DEF NetworkSpec

(* No client of the broker outlives what it was made for (ClientInv): the  *)
(* connection, configuration mode, the event group its handler reports to; *)
(* and none is made beside another, but for the renewal of an address.     *)
(* For every set of networks, of clients and every depth of the queue.     *)
THEOREM ClientsEnd == NetworkSpec => []ClientInv
<1>1. NetworkTypeOK /\ ModeInv /\ LifeInv => ClientInv
  BY DEF ClientInv, LifeInv, TornDown, ClientOwned, GroupExists, ConfigModeOffline, Leaving
<1> QED BY <1>1, NetworkInvariant, PTL

(* The manager's connectedToAp is what the driver says once the event loop *)
(* has caught up (StateFollowsLink), whatever crossed on the way.          *)
THEOREM FlagFollows == NetworkSpec => []StateFollowsLink
<1>1. NetworkTypeOK /\ TidingsInv => StateFollowsLink
  BY DEF TidingsInv, StateFollowsLink, LastWord, NetworkTypeOK, StationTypeOK
<1> QED BY <1>1, NetworkInvariant, PTL
=============================================================================
