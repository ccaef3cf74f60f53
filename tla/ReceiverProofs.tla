----------------------------- MODULE ReceiverProofs -----------------------------
(***************************************************************************)
(* The port of the RF module, proved for any number of requests, sessions  *)
(* and faults and for every timeout: who writes to the module, and when    *)
(* the watchdog speaks.                                                    *)
(***************************************************************************)
EXTENDS Receiver, SequenceTheorems, TLAPS

Sessions == [at : {"none", "take", "over", "enter", "prompt", "command", "response", "exit", "release"},
             kind : {"none", "query", "config"}, result : {"none", "own", "other"}]

Requests == [doing : {"none", "get", "post"}, left : Int, checked : BOOLEAN]

Holding == {"enter", "prompt", "command", "response", "exit", "release"}

(* The mutex, the flag and the module follow the session, which serves a   *)
(* request; the mutex is also what the sender writes under.                *)
PortInv ==
  /\ session \in Sessions /\ request \in Requests /\ rfModuleInConfigMode \in BOOLEAN
  /\ session.at = "none" <=> request.doing = "none"
  /\ port = "http" <=> session.at \in Holding
  /\ port = "http" <=> rfModuleInConfigMode
  /\ port = "mqtt" <=> sender = "writing"
  /\ module = "config" => session.at \in Holding \ {"enter", "release"}
  /\ module \in {"radio", "config"} /\ port \in {"free", "http", "mqtt"}
  /\ sender \in {"idle", "sending", "writing"}

(* What the timer has still to go and what has passed since the last       *)
(* reading make up the timeout, except while a reading waits for the timer *)
(* to be started anew.  A timer that has started over by itself, or for a  *)
(* packet that held no reading, has more to go.                            *)
WatchInv ==
  /\ timer \in 1 .. T /\ quiet \in 0 .. T
  /\ timeoutBit \in BOOLEAN /\ accepted \in BOOLEAN
  /\ accepted \/ T <= timer + quiet

(* UART_TIMEOUT_BIT is raised after a silence (AlarmAfterSilence). *)
NoFalseAlarm == timeoutBit' /\ ~timeoutBit => quiet' = T \/ accepted

portVars == <<session, request, rfModuleInConfigMode, port, module, sender>>

LEMMA InitPort == Init => PortInv
<1> SUFFICES ASSUME Init PROVE PortInv OBVIOUS
<1>1. session \in Sessions /\ session.at = "none" BY DEF Init, Sessions, NoSession
<1>2. request \in Requests /\ request.doing = "none" BY DEF Init, Requests, NoRequest
<1> QED BY <1>1, <1>2 DEF Init, PortInv, Holding

LEMMA InitWatch == Init => WatchInv
<1> SUFFICES ASSUME Init PROVE WatchInv OBVIOUS
<1>1. timer = T /\ quiet = 0 /\ timeoutBit = FALSE /\ accepted = FALSE BY DEF Init
<1>2. T \in Nat \ {0} BY ReceiverAssumption DEF T
<1>3. timer \in 1 .. T /\ quiet \in 0 .. T /\ T <= timer + quiet BY <1>1, <1>2
<1> QED BY <1>1, <1>3 DEF WatchInv

-----------------------------------------------------------------------------
(* The session: taking the port, using it, giving it back. *)

LEMMA PortStays ==
  ASSUME PortInv, UNCHANGED portVars
  PROVE  PortInv'
BY DEF PortInv, portVars

LEMMA SessionPort ==
  ASSUME PortInv, Session
  PROVE  PortInv'
<1> USE DEF PortInv, Sessions, Requests, Holding
<1>1. CASE Take BY <1>1 DEF Take, radio
<1>2. CASE TakeFails BY <1>2 DEF TakeFails, radio
<1>3. CASE enterRFConfigMode BY <1>3 DEF enterRFConfigMode
<1>4. CASE ReadPrompt BY <1>4 DEF ReadPrompt, Abandoned
<1>5. CASE Command
  <2>1. session' = [session EXCEPT !.at = "response"] \/ session' = Abandoned
    BY <1>5 DEF Command
  <2>2. UNCHANGED <<rfModuleInConfigMode, request, port, module, sender>> /\ session.at = "command"
    BY <1>5 DEF Command
  <2> QED BY <2>1, <2>2 DEF Abandoned
<1>6. CASE ReadResponse
  <2>1. \/ \E result \in {Result(inbox[1]), "none"} :
             session' = [session EXCEPT !.at = "exit", !.result = result]
        \/ session' = Abandoned
    BY <1>6 DEF ReadResponse
  <2>2. UNCHANGED <<rfModuleInConfigMode, request, port, module, sender>> /\ session.at = "response"
    BY <1>6 DEF ReadResponse
  <2>3. Result(inbox[1]) \in {"none", "own", "other"} BY DEF Result
  <2> QED BY <2>1, <2>2, <2>3 DEF Abandoned
<1>7. CASE exitRFConfigMode BY <1>7 DEF exitRFConfigMode
<1>8. CASE Release BY <1>8 DEF Release, radio
<1>9. CASE Continue
  <2>1. session.at = "over" /\ UNCHANGED <<rfModuleInConfigMode, port, module, sender>>
    BY <1>9 DEF Continue, radio
  <2>2. CASE /\ \E kind \in {"query", "config"} : Ask(kind)
             /\ request' = [request EXCEPT !.checked = TRUE, !.left = @ - 1]
    <3>1. session' \in Sessions /\ session'.at = "take" BY <2>2 DEF Ask, NoSession
    <3>2. request.left \in Int /\ request.left - 1 \in Int OBVIOUS
    <3>3. request' = [request EXCEPT !.checked = TRUE, !.left = request.left - 1] BY <2>2
    <3>4. request' \in Requests BY <3>2, <3>3
    <3>5. request'.doing = request.doing BY <3>3
    <3> QED BY <2>1, <3>1, <3>4, <3>5
  <2>3. CASE session' = NoSession /\ request' = NoRequest
    BY <2>1, <2>3 DEF NoSession, NoRequest
  <2> QED BY <1>9, <2>2, <2>3 DEF Continue
<1> QED BY <1>1, <1>2, <1>3, <1>4, <1>5, <1>6, <1>7, <1>8, <1>9 DEF Session

(* The requests and the sender. *)
LEMMA OthersPort ==
  ASSUME PortInv, rfConfigGet \/ rfConfigPost \/ sendData \/ SendTake \/ Written
  PROVE  PortInv'
<1> USE DEF PortInv, Sessions, Requests, Holding
<1>1. ASSUME NEW doing \in {"get", "post"}, NEW n \in Int, RfConfig(doing, n) PROVE PortInv'
  <2>1. session.at = "none" BY <1>1 DEF RfConfig, NoRequest
  <2>2. session' \in Sessions /\ session'.at = "take" BY <1>1 DEF RfConfig, Ask, NoSession
  <2>3. request' \in Requests /\ request'.doing = doing BY <1>1 DEF RfConfig
  <2>4. UNCHANGED <<rfModuleInConfigMode, port, module, sender>> BY <1>1 DEF RfConfig, radio
  <2> QED BY <2>1, <2>2, <2>3, <2>4
<1>. Queries \in Int BY ReceiverAssumption
<1>2. CASE sendData BY <1>2 DEF sendData, config, radio
<1>3. CASE SendTake BY <1>3 DEF SendTake, config, radio
<1>4. CASE Written BY <1>4 DEF Written, config, radio
<1> QED BY <1>1, <1>2, <1>3, <1>4 DEF rfConfigGet, rfConfigPost

-----------------------------------------------------------------------------
(* The timer and the silence. *)

watchVars == <<timer, quiet, timeoutBit, accepted>>

LEMMA WatchStays ==
  ASSUME WatchInv, UNCHANGED watchVars
  PROVE  WatchInv'
BY DEF WatchInv, watchVars, T

LEMMA TickWatch ==
  ASSUME WatchInv, Tick
  PROVE  WatchInv' /\ NoFalseAlarm
<1> USE DEF WatchInv
<1>1. T \in Nat \ {0} BY ReceiverAssumption DEF T
<1>2. /\ timer' = IF timer = 1 THEN T ELSE timer - 1
      /\ quiet' = IF quiet < T THEN quiet + 1 ELSE T
      /\ timeoutBit' = (timeoutBit \/ timer = 1) /\ accepted' = accepted
  BY DEF Tick
<1>3. T' = T BY DEF T
<1>4. timer' \in 1 .. T /\ quiet' \in 0 .. T BY <1>1, <1>2
<1>5. T <= timer + quiet => T <= timer' + quiet' BY <1>1, <1>2
<1>6. timeoutBit' \in BOOLEAN BY <1>2
<1>7. timer = 1 /\ T <= timer + quiet => quiet' = T BY <1>1, <1>2
<1>8. WatchInv' BY <1>2, <1>3, <1>4, <1>5, <1>6
<1>9. NoFalseAlarm BY <1>2, <1>7 DEF NoFalseAlarm
<1> QED BY <1>8, <1>9

LEMMA AllToGo ==
  ASSUME NEW t \in Nat \ {0}, NEW q \in 0 .. t
  PROVE  t \in 1 .. t /\ t <= t + q
OBVIOUS

(* The timer starts anew: whatever the silence, it has all of it to go. *)
LEMMA AnewWatch ==
  ASSUME WatchInv, timer' = T, quiet' \in {0, quiet},
         timeoutBit' \in {FALSE, timeoutBit}, accepted' \in BOOLEAN
  PROVE  WatchInv' /\ NoFalseAlarm
<1>1. T \in Nat \ {0} BY ReceiverAssumption DEF T
<1>2. quiet' \in 0 .. T BY <1>1 DEF WatchInv
<1>3. T \in 1 .. T /\ T <= T + quiet' BY <1>1, <1>2, AllToGo
<1>4. timer' \in 1 .. T /\ T <= timer' + quiet' BY <1>3
<1>5. T' = T BY DEF T
<1>6. timeoutBit' \in BOOLEAN BY DEF WatchInv
<1>7. timeoutBit' => timeoutBit BY Zenon
<1>8. WatchInv' BY <1>2, <1>4, <1>5, <1>6 DEF WatchInv
<1> QED BY <1>7, <1>8 DEF NoFalseAlarm

(* Whatever the listener makes of a packet, the bit is not touched, and a  *)
(* reading waits for the timer.                                            *)
LEMMA PacketWatch ==
  ASSUME WatchInv, ~accepted, processReceivedPacket
  PROVE  WatchInv' /\ NoFalseAlarm
<1>1. T \in Nat \ {0} /\ T' = T BY ReceiverAssumption DEF T
<1>2. timer' = timer /\ timeoutBit' = timeoutBit
  BY DEF processReceivedPacket, NoMemory, NoReading, watchdog
<1>3. NoFalseAlarm BY <1>2 DEF NoFalseAlarm
<1>4. CASE NoMemory
  <2>1. UNCHANGED watchVars BY <1>4 DEF NoMemory, watchdog, watchVars
  <2> QED BY <1>3, <2>1, WatchStays
<1>5. CASE NoReading
  <2>1. quiet' = quiet /\ accepted' \in BOOLEAN BY <1>5 DEF NoReading
  <2>2. CASE accepted'
    <3>1. timer' \in 1 .. T /\ quiet' \in 0 .. T /\ timeoutBit' \in BOOLEAN
      BY <1>2, <2>1 DEF WatchInv
    <3> QED BY <1>1, <1>3, <2>1, <2>2, <3>1 DEF WatchInv
  <2>3. CASE ~accepted'
    <3>1. accepted' = accepted BY <2>1, <2>3 DEF WatchInv
    <3>2. UNCHANGED watchVars BY <1>2, <2>1, <3>1 DEF watchVars
    <3> QED BY <1>3, <3>2, WatchStays
  <2> QED BY <2>2, <2>3
<1>6. CASE quiet' = 0 /\ accepted' = TRUE
  <2>1. timer' \in 1 .. T /\ quiet' \in 0 .. T /\ timeoutBit' \in BOOLEAN
    BY <1>1, <1>2, <1>6 DEF WatchInv
  <2> QED BY <1>1, <1>3, <1>6, <2>1 DEF WatchInv
<1> QED BY <1>4, <1>5, <1>6 DEF processReceivedPacket

-----------------------------------------------------------------------------
(* Every step of the port keeps both, and only the timer raises the bit.   *)

LEMMA NextInv ==
  ASSUME PortInv, WatchInv, [Next]_vars
  PROVE  PortInv' /\ WatchInv' /\ NoFalseAlarm
<1>0. UNCHANGED watchVars => NoFalseAlarm BY DEF watchVars, NoFalseAlarm
<1>1. CASE HeadArrives \/ IdleRead \/ ReadError \/ Noise \/ Damaged \/ Unheard \/ Speaks
  <2>1. UNCHANGED portVars /\ UNCHANGED watchVars
    BY <1>1 DEF HeadArrives, IdleRead, ReadError, Noise, Damaged, Unheard, Speaks,
                portVars, watchVars, config, radio, watchdog
  <2> QED BY <1>0, <2>1, PortStays, WatchStays
<1>2. CASE TailArrives
  <2>1. UNCHANGED portVars BY <1>2 DEF TailArrives, portVars, config, radio
  <2>2. processReceivedPacket \/ UNCHANGED watchVars
    BY <1>2 DEF TailArrives, watchVars, watchdog
  <2>3. ~accepted BY <1>2 DEF TailArrives, AtRead
  <2> QED BY <1>0, <2>1, <2>2, <2>3, PortStays, WatchStays, PacketWatch
<1>3. CASE Session \/ rfConfigGet \/ rfConfigPost \/ sendData \/ SendTake \/ Written
  <2>1. PortInv' BY <1>3, SessionPort, OthersPort
  <2>2. UNCHANGED watchVars
    BY <1>3 DEF Session, Take, TakeFails, enterRFConfigMode, ReadPrompt, Command, ReadResponse,
                exitRFConfigMode, Release, Continue, rfConfigGet, rfConfigPost, RfConfig,
                sendData, SendTake, Written, watchVars, watchdog
  <2> QED BY <1>0, <2>1, <2>2, WatchStays
<1>4. CASE Tick
  <2>1. UNCHANGED portVars BY <1>4 DEF Tick, portVars, config, radio
  <2> QED BY <1>4, <2>1, PortStays, TickWatch
<1>5. CASE uartTimeoutTask
  <2>1. UNCHANGED portVars BY <1>5 DEF uartTimeoutTask, portVars, config, radio
  <2>2. /\ timer' = timer /\ quiet' = quiet /\ accepted' = accepted /\ timeoutBit' = FALSE
    BY <1>5 DEF uartTimeoutTask
  <2>3. WatchInv' /\ NoFalseAlarm BY <2>2 DEF WatchInv, NoFalseAlarm, T
  <2> QED BY <2>1, <2>3, PortStays
<1>6. CASE TimeoutEvent \/ ShowTimeout
  <2>1. UNCHANGED portVars /\ UNCHANGED watchVars
    BY <1>6 DEF TimeoutEvent, ShowTimeout, portVars, watchVars, config, radio
  <2> QED BY <1>0, <2>1, PortStays, WatchStays
<1>7. CASE StartWatchdog \/ EnterConfigMode
  <2>1. UNCHANGED portVars BY <1>7 DEF StartWatchdog, EnterConfigMode, portVars, config, radio
  <2>2. /\ timer' = T /\ quiet' \in {0, quiet} /\ timeoutBit' \in {FALSE, timeoutBit}
        /\ accepted' \in {FALSE, accepted}
    BY <1>7 DEF StartWatchdog, EnterConfigMode
  <2>3. accepted' \in BOOLEAN BY <2>2 DEF WatchInv
  <2> QED BY <2>1, <2>2, <2>3, PortStays, AnewWatch
<1>8. CASE UNCHANGED vars
  <2>1. UNCHANGED portVars /\ UNCHANGED watchVars
    BY <1>8 DEF vars, portVars, watchVars, config, radio, watchdog
  <2> QED BY <1>0, <2>1, PortStays, WatchStays
<1> QED BY <1>1, <1>2, <1>3, <1>4, <1>5, <1>6, <1>7, <1>8 DEF Next

LEMMA InductiveInvariant == Spec => [](PortInv /\ WatchInv)
BY InitPort, InitWatch, NextInv, PTL DEF Spec

(* sendData writes to the module only while it is not being configured,    *)
(* though it reads rfModuleInConfigMode before it waits for                *)
(* uartPortAccessMutex, and a session that is over has left the module in  *)
(* its radio mode and the port free, whatever failed in it.                *)
THEOREM NoWriteInConfig == Spec => []QuietInConfig
<1>1. PortInv => QuietInConfig BY DEF PortInv, QuietInConfig, Sessions, Holding
<1> QED BY <1>1, InductiveInvariant, PTL

(* UART_TIMEOUT_BIT is raised only when no reading has come for            *)
(* UART_DATA_RECEPTION_TIMEOUT_SEC, or one is being taken whose            *)
(* xTimerStart is still to come: whatever the listener answers for the     *)
(* packets in between, and although the timer starts over by itself.       *)
THEOREM NoEarlyAlarm == Spec => AlarmAfterSilence
<1>1. PortInv /\ WatchInv /\ [Next]_vars => [timeoutBit' /\ ~timeoutBit => quiet' = T \/ accepted]_vars
  BY NextInv DEF NoFalseAlarm
<1> QED BY <1>1, InductiveInvariant, PTL DEF Spec, AlarmAfterSilence

-----------------------------------------------------------------------------
(***************************************************************************)
(* What is read is what was meant.                                         *)
(***************************************************************************)

(* What the reception task has collected, or a session, will cost the      *)
(* packet that comes next, or is on its way.                               *)
Spoiled ==
  IF air.at = "head" THEN air.whole /\ (rxBuffer # <<"head">> \/ late)
  ELSE rxBuffer # <<>>
Owing == IF rfModuleInConfigMode \/ Spoiled THEN 1 ELSE 0

(* Every packet lost, and the one that will be, has been paid for. *)
CreditInv ==
  /\ rxBuffer \in Seq(Piece) /\ Len(rxBuffer) <= MAX_ENCODED_SIZE
  /\ late \in BOOLEAN /\ errors \in 0 .. MAX_CONSECUTIVE_ERRORS - 1
  /\ air \in [at : {"none", "head"}, whole : BOOLEAN]
  /\ missed \in Nat /\ hits \in Nat
  /\ missed + Owing <= hits

creditVars == <<reception, air, rfModuleInConfigMode, missed, hits>>

LEMMA InitCredit == Init => CreditInv
<1> SUFFICES ASSUME Init PROVE CreditInv OBVIOUS
<1>1. rxBuffer = <<>> /\ air = Quiet /\ late = FALSE /\ errors = 0 /\ missed = 0 /\ hits = 0
      /\ rfModuleInConfigMode = FALSE
  BY DEF Init
<1>2. rxBuffer \in Seq(Piece) /\ Len(rxBuffer) = 0 BY <1>1
<1>3. Owing = 0 BY <1>1 DEF Owing, Spoiled, Quiet
<1>4. MAX_ENCODED_SIZE \in Nat /\ 0 \in 0 .. MAX_CONSECUTIVE_ERRORS - 1 BY ReceiverAssumption
<1>5. missed + Owing <= hits /\ missed \in Nat /\ hits \in Nat BY <1>1, <1>3
<1>6. Len(rxBuffer) <= MAX_ENCODED_SIZE BY <1>2, <1>4
<1>7. air \in [at : {"none", "head"}, whole : BOOLEAN] BY <1>1 DEF Quiet
<1> QED BY <1>1, <1>2, <1>4, <1>5, <1>6, <1>7 DEF CreditInv

(* What a piece leaves behind: it joins what was there, or begins anew. *)
LEMMA CollectType ==
  ASSUME CreditInv, NEW piece \in Piece, NEW buffer \in Collect(piece)
  PROVE  buffer \in Seq(Piece) /\ Len(buffer) <= MAX_ENCODED_SIZE
<1>0. MAX_ENCODED_SIZE \in Nat /\ 2 <= MAX_ENCODED_SIZE BY ReceiverAssumption
<1>1. CASE buffer = <<piece>>
  <2>1. <<piece>> \in Seq(Piece) /\ Len(<<piece>>) = 1 OBVIOUS
  <2> QED BY <1>0, <1>1, <2>1
<1>2. CASE Len(rxBuffer) < MAX_ENCODED_SIZE /\ buffer = Append(rxBuffer, piece)
  <2>1. rxBuffer \in Seq(Piece) BY DEF CreditInv
  <2>2. Append(rxBuffer, piece) \in Seq(Piece) /\ Len(Append(rxBuffer, piece)) = Len(rxBuffer) + 1
    BY <2>1
  <2>3. Len(rxBuffer) \in Nat BY <2>1
  <2> QED BY <1>0, <1>2, <2>2, <2>3
<1>3. CASE buffer \in {<<>>, <<"rest">>}
  <2>1. CASE buffer = <<>>
    <3>1. <<>> \in Seq(Piece) /\ Len(<<>>) = 0 OBVIOUS
    <3> QED BY <1>0, <2>1, <3>1
  <2>2. CASE buffer = <<"rest">>
    <3>1. <<"rest">> \in Seq(Piece) /\ Len(<<"rest">>) = 1 BY DEF Piece
    <3> QED BY <1>0, <2>2, <3>1
  <2> QED BY <1>3, <2>1, <2>2
<1> QED BY <1>1, <1>2, <1>3 DEF Collect

LEMMA OwingType == Owing \in {0, 1} /\ Owing' \in {0, 1}
BY DEF Owing

LEMMA Sums ==
  ASSUME NEW m \in Nat, NEW h \in Nat, NEW o \in {0, 1}, NEW p \in {0, 1}, m + o <= h
  PROVE  m + p <= h + 1 /\ (p <= o => m + p <= h)
OBVIOUS

(* A step that collects what it likes and pays for it. *)
LEMMA PaidFor ==
  ASSUME CreditInv, hits' = hits + 1, missed' = missed,
         rxBuffer' \in Seq(Piece), Len(rxBuffer') <= MAX_ENCODED_SIZE,
         late' \in BOOLEAN, errors' \in 0 .. MAX_CONSECUTIVE_ERRORS - 1,
         air' \in [at : {"none", "head"}, whole : BOOLEAN]
  PROVE  CreditInv'
<1>1. missed \in Nat /\ hits \in Nat /\ missed + Owing <= hits BY DEF CreditInv
<1>2. missed' + Owing' <= hits' BY <1>1, OwingType, Sums
<1> QED BY <1>1, <1>2 DEF CreditInv

(* A step that leaves no packet worse off than it was. *)
LEMMA NoWorse ==
  ASSUME CreditInv, UNCHANGED <<hits, missed>>, Owing' <= Owing,
         rxBuffer' \in Seq(Piece), Len(rxBuffer') <= MAX_ENCODED_SIZE,
         late' \in BOOLEAN, errors' \in 0 .. MAX_CONSECUTIVE_ERRORS - 1,
         air' \in [at : {"none", "head"}, whole : BOOLEAN]
  PROVE  CreditInv'
<1>1. missed \in Nat /\ hits \in Nat /\ missed + Owing <= hits BY DEF CreditInv
<1>2. missed' + Owing' <= hits' BY <1>1, OwingType, Sums
<1> QED BY <1>1, <1>2 DEF CreditInv

LEMMA CreditStays ==
  ASSUME CreditInv, UNCHANGED creditVars
  PROVE  CreditInv'
BY DEF CreditInv, creditVars, reception, Owing, Spoiled

LEMMA NoErrors == 0 \in 0 .. MAX_CONSECUTIVE_ERRORS - 1
BY ReceiverAssumption

LEMMA PieceType == "head" \in Piece /\ "tail" \in Piece /\ "rest" \in Piece
BY DEF Piece

(* A packet that nothing has spoiled is put together. *)
LEMMA CleanTail ==
  ASSUME CreditInv, PortInv, TailArrives, air.whole, ~Spoiled, NEW buffer \in Collect("tail")
  PROVE  buffer = Whole
<1>1. air.at = "head" /\ rxBuffer = <<"head">> /\ ~late BY DEF TailArrives, Spoiled
<1>2. Len(rxBuffer) = 1 /\ rxBuffer # <<>> BY <1>1
<1>3. 1 < MAX_ENCODED_SIZE BY ReceiverAssumption
<1>4. buffer = Append(<<"head">>, "tail") BY <1>1, <1>2, <1>3 DEF Collect
<1>5. Append(<<"head">>, "tail") = <<"head", "tail">>
  <2> DEFINE a == Append(<<"head">>, "tail")
             b == <<"head", "tail">>
  <2>1. <<"head">> \in Seq(Piece) /\ Len(<<"head">>) = 1 /\ "tail" \in Piece BY DEF Piece
  <2>2. a \in Seq(Piece) /\ Len(a) = 2 /\ a[1] = "head" /\ a[2] = "tail" BY <2>1
  <2>3. b \in Seq(Piece) /\ Len(b) = 2 /\ b[1] = "head" /\ b[2] = "tail" BY DEF Piece
  <2>4. \A i \in 1 .. Len(a) : a[i] = b[i] BY <2>2, <2>3
  <2> QED BY <2>2, <2>3, <2>4, SeqEqual
<1> QED BY <1>4, <1>5 DEF Whole

LEMMA ReceptionCredit ==
  ASSUME CreditInv, PortInv, HeadArrives \/ TailArrives \/ IdleRead \/ ReadError
  PROVE  CreditInv'
<1>t. /\ rxBuffer \in Seq(Piece) /\ Len(rxBuffer) <= MAX_ENCODED_SIZE /\ late \in BOOLEAN
      /\ errors \in 0 .. MAX_CONSECUTIVE_ERRORS - 1
      /\ air \in [at : {"none", "head"}, whole : BOOLEAN]
      /\ missed \in Nat /\ hits \in Nat /\ missed + Owing <= hits
      /\ <<>> \in Seq(Piece) /\ Len(<<>>) = 0 /\ 0 <= MAX_ENCODED_SIZE
  BY ReceiverAssumption DEF CreditInv
<1>1. CASE HeadArrives
  <2>1. /\ air.at = "none" /\ air' = [at |-> "head", whole |-> TRUE]
        /\ rxBuffer' \in Collect("head") /\ late' = FALSE /\ errors' = 0
        /\ UNCHANGED <<rfModuleInConfigMode, missed, hits>>
    BY <1>1 DEF HeadArrives, config, counts
  <2>2. CASE rxBuffer = <<>>
    <3>1. rxBuffer' = <<"head">> BY <2>1, <2>2 DEF Collect
    <3>2. ~Spoiled' BY <2>1, <3>1 DEF Spoiled
    <3>3. Owing' <= Owing BY <2>1, <3>2 DEF Owing
    <3> QED BY <2>1, <3>3, NoWorse, CollectType, PieceType, NoErrors
  <2>3. CASE rxBuffer # <<>>
    <3>1. Owing = 1 BY <2>1, <2>3 DEF Owing, Spoiled
    <3>2. Owing' <= Owing BY <3>1, OwingType
    <3> QED BY <2>1, <3>2, NoWorse, CollectType, PieceType, NoErrors
  <2> QED BY <2>2, <2>3
<1>2. CASE TailArrives
  <2>1. PICK buffer \in Collect("tail") :
          /\ rxBuffer' = <<>>
          /\ IF buffer = Whole THEN processReceivedPacket
             ELSE hits' = hits /\ missed' = IF air.whole THEN missed + 1 ELSE missed
    BY <1>2 DEF TailArrives, Ends
  <2>2. /\ Reading /\ air' = Quiet /\ late' = FALSE /\ errors' = 0
        /\ rfModuleInConfigMode' = rfModuleInConfigMode
    BY <1>2 DEF TailArrives, Heard, config
  <2>3. Owing' = 0 BY <2>1, <2>2 DEF Owing, Spoiled, Quiet, Reading
  <2>4. \/ UNCHANGED <<missed, hits>>
        \/ missed' = missed + 1 /\ hits' = hits /\ Owing = 1
        \/ missed' = missed + 1 /\ hits' = hits + 1
    <3>1. CASE buffer = Whole
      BY <2>1, <3>1 DEF processReceivedPacket, NoMemory, NoReading, counts
    <3>2. CASE buffer # Whole
      BY <1>2, <2>1, <3>2, CleanTail DEF Owing
    <3> QED BY <3>1, <3>2
  <2>5. missed' \in Nat /\ hits' \in Nat /\ missed' + Owing' <= hits'
    BY <1>t, <2>3, <2>4, OwingType
  <2>6. air' \in [at : {"none", "head"}, whole : BOOLEAN] BY <2>2 DEF Quiet
  <2> QED BY <1>t, <2>1, <2>2, <2>5, <2>6, NoErrors DEF CreditInv
<1>3. ASSUME rxBuffer' = <<>>, late' = FALSE, air' = [air EXCEPT !.whole = FALSE],
             errors' \in 0 .. MAX_CONSECUTIVE_ERRORS - 1,
             UNCHANGED <<rfModuleInConfigMode, missed, hits>>
      PROVE  CreditInv'
  <2>1. ~Spoiled' BY <1>t, <1>3 DEF Spoiled
  <2>2. Owing' <= Owing BY <1>3, <2>1 DEF Owing
  <2>3. air' \in [at : {"none", "head"}, whole : BOOLEAN] BY <1>t, <1>3
  <2> QED BY <1>t, <1>3, <2>2, <2>3, NoWorse
<1>4. CASE IdleRead BY <1>t, <1>3, <1>4 DEF IdleRead, config, counts
<1>5. CASE ReadError
  <2>1. CASE errors + 1 < MAX_CONSECUTIVE_ERRORS
    <3>1. /\ errors' = errors + 1
          /\ UNCHANGED <<rxBuffer, late, air, rfModuleInConfigMode, missed, hits>>
      BY <1>5, <2>1 DEF ReadError, config, counts
    <3>2. errors' \in 0 .. MAX_CONSECUTIVE_ERRORS - 1
      BY <1>t, <2>1, <3>1, ReceiverAssumption
    <3> QED BY <1>t, <3>1, <3>2 DEF CreditInv, Owing, Spoiled
  <2>2. CASE ~(errors + 1 < MAX_CONSECUTIVE_ERRORS)
    BY <1>3, <1>5, <2>2, NoErrors DEF ReadError, config, counts
  <2> QED BY <2>1, <2>2
<1> QED BY <1>1, <1>2, <1>4, <1>5

LEMMA AirCredit ==
  ASSUME CreditInv, PortInv, Noise \/ Damaged \/ Unheard \/ Speaks
  PROVE  CreditInv'
<1>t. /\ rxBuffer \in Seq(Piece) /\ Len(rxBuffer) <= MAX_ENCODED_SIZE /\ late \in BOOLEAN
      /\ errors \in 0 .. MAX_CONSECUTIVE_ERRORS - 1
      /\ air \in [at : {"none", "head"}, whole : BOOLEAN]
      /\ <<>> \in Seq(Piece) /\ Len(<<>>) = 0 /\ 0 <= MAX_ENCODED_SIZE
  BY ReceiverAssumption DEF CreditInv
<1>p. /\ Passes \in [at : {"none", "head"}, whole : BOOLEAN]
      /\ [air EXCEPT !.whole = FALSE] \in [at : {"none", "head"}, whole : BOOLEAN]
  BY <1>t DEF Passes
<1>1. CASE Noise
  BY <1>1, <1>t, <1>p, PaidFor, CollectType, PieceType, NoErrors DEF Noise
<1>2. CASE Damaged
  <2>1. hits' = hits + 1 /\ missed' = missed /\ air' = Passes BY <1>2 DEF Damaged
  <2>2. CASE UNCHANGED reception
    BY <1>t, <1>p, <2>1, <2>2, PaidFor DEF reception
  <2>3. CASE rxBuffer' \in Collect("rest") /\ late' = FALSE /\ errors' = 0
    BY <1>t, <1>p, <2>1, <2>3, PaidFor, CollectType, PieceType, NoErrors
  <2> QED BY <1>2, <2>2, <2>3 DEF Damaged
<1>3. CASE Unheard
  <2>1. rfModuleInConfigMode /\ rfModuleInConfigMode'
    BY <1>3 DEF Unheard, Heard, Reading, PortInv, Holding, config
  <2>2. Owing' <= Owing BY <2>1 DEF Owing
  <2> QED BY <1>3, <1>t, <1>p, <2>2, NoWorse DEF Unheard, reception, counts
<1>4. CASE Speaks
  <2>1. CASE Reading
    BY <1>4, <1>t, <1>p, <2>1, PaidFor, CollectType, PieceType, NoErrors DEF Speaks
  <2>2. CASE ~Reading
    BY <1>4, <2>2, CreditStays DEF Speaks, creditVars, reception, config
  <2> QED BY <2>1, <2>2
<1> QED BY <1>1, <1>2, <1>3, <1>4

LEMMA NextCredit ==
  ASSUME CreditInv, PortInv, [Next]_vars
  PROVE  CreditInv'
<1>1. CASE HeadArrives \/ TailArrives \/ IdleRead \/ ReadError BY <1>1, ReceptionCredit
<1>2. CASE Noise \/ Damaged \/ Unheard \/ Speaks BY <1>2, AirCredit
<1>3. CASE Take
  BY <1>3, PaidFor DEF Take, reception, CreditInv
<1>4. CASE Release
  <2>1. session.at \in Holding /\ session.at = "release" BY <1>4 DEF Release, Holding
  <2>2. rfModuleInConfigMode BY <2>1 DEF PortInv
  <2>3. Owing' <= Owing BY <2>2, OwingType DEF Owing
  <2> QED BY <1>4, <2>3, NoWorse DEF Release, CreditInv, counts
<1>5. CASE \/ TakeFails \/ enterRFConfigMode \/ ReadPrompt \/ Command \/ ReadResponse
           \/ exitRFConfigMode \/ Continue \/ rfConfigGet \/ rfConfigPost
           \/ sendData \/ SendTake \/ Written \/ StartWatchdog \/ Tick \/ uartTimeoutTask
           \/ TimeoutEvent \/ ShowTimeout \/ EnterConfigMode \/ UNCHANGED vars
  <2>1. UNCHANGED creditVars
    BY <1>5 DEF TakeFails, enterRFConfigMode, ReadPrompt, Command, ReadResponse,
                exitRFConfigMode, Continue, rfConfigGet, rfConfigPost, RfConfig,
                sendData, SendTake, Written, StartWatchdog, Tick, uartTimeoutTask, TimeoutEvent,
                ShowTimeout, EnterConfigMode, vars, creditVars, reception, config, counts
  <2> QED BY <2>1, CreditStays
<1> QED BY <1>1, <1>2, <1>3, <1>4, <1>5 DEF Next, Session

LEMMA CreditInvariant == Spec => []CreditInv
BY InitCredit, NextCredit, InductiveInvariant, PTL DEF Spec

(* A burst of noise, a damaged piece, a session or a word of the module    *)
(* costs at most one packet that arrives whole (LossBounded): the          *)
(* reception task finds the next one behind every delimiter.               *)
THEOREM LossPaidFor == Spec => []LossBounded
<1>1. CreditInv => LossBounded
  <2> SUFFICES ASSUME CreditInv PROVE missed <= hits BY DEF LossBounded
  <2> QED BY OwingType DEF CreditInv
<1> QED BY <1>1, CreditInvariant, PTL

-----------------------------------------------------------------------------
(***************************************************************************)
(* One late answer at the most puts every reader after it off by one: it   *)
(* reads the prompt of its own session for the answer.  That is not what   *)
(* it wants, but it is not the answer of another session either.           *)
(***************************************************************************)

AllOwn(queue) == \A i \in 1 .. Len(queue) : queue[i].own
LaterOwn(queue) == \A i \in 2 .. Len(queue) : queue[i].own

Waiting == Len(inbox) + Len(owed)
Late == budget.late

(* What the module has said or will say is behind by one answer, once the  *)
(* late one is spent; a session reads the old one, if any, for its prompt. *)
AnswerInv ==
  /\ owed \in Seq(Answers) /\ inbox \in Seq(Answers)
  /\ budget \in [requests : Nat, noise : Nat, late : {0, 1}, errors : Nat]
  /\ session.at \in {"none", "take", "over", "enter", "exit", "release"} =>
       Len(owed) + Late <= 1
  /\ session.at = "prompt" =>
       /\ Waiting + Late <= 2
       /\ Late = 1 => AllOwn(inbox) /\ AllOwn(owed)
       /\ inbox = <<>> => LaterOwn(owed)
       /\ inbox # <<>> => LaterOwn(inbox) /\ AllOwn(owed)
  /\ session.at = "command" => Waiting + Late <= 1 /\ AllOwn(inbox) /\ AllOwn(owed)
  /\ session.at = "response" => Waiting + Late <= 2 /\ AllOwn(inbox) /\ AllOwn(owed)
  /\ session.result # "other"

LEMMA NoAnswers == <<>> \in Seq(Answers) /\ Len(<<>>) = 0 /\ AllOwn(<<>>) /\ LaterOwn(<<>>)
BY DEF AllOwn, LaterOwn

LEMMA AnswersLen ==
  ASSUME NEW queue \in Seq(Answers)
  PROVE  /\ Len(queue) \in Nat
         /\ queue # <<>> <=> 1 <= Len(queue)
         /\ AllOwn(queue) => LaterOwn(queue)
<1>1. Len(queue) \in Nat /\ (queue # <<>> => Len(queue) # 0) BY EmptySeq
<1>2. queue = <<>> => Len(queue) = 0 OBVIOUS
<1> QED BY <1>1, <1>2 DEF AllOwn, LaterOwn

LEMMA TakeOne ==
  ASSUME NEW queue \in Seq(Answers), queue # <<>>
  PROVE  /\ Tail(queue) \in Seq(Answers) /\ Len(queue) = Len(Tail(queue)) + 1
         /\ Head(queue) \in Answers /\ Head(queue) = queue[1]
         /\ AllOwn(queue) => Head(queue).own
         /\ LaterOwn(queue) => AllOwn(Tail(queue))
<1>1. /\ Tail(queue) \in Seq(Answers) /\ Len(Tail(queue)) = Len(queue) - 1
      /\ Head(queue) \in Answers /\ Head(queue) = queue[1]
      /\ \A i \in 1 .. Len(Tail(queue)) : Tail(queue)[i] = queue[i + 1]
  BY HeadTailProperties
<1>2. Len(queue) \in Nat /\ 1 <= Len(queue) BY AnswersLen
<1>3. AllOwn(queue) => Head(queue).own BY <1>1, <1>2 DEF AllOwn
<1>4. ASSUME LaterOwn(queue), NEW i \in 1 .. Len(Tail(queue)) PROVE Tail(queue)[i].own
  <2>1. i + 1 \in 2 .. Len(queue) BY <1>1, <1>2
  <2> QED BY <1>1, <1>4, <2>1 DEF LaterOwn
<1> QED BY <1>1, <1>2, <1>3, <1>4 DEF AllOwn

LEMMA AddOne ==
  ASSUME NEW queue \in Seq(Answers), NEW answer \in Answers
  PROVE  /\ Append(queue, answer) \in Seq(Answers)
         /\ Append(queue, answer) # <<>>
         /\ Len(Append(queue, answer)) = Len(queue) + 1
         /\ AllOwn(queue) /\ answer.own => AllOwn(Append(queue, answer))
         /\ LaterOwn(queue) /\ answer.own => LaterOwn(Append(queue, answer))
         /\ queue = <<>> => LaterOwn(Append(queue, answer))
<1>0. Len(queue) \in Nat BY AnswersLen
<1>1. /\ Append(queue, answer) \in Seq(Answers)
      /\ Len(Append(queue, answer)) = Len(queue) + 1
      /\ \A i \in 1 .. Len(queue) : Append(queue, answer)[i] = queue[i]
      /\ Append(queue, answer)[Len(queue) + 1] = answer
  BY AppendProperties
<1>2. Append(queue, answer) # <<>> BY <1>0, <1>1, AnswersLen
<1>3. ASSUME answer.own, NEW i \in 1 .. Len(queue) + 1, i # Len(queue) + 1 => queue[i].own
      PROVE  Append(queue, answer)[i].own
  <2>1. CASE i = Len(queue) + 1 BY <1>1, <1>3, <2>1
  <2>2. CASE i # Len(queue) + 1
    <3>1. i \in 1 .. Len(queue) BY <1>0, <2>2
    <3> QED BY <1>1, <1>3, <2>2, <3>1
  <2> QED BY <2>1, <2>2
<1>4. AllOwn(queue) /\ answer.own => AllOwn(Append(queue, answer))
  <2> SUFFICES ASSUME AllOwn(queue), answer.own, NEW i \in 1 .. Len(queue) + 1
               PROVE  Append(queue, answer)[i].own
    BY <1>1 DEF AllOwn
  <2>1. i # Len(queue) + 1 => i \in 1 .. Len(queue) BY <1>0
  <2> QED BY <1>3, <2>1 DEF AllOwn
<1>5. LaterOwn(queue) /\ answer.own => LaterOwn(Append(queue, answer))
  <2> SUFFICES ASSUME LaterOwn(queue), answer.own, NEW i \in 2 .. Len(queue) + 1
               PROVE  Append(queue, answer)[i].own
    BY <1>1 DEF LaterOwn
  <2>1. i # Len(queue) + 1 => i \in 2 .. Len(queue) BY <1>0
  <2>2. i \in 1 .. Len(queue) + 1 BY <1>0
  <2> QED BY <1>3, <2>1, <2>2 DEF LaterOwn
<1>6. queue = <<>> => LaterOwn(Append(queue, answer))
  <2>1. queue = <<>> => Len(Append(queue, answer)) = 1 BY <1>1, NoAnswers
  <2> QED BY <2>1 DEF LaterOwn
<1> QED BY <1>1, <1>2, <1>4, <1>5, <1>6

LEMMA OldType ==
  ASSUME NEW queue \in Seq(Answers)
  PROVE  Old(queue) \in Seq(Answers) /\ Len(Old(queue)) = Len(queue)
<1>1. Len(queue) \in Nat /\ DOMAIN queue = 1 .. Len(queue) BY LenProperties
<1>2. \A i \in 1 .. Len(queue) : [queue[i] EXCEPT !.own = FALSE] \in Answers
  <2> SUFFICES ASSUME NEW i \in 1 .. Len(queue)
               PROVE  [queue[i] EXCEPT !.own = FALSE] \in Answers
    OBVIOUS
  <2>1. queue[i] \in Answers BY ElementOfSeq
  <2> QED BY <2>1 DEF Answers
<1>3. Old(queue) = [i \in 1 .. Len(queue) |-> [queue[i] EXCEPT !.own = FALSE]]
  BY <1>1 DEF Old
<1>4. Old(queue) \in [1 .. Len(queue) -> Answers] BY <1>2, <1>3
<1>5. Old(queue) \in Seq(Answers) BY <1>1, <1>4, SeqDef
<1>6. DOMAIN Old(queue) = 1 .. Len(queue) BY <1>4
<1>7. DOMAIN Old(queue) = 1 .. Len(Old(queue)) /\ Len(Old(queue)) \in Nat BY <1>5, LenProperties
<1> QED BY <1>1, <1>5, <1>6, <1>7

LEMMA InitAnswer == MaxLate <= 1 /\ Init => AnswerInv
<1> SUFFICES ASSUME MaxLate <= 1, Init PROVE AnswerInv OBVIOUS
<1>1. MaxLate \in {0, 1} /\ {MaxRequests, MaxNoise, MaxErrors} \subseteq Nat
  BY ReceiverAssumption
<1>2. budget \in [requests : Nat, noise : Nat, late : {0, 1}, errors : Nat]
  BY <1>1 DEF Init
<1>3. owed = <<>> /\ inbox = <<>> /\ session.at = "none" /\ session.result = "none"
  BY DEF Init, NoSession
<1>4. Len(owed) = 0 BY <1>3
<1>5. Len(owed) + Late <= 1 BY <1>2, <1>4 DEF Late
<1> QED BY <1>2, <1>3, <1>5, NoAnswers DEF AnswerInv

-----------------------------------------------------------------------------
(* What has been spent of the budget. *)
LEMMA SpendOther ==
  ASSUME AnswerInv, NEW what \in {"requests", "noise", "errors"}, Spend(what)
  PROVE  /\ budget' \in [requests : Nat, noise : Nat, late : {0, 1}, errors : Nat]
         /\ Late' = Late
<1>1. budget \in [requests : Nat, noise : Nat, late : {0, 1}, errors : Nat] BY DEF AnswerInv
<1>2. budget' = [budget EXCEPT ![what] = budget[what] - 1] /\ budget[what] > 0 BY DEF Spend
<1>3. budget[what] - 1 \in Nat BY <1>1, <1>2
<1>4. budget' \in [requests : Nat, noise : Nat, late : {0, 1}, errors : Nat]
  BY <1>1, <1>2, <1>3
<1>5. budget'.late = budget.late BY <1>1, <1>2
<1> QED BY <1>4, <1>5 DEF Late

LEMMA SpendLate ==
  ASSUME AnswerInv, Spend("late")
  PROVE  /\ budget' \in [requests : Nat, noise : Nat, late : {0, 1}, errors : Nat]
         /\ Late = 1 /\ Late' = 0
<1>1. budget \in [requests : Nat, noise : Nat, late : {0, 1}, errors : Nat] BY DEF AnswerInv
<1>2. budget' = [budget EXCEPT !.late = budget.late - 1] /\ budget.late > 0 BY DEF Spend
<1>3. budget.late = 1 /\ budget.late - 1 = 0 BY <1>1, <1>2
<1>4. budget' = [budget EXCEPT !.late = 0] BY <1>2, <1>3
<1> QED BY <1>1, <1>3, <1>4 DEF Late

LEMMA LateType == AnswerInv => Late \in {0, 1}
BY DEF AnswerInv, Late

(* A reader gives up: what it waited for never comes, or is the late one.  *)
LEMMA GivesUp ==
  ASSUME AnswerInv, TimesOut
  PROVE  /\ inbox = <<>> /\ Len(inbox) = 0 /\ owed' \in Seq(Answers)
         /\ budget' \in [requests : Nat, noise : Nat, late : {0, 1}, errors : Nat]
         /\ \/ owed' = <<>> /\ Len(owed') = 0 /\ AllOwn(owed') /\ Late' \in {0, 1}
            \/ owed' = owed /\ Late = 1 /\ Late' = 0
<1>1. owed \in Seq(Answers) /\ inbox = <<>> BY DEF AnswerInv, TimesOut
<1>2. CASE owed' = <<>> /\ UNCHANGED budget
  <2>1. budget' = budget /\ Late' = Late BY <1>2 DEF Late
  <2> QED BY <1>1, <1>2, <2>1, LateType, NoAnswers DEF AnswerInv
<1>3. CASE Spend("late") /\ UNCHANGED owed BY <1>1, <1>3, SpendLate, NoAnswers
<1> QED BY <1>2, <1>3 DEF TimesOut

LEMMA EnterAnswer ==
  ASSUME AnswerInv, session \in Sessions, enterRFConfigMode
  PROVE  AnswerInv'
<1>1. /\ session.at = "enter" /\ inbox' = <<>> /\ budget' = budget /\ Late' = Late
      /\ session' = [session EXCEPT !.at = "prompt"]
      /\ owed' \in {Old(owed), Append(Old(owed), Says("prompt"))}
  BY DEF enterRFConfigMode, Late
<1>2. /\ owed \in Seq(Answers) /\ Len(owed) \in Nat /\ Late \in {0, 1} /\ Len(owed) + Late <= 1
      /\ budget \in [requests : Nat, noise : Nat, late : {0, 1}, errors : Nat]
      /\ session.result # "other"
  BY <1>1, LateType, AnswersLen DEF AnswerInv
<1>3. Old(owed) \in Seq(Answers) /\ Len(Old(owed)) = Len(owed) BY <1>2, OldType
<1>4. LaterOwn(Old(owed)) /\ (Late = 1 => AllOwn(Old(owed)))
  <2>1. Len(Old(owed)) \in {0, 1} /\ (Late = 1 => Len(Old(owed)) = 0) BY <1>2, <1>3
  <2> QED BY <2>1 DEF LaterOwn, AllOwn
<1>5. Says("prompt") \in Answers /\ Says("prompt").own BY DEF Says, Answers
<1>6. /\ owed' \in Seq(Answers) /\ Len(owed') <= Len(owed) + 1 /\ Len(owed') \in Nat
      /\ LaterOwn(owed') /\ (Late = 1 => AllOwn(owed'))
  <2>1. CASE owed' = Old(owed) BY <1>2, <1>3, <1>4, <2>1
  <2>2. CASE owed' = Append(Old(owed), Says("prompt"))
    BY <1>2, <1>3, <1>4, <1>5, <2>2, AddOne
  <2> QED BY <1>1, <2>1, <2>2
<1>7. session'.at = "prompt" /\ session'.result = session.result BY <1>1 DEF Sessions
<1>8. Waiting' = Len(owed') BY <1>1, <1>6, NoAnswers DEF Waiting
<1>9. Waiting' + Late' <= 2 BY <1>1, <1>2, <1>6, <1>8
<1> QED BY <1>1, <1>2, <1>6, <1>7, <1>9, NoAnswers DEF AnswerInv

(* A session that gives the module up has not read what it says. *)
LEMMA Less ==
  ASSUME NEW i \in Nat, NEW o \in Nat, NEW l \in {0, 1}
  PROVE  /\ (i + 1) + o + l <= 2 => i + o + l <= 1
         /\ i + o + l <= 1 => o + l <= 1
         /\ i + o + 1 <= 2 => o + 0 <= 1
OBVIOUS

LEMMA ReadPromptAnswer ==
  ASSUME AnswerInv, session \in Sessions, ReadPrompt
  PROVE  AnswerInv'
<1>1. /\ session.at = "prompt" /\ session'.at \in {"command", "exit"}
      /\ session'.result = session.result /\ session.result # "other"
  BY DEF ReadPrompt, Abandoned, AnswerInv, Sessions
<1>2. /\ owed \in Seq(Answers) /\ inbox \in Seq(Answers) /\ Late \in {0, 1}
      /\ Len(inbox) + Len(owed) + Late <= 2
      /\ Late = 1 => AllOwn(inbox) /\ AllOwn(owed)
      /\ inbox # <<>> => LaterOwn(inbox) /\ AllOwn(owed)
      /\ budget \in [requests : Nat, noise : Nat, late : {0, 1}, errors : Nat]
  BY <1>1, LateType DEF AnswerInv, Waiting
<1>3. Len(owed) \in Nat /\ Len(inbox) \in Nat BY <1>2, AnswersLen
<1>4. CASE inbox # <<>> /\ inbox' = Tail(inbox) /\ UNCHANGED <<owed, budget>>
  <2>1. inbox' \in Seq(Answers) /\ Len(inbox) = Len(inbox') + 1 /\ AllOwn(inbox')
    BY <1>2, <1>4, TakeOne
  <2>2. owed' = owed /\ budget' = budget /\ Late' = Late /\ AllOwn(owed) BY <1>2, <1>4 DEF Late
  <2>3. Len(inbox') \in Nat BY <2>1, AnswersLen
  <2>4. Len(inbox') + Len(owed') + Late' <= 1 BY <1>2, <1>3, <2>1, <2>2, <2>3, Less
  <2>5. Len(owed') + Late' <= 1 BY <1>2, <1>3, <2>2, <2>3, <2>4, Less
  <2> QED BY <1>1, <1>2, <2>1, <2>2, <2>4, <2>5 DEF AnswerInv, Waiting
<1>5. CASE TimesOut /\ UNCHANGED inbox
  <2>1. /\ inbox = <<>> /\ Len(inbox) = 0 /\ owed' \in Seq(Answers)
        /\ budget' \in [requests : Nat, noise : Nat, late : {0, 1}, errors : Nat]
        /\ \/ owed' = <<>> /\ Len(owed') = 0 /\ AllOwn(owed') /\ Late' \in {0, 1}
           \/ owed' = owed /\ Late = 1 /\ Late' = 0
    BY <1>5, GivesUp
  <2>2. AllOwn(owed') /\ Len(owed') + Late' <= 1 BY <1>2, <1>3, <2>1, Less
  <2>3. inbox' = <<>> /\ AllOwn(inbox') /\ Len(inbox') = 0 BY <1>5, <2>1, NoAnswers
  <2>4. Len(owed') \in Nat /\ Late' \in {0, 1} BY <2>1, AnswersLen
  <2>5. Len(inbox') + Len(owed') + Late' <= 1 BY <2>2, <2>3, <2>4
  <2> QED BY <1>1, <2>1, <2>2, <2>3, <2>5, NoAnswers DEF AnswerInv, Waiting
<1>6. CASE inbox # <<>> /\ Spend("late") /\ UNCHANGED <<inbox, owed>>
  <2>1. /\ budget' \in [requests : Nat, noise : Nat, late : {0, 1}, errors : Nat]
        /\ Late = 1 /\ Late' = 0
    BY <1>6, SpendLate
  <2>2. Len(inbox) + Len(owed) + 1 <= 2 BY <1>2, <2>1
  <2>3. Len(inbox) + Len(owed) <= 1 /\ Len(owed) <= 1 BY <1>3, <2>2
  <2>4. inbox' = inbox /\ owed' = owed BY <1>6
  <2>5. Len(inbox') + Len(owed') + Late' <= 1 /\ Len(owed') + Late' <= 1
    BY <1>3, <2>1, <2>3, <2>4
  <2>6. AllOwn(inbox') /\ AllOwn(owed') BY <1>2, <2>1, <2>4
  <2> QED BY <1>1, <1>2, <2>1, <2>4, <2>5, <2>6 DEF AnswerInv, Waiting
<1> QED BY <1>4, <1>5, <1>6 DEF ReadPrompt

LEMMA CommandAnswer ==
  ASSUME AnswerInv, session \in Sessions, Command
  PROVE  AnswerInv'
<1>1. /\ session.at = "command" /\ budget' = budget /\ Late' = Late
      /\ inbox' = IF session.kind = "query" THEN <<>> ELSE inbox
      /\ session.result # "other"
  BY DEF Command, AnswerInv, Late
<1>2. /\ owed \in Seq(Answers) /\ inbox \in Seq(Answers) /\ Late \in {0, 1}
      /\ Len(inbox) + Len(owed) + Late <= 1 /\ AllOwn(inbox) /\ AllOwn(owed)
      /\ budget \in [requests : Nat, noise : Nat, late : {0, 1}, errors : Nat]
  BY <1>1, LateType DEF AnswerInv, Waiting
<1>3. Len(owed) \in Nat /\ Len(inbox) \in Nat BY <1>2, AnswersLen
<1>4. /\ inbox' \in Seq(Answers) /\ AllOwn(inbox')
      /\ Len(inbox') \in Nat /\ Len(inbox') <= Len(inbox)
  BY <1>1, <1>2, <1>3, NoAnswers
<1>5. CASE /\ session' = [session EXCEPT !.at = "response"]
           /\ \E answer \in {"none", "error", "value", "done"} :
                owed' = IF answer = "none" THEN owed ELSE Append(owed, Says(answer))
  <2>1. PICK answer \in {"none", "error", "value", "done"} :
          owed' = IF answer = "none" THEN owed ELSE Append(owed, Says(answer))
    BY <1>5
  <2>2. answer # "none" => Says(answer) \in Answers /\ Says(answer).own
    BY <2>1 DEF Says, Answers
  <2>3. owed' \in Seq(Answers) /\ AllOwn(owed') /\ Len(owed') \in Nat /\ Len(owed') <= Len(owed) + 1
    <3>1. CASE answer = "none" BY <1>2, <1>3, <2>1, <3>1
    <3>2. CASE answer # "none" BY <1>2, <1>3, <2>1, <2>2, <3>2, AddOne
    <3> QED BY <3>1, <3>2
  <2>4. Len(inbox') + Len(owed') + Late' <= 2 BY <1>1, <1>2, <1>3, <1>4, <2>3
  <2>5. session'.at = "response" /\ session'.result # "other" BY <1>1, <1>5 DEF Sessions
  <2> QED BY <1>1, <1>2, <1>4, <2>3, <2>4, <2>5 DEF AnswerInv, Waiting
<1>6. CASE session' = Abandoned /\ UNCHANGED owed
  <2>1. Len(owed') + Late' <= 1 BY <1>1, <1>2, <1>3, <1>6, Less
  <2>2. session'.at = "exit" /\ session'.result # "other" BY <1>1, <1>6 DEF Abandoned, Sessions
  <2> QED BY <1>1, <1>2, <1>4, <1>6, <2>1, <2>2 DEF AnswerInv
<1> QED BY <1>5, <1>6 DEF Command

LEMMA ReadResponseAnswer ==
  ASSUME AnswerInv, session \in Sessions, ReadResponse
  PROVE  AnswerInv'
<1>1. session.at = "response" /\ session.result # "other" BY DEF ReadResponse, AnswerInv
<1>2. /\ owed \in Seq(Answers) /\ inbox \in Seq(Answers) /\ Late \in {0, 1}
      /\ Len(inbox) + Len(owed) + Late <= 2 /\ AllOwn(inbox) /\ AllOwn(owed)
      /\ budget \in [requests : Nat, noise : Nat, late : {0, 1}, errors : Nat]
  BY <1>1, LateType DEF AnswerInv, Waiting
<1>3. Len(owed) \in Nat /\ Len(inbox) \in Nat BY <1>2, AnswersLen
<1>4. CASE /\ inbox # <<>> /\ inbox' \in {Tail(inbox), inbox} /\ UNCHANGED <<owed, budget>>
           /\ \E result \in {Result(inbox[1]), "none"} :
                session' = [session EXCEPT !.at = "exit", !.result = result]
  <2>1. Tail(inbox) \in Seq(Answers) /\ Len(inbox) = Len(Tail(inbox)) + 1 /\ inbox[1].own
    BY <1>2, <1>4, TakeOne
  <2>2. owed' = owed /\ budget' = budget /\ Late' = Late BY <1>4 DEF Late
  <2>3. Len(Tail(inbox)) \in Nat BY <2>1, AnswersLen
  <2>4. Len(owed') + Late' <= 1 BY <1>2, <1>3, <2>1, <2>2, <2>3, Less
  <2>5. Result(inbox[1]) # "other" BY <2>1 DEF Result
  <2>6. session'.at = "exit" /\ session'.result # "other" BY <1>4, <2>5 DEF Sessions
  <2>7. inbox' \in Seq(Answers) BY <1>2, <1>4, <2>1
  <2> QED BY <1>2, <2>2, <2>4, <2>6, <2>7 DEF AnswerInv
<1>5. CASE TimesOut /\ session' = Abandoned /\ UNCHANGED inbox
  <2>1. /\ inbox = <<>> /\ Len(inbox) = 0 /\ owed' \in Seq(Answers)
        /\ budget' \in [requests : Nat, noise : Nat, late : {0, 1}, errors : Nat]
        /\ \/ owed' = <<>> /\ Len(owed') = 0 /\ AllOwn(owed') /\ Late' \in {0, 1}
           \/ owed' = owed /\ Late = 1 /\ Late' = 0
    BY <1>5, GivesUp
  <2>2. Len(owed') + Late' <= 1 BY <1>2, <1>3, <2>1, Less
  <2>3. session'.at = "exit" /\ session'.result # "other" BY <1>1, <1>5 DEF Abandoned, Sessions
  <2> QED BY <1>2, <1>5, <2>1, <2>2, <2>3 DEF AnswerInv
<1> QED BY <1>4, <1>5 DEF ReadResponse

LEMMA SpeaksAnswer ==
  ASSUME AnswerInv, PortInv, Speaks
  PROVE  AnswerInv'
<1>1. /\ owed # <<>> /\ owed' = Tail(owed) /\ session' = session /\ budget' = budget
      /\ Late' = Late
  BY DEF Speaks, config, Late
<1>2. /\ owed \in Seq(Answers) /\ inbox \in Seq(Answers) /\ Late \in {0, 1}
      /\ budget \in [requests : Nat, noise : Nat, late : {0, 1}, errors : Nat]
      /\ session.result # "other"
  BY LateType DEF AnswerInv
<1>3. /\ owed' \in Seq(Answers) /\ Len(owed) = Len(owed') + 1 /\ Len(owed') \in Nat
      /\ Head(owed) \in Answers
      /\ AllOwn(owed) => Head(owed).own /\ AllOwn(owed')
      /\ LaterOwn(owed) => AllOwn(owed')
  BY <1>1, <1>2, TakeOne, AnswersLen
<1>4. Len(owed) + Late <= 1 => Len(owed') + Late' <= 1 BY <1>1, <1>2, <1>3
<1>5. CASE Reading
  <2>1. session.at \in {"none", "take", "over"}
    BY <1>5 DEF Reading, PortInv, Holding, Sessions
  <2>2. inbox' = inbox BY <1>5 DEF Speaks
  <2> QED BY <1>1, <1>2, <1>3, <1>4, <2>1, <2>2 DEF AnswerInv
<1>6. CASE ~Reading
  <2>1. inbox' = Append(inbox, Head(owed)) BY <1>6 DEF Speaks
  <2>2. /\ inbox' \in Seq(Answers) /\ inbox' # <<>> /\ Len(inbox') = Len(inbox) + 1
        /\ AllOwn(inbox) /\ Head(owed).own => AllOwn(inbox')
        /\ LaterOwn(inbox) /\ Head(owed).own => LaterOwn(inbox')
        /\ inbox = <<>> => LaterOwn(inbox')
    BY <1>2, <1>3, <2>1, AddOne
  <2>3. Len(inbox) \in Nat BY <1>2, AnswersLen
  <2>4. Waiting' = Waiting BY <1>3, <2>2, <2>3 DEF Waiting
  <2>5. CASE session.at = "prompt"
    <3>1. /\ Waiting + Late <= 2
          /\ Late = 1 => AllOwn(inbox) /\ AllOwn(owed)
          /\ inbox = <<>> => LaterOwn(owed)
          /\ inbox # <<>> => LaterOwn(inbox) /\ AllOwn(owed)
      BY <2>5 DEF AnswerInv
    <3>2. Late = 1 => AllOwn(inbox') /\ AllOwn(owed') BY <1>3, <2>2, <3>1
    <3>3. LaterOwn(inbox') /\ AllOwn(owed') BY <1>3, <2>2, <3>1
    <3> QED BY <1>1, <1>2, <1>3, <2>2, <2>4, <2>5, <3>1, <3>2, <3>3 DEF AnswerInv
  <2>6. CASE session.at \in {"command", "response"}
    <3>1. AllOwn(inbox) /\ AllOwn(owed) BY <2>6 DEF AnswerInv
    <3>2. AllOwn(inbox') /\ AllOwn(owed') BY <1>3, <2>2, <3>1
    <3> QED BY <1>1, <1>2, <1>3, <2>2, <2>4, <2>6, <3>2 DEF AnswerInv
  <2>7. CASE session.at \notin {"prompt", "command", "response"}
    BY <1>1, <1>2, <1>3, <1>4, <2>2, <2>7 DEF AnswerInv
  <2> QED BY <2>5, <2>6, <2>7
<1> QED BY <1>5, <1>6

answerVars == <<owed, inbox, session>>

LEMMA NextAnswer ==
  ASSUME AnswerInv, PortInv, [Next]_vars
  PROVE  AnswerInv'
<1>s. session \in Sessions BY DEF PortInv
<1>1. ASSUME UNCHANGED answerVars, Late' = Late,
             budget' \in [requests : Nat, noise : Nat, late : {0, 1}, errors : Nat]
      PROVE  AnswerInv'
  <2>1. owed' = owed /\ inbox' = inbox /\ session' = session BY <1>1 DEF answerVars
  <2>2. Waiting' = Waiting BY <2>1 DEF Waiting
  <2> QED BY <1>1, <2>1, <2>2 DEF AnswerInv
<1>2. ASSUME UNCHANGED answerVars, UNCHANGED budget
      PROVE  AnswerInv'
  <2>1. Late' = Late /\ budget' \in [requests : Nat, noise : Nat, late : {0, 1}, errors : Nat]
    BY <1>2 DEF Late, AnswerInv
  <2> QED BY <1>1, <1>2, <2>1
<1>3. CASE Noise \/ Damaged \/ ReadError
  <2>1. UNCHANGED answerVars /\ (Spend("noise") \/ Spend("errors"))
    BY <1>3 DEF Noise, Damaged, ReadError, answerVars, config, radio
  <2> QED BY <1>1, <2>1, SpendOther
<1>4. ASSUME NEW doing, NEW n, RfConfig(doing, n) PROVE AnswerInv'
  <2>1. session.at = "none" BY <1>4 DEF RfConfig, NoRequest, PortInv
  <2>2. Len(owed) + Late <= 1 BY <2>1 DEF AnswerInv
  <2>3. session'.at = "take" /\ session'.result = "none" BY <1>4 DEF RfConfig, Ask, NoSession
  <2>4. owed' = owed /\ inbox' = inbox BY <1>4 DEF RfConfig, radio
  <2>5. Late' = Late /\ budget' \in [requests : Nat, noise : Nat, late : {0, 1}, errors : Nat]
    BY <1>4, SpendOther DEF RfConfig
  <2> QED BY <2>2, <2>3, <2>4, <2>5 DEF AnswerInv
<1>5. CASE rfConfigGet \/ rfConfigPost BY <1>4, <1>5 DEF rfConfigGet, rfConfigPost
<1>6. CASE Take \/ TakeFails \/ Release \/ exitRFConfigMode \/ Continue
  <2>1. session.at \in {"take", "over", "exit", "release"}
    BY <1>6 DEF Take, TakeFails, Release, exitRFConfigMode, Continue
  <2>2. Len(owed) + Late <= 1 /\ session.result # "other" BY <2>1 DEF AnswerInv
  <2>3. owed' = owed /\ budget' = budget /\ Late' = Late /\ (inbox' = inbox \/ inbox' = <<>>)
    BY <1>6 DEF Take, TakeFails, Release, exitRFConfigMode, Continue, radio, Late
  <2>4. /\ session'.at \in {"none", "take", "over", "enter", "release"}
        /\ session'.result # "other"
    <3>1. CASE Take \/ TakeFails \/ Release \/ exitRFConfigMode
      <4>1. \E at \in {"over", "enter", "release"} : session' = [session EXCEPT !.at = at]
        BY <3>1 DEF Take, TakeFails, Release, exitRFConfigMode
      <4> QED BY <1>s, <2>2, <4>1 DEF Sessions
    <3>2. CASE Continue
      <4>1. session' = NoSession \/ Ask("query") \/ Ask("config") BY <3>2 DEF Continue
      <4>2. NoSession.at = "none" /\ NoSession.result = "none" BY DEF NoSession
      <4>3. Ask("query") \/ Ask("config") => session'.at = "take" /\ session'.result = "none"
        BY DEF Ask, NoSession
      <4> QED BY <4>1, <4>2, <4>3
    <3> QED BY <1>6, <3>1, <3>2
  <2> QED BY <2>2, <2>3, <2>4, NoAnswers DEF AnswerInv
<1>7. CASE enterRFConfigMode \/ ReadPrompt \/ Command \/ ReadResponse \/ Speaks
  BY <1>7, <1>s, EnterAnswer, ReadPromptAnswer, CommandAnswer, ReadResponseAnswer, SpeaksAnswer
<1>8. CASE \/ HeadArrives \/ StartWatchdog \/ IdleRead \/ Unheard \/ sendData \/ SendTake \/ Written
           \/ Tick \/ uartTimeoutTask \/ TimeoutEvent \/ ShowTimeout \/ EnterConfigMode
           \/ UNCHANGED vars
  <2>1. UNCHANGED answerVars /\ UNCHANGED budget
    BY <1>8 DEF HeadArrives, StartWatchdog, IdleRead, Unheard, sendData, SendTake, Written, Tick,
                uartTimeoutTask, TimeoutEvent, ShowTimeout, EnterConfigMode, vars, answerVars,
                config, radio
  <2> QED BY <1>2, <2>1
<1>9. CASE TailArrives
  <2>1. UNCHANGED answerVars BY <1>9 DEF TailArrives, answerVars, config, radio
  <2>2. UNCHANGED budget \/ Spend("noise")
    BY <1>9 DEF TailArrives, processReceivedPacket, NoMemory, NoReading
  <2> QED BY <1>1, <1>2, <2>1, <2>2, SpendOther
<1> QED BY <1>3, <1>5, <1>6, <1>7, <1>8, <1>9 DEF Next, Session

LEMMA AnswerInvariant == MaxLate <= 1 => (Spec => []AnswerInv)
<1> SUFFICES ASSUME MaxLate <= 1 PROVE Spec => []AnswerInv OBVIOUS
<1>1. Init => AnswerInv BY InitAnswer
<1> QED BY <1>1, NextAnswer, InductiveInvariant, PTL DEF Spec

-----------------------------------------------------------------------------
(* The main task and what it shows. *)
PanelInv ==
  /\ eventBit \in BOOLEAN
  /\ mainAt \in {"loop", "tune", "config"} /\ led \in {"OK", "TIMEOUT", "OFF"}

LEMMA PanelInvariant == Spec => []PanelInv
<1>1. Init => PanelInv BY DEF Init, PanelInv
<1>2. PanelInv /\ [Next]_vars => PanelInv'
  <2> SUFFICES ASSUME PanelInv, [Next]_vars PROVE PanelInv' OBVIOUS
  <2>1. CASE \/ TailArrives \/ StartWatchdog \/ uartTimeoutTask \/ TimeoutEvent
             \/ ShowTimeout \/ EnterConfigMode \/ Tick
    BY <2>1 DEF TailArrives, processReceivedPacket, NoMemory, NoReading, StartWatchdog, uartTimeoutTask, TimeoutEvent, ShowTimeout,
                EnterConfigMode, Tick, PanelInv, watchdog
  <2>2. CASE \/ HeadArrives \/ IdleRead \/ ReadError \/ Noise \/ Damaged \/ Unheard \/ Speaks
             \/ Session \/ rfConfigGet \/ rfConfigPost \/ sendData \/ SendTake \/ Written
             \/ UNCHANGED vars
    <3>1. UNCHANGED watchdog
      BY <2>2 DEF HeadArrives, IdleRead, ReadError, Noise, Damaged, Unheard, Speaks, Session,
                  Take, TakeFails, enterRFConfigMode, ReadPrompt, Command, ReadResponse,
                  exitRFConfigMode, Release, Continue, rfConfigGet, rfConfigPost, RfConfig,
                  sendData, SendTake, Written, vars
    <3> QED BY <3>1 DEF watchdog, PanelInv
  <2> QED BY <2>1, <2>2 DEF Next
<1> QED BY <1>1, <1>2, PTL DEF Spec

(* The types of the port, no packet lost that nothing has spoiled, and no  *)
(* answer of another session taken for one's own (ReceptionInv), when at   *)
(* most one answer comes after its reader has given up or does not fit its *)
(* buffer; readStringUntil matches whatever ends in a colon, so a second   *)
(* one would be mistaken.                                                  *)
THEOREM ReceptionKept == MaxLate <= 1 => (Spec => []ReceptionInv)
<1> SUFFICES ASSUME MaxLate <= 1 PROVE Spec => []ReceptionInv OBVIOUS
<1>1. PortInv /\ WatchInv /\ CreditInv /\ AnswerInv /\ PanelInv => TypeOK
  <2> SUFFICES ASSUME PortInv, WatchInv, CreditInv, AnswerInv, PanelInv PROVE TypeOK OBVIOUS
  <2>1. sender \in {"idle", "sending", "writing"} /\ port \in {"free", "http", "mqtt"} BY DEF PortInv
  <2> QED BY <2>1 DEF PortInv, WatchInv, CreditInv, AnswerInv, PanelInv, TypeOK, Sessions
<1>2. AnswerInv => OwnAnswer BY DEF AnswerInv, OwnAnswer
<1>3. Spec => []AnswerInv BY AnswerInvariant
<1> QED BY <1>1, <1>2, <1>3, InductiveInvariant, CreditInvariant, LossPaidFor, PanelInvariant, PTL
        DEF ReceptionInv
=============================================================================
