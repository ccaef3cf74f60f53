------------------------------ MODULE Presence ------------------------------
(***************************************************************************)
(* The presence protocol of the Switching Unit (presence.c): a heartbeat   *)
(* on the open-drain line PC3, an edge interrupt that hears pulses of the  *)
(* Control Unit on the same line, a UART fallback, and an event on a       *)
(* change.  presence_tick is cut where an edge interrupt or the            *)
(* millisecond timer between two of its statements makes a difference.     *)
(***************************************************************************)
EXTENDS Integers, Millis

CONSTANTS
  PULSE_PERIOD,   \* ms between two heartbeats                  (100)
  PULSE_WIDTH,    \* ms the line is held low                      (2)
  CU_TIMEOUT,     \* ms a pulse counts                          (500)
  UART_TIMEOUT,   \* ms a frame counts                         (2000)
  MaxPoll         \* ms between two calls of presence_tick, at most

ASSUME PresenceAssumption ==
  /\ {PULSE_PERIOD, PULSE_WIDTH, CU_TIMEOUT, UART_TIMEOUT, MaxPoll} \subseteq Nat \ {0}
  /\ PULSE_WIDTH + MaxPoll <= PULSE_PERIOD
  /\ PULSE_PERIOD + MaxPoll < CLOCK /\ CU_TIMEOUT + MaxPoll < CLOCK
  /\ UART_TIMEOUT < CLOCK

VARIABLES
  ms_counter,
  last_pulse_ms, last_cu_seen_ms, last_cu_uart_ms,
  pulse_active, cu_present,
  low,        \* PC3 is driven low by this unit
  edge,       \* whose falling edge waits for its interrupt
  stage, now, \* where presence_tick stands, and its local variable
  event       \* the payload of EVT_PRESENCE_CHANGE the last step sent

(* Observers. *)
VARIABLES
  unpolled,   \* ms since presence_tick last began
  beat,       \* ms since this unit last pulled the line low
  held,       \* ms the line has been driven low
  silentWire, \* ms since a pulse of somebody else was recorded, or boot
  misheard,   \* ms since our own pulse was recorded as one, or CLOCK
  silentUart  \* ms since a frame, or CLOCK

stamps == <<last_pulse_ms, last_cu_seen_ms, last_cu_uart_ms>>
presenceObservers == <<unpolled, beat, held, silentWire, misheard, silentUart>>
presenceVars == <<ms_counter, stamps, pulse_active, cu_present, low, edge, stage, now, event,
                  presenceObservers>>

(* presence_init. *)
PresenceInit ==
  /\ ms_counter = 0
  /\ last_pulse_ms = 0 /\ last_cu_seen_ms = 0 /\ last_cu_uart_ms = 0
  /\ pulse_active = FALSE /\ cu_present = FALSE /\ low = FALSE /\ edge = "none"
  /\ stage = "top" /\ now = 0 /\ event = <<>>
  /\ unpolled = 0 /\ beat = 0 /\ held = 0
  /\ silentWire = 0 /\ misheard = CLOCK /\ silentUart = CLOCK

(* presence_is_control_unit_present *)
Present ==
  \/ last_cu_uart_ms # 0 /\ Since(ms_counter, last_cu_uart_ms) < UART_TIMEOUT
  \/ cu_present

-----------------------------------------------------------------------------
(* presence_tick. *)

(* The definitions named ...Bug are the next one with a mistake in it: the *)
(* properties below have been seen to catch them.                          *)
PulseDueBug == ~pulse_active /\ ms_counter >= last_pulse_ms + PULSE_PERIOD
PulseDue == ~pulse_active /\ Since(ms_counter, last_pulse_ms) >= PULSE_PERIOD
PulseOver == pulse_active /\ Since(ms_counter, last_pulse_ms) >= PULSE_WIDTH

BeginTick ==
  /\ stage = "top" /\ now' = ms_counter /\ unpolled' = 0
  /\ event' = <<>>
  /\ UNCHANGED <<ms_counter, stamps, cu_present, silentWire, misheard, silentUart>>

(* Our own pulse makes an edge too, unless one is waiting already.         *)
StartPulse ==
  /\ BeginTick /\ PulseDue
  /\ low' = TRUE /\ stage' = "store"
  /\ edge' = IF edge = "none" THEN "own" ELSE edge
  /\ beat' = 0 /\ held' = 0
  /\ UNCHANGED pulse_active

EndPulse ==
  /\ BeginTick /\ PulseOver
  /\ low' = FALSE /\ pulse_active' = FALSE /\ stage' = "evaluate"
  /\ UNCHANGED <<edge, beat, held>>

NoPulse ==
  /\ BeginTick /\ ~PulseDue /\ ~PulseOver
  /\ stage' = "evaluate"
  /\ UNCHANGED <<low, edge, pulse_active, beat, held>>

StorePulse ==
  /\ stage = "store" /\ stage' = "evaluate"
  /\ pulse_active' = TRUE /\ last_pulse_ms' = now
  /\ event' = <<>>
  /\ UNCHANGED <<ms_counter, last_cu_seen_ms, last_cu_uart_ms, cu_present, low, edge,
                 now, presenceObservers>>

EvaluateBug ==
  /\ stage = "evaluate" /\ stage' = "top"
  /\ cu_present' = (now < last_cu_seen_ms + CU_TIMEOUT /\ last_cu_seen_ms <= now)
  /\ event' = <<>>
  /\ UNCHANGED <<ms_counter, stamps, pulse_active, low, edge, now, presenceObservers>>

Evaluate ==
  /\ stage = "evaluate" /\ stage' = "top"
  /\ cu_present' = (Since(now, last_cu_seen_ms) < CU_TIMEOUT)
  /\ UNCHANGED <<ms_counter, stamps, pulse_active, low, edge, now, presenceObservers>>
  /\ event' = IF Present' # Present THEN <<Present'>> ELSE <<>>

PresenceTick == StartPulse \/ EndPulse \/ NoPulse \/ StorePulse \/ Evaluate

-----------------------------------------------------------------------------
(* EXTI7_0_IRQHandler.  It cannot tell whose edge it was: one of our own   *)
(* is recorded when it comes before pulse_active is set.                   *)
EdgeInterrupt ==
  /\ edge # "none" /\ edge' = "none"
  /\ last_cu_seen_ms' = IF pulse_active THEN last_cu_seen_ms ELSE ms_counter
  /\ silentWire' = IF edge = "foreign" /\ ~pulse_active THEN 0 ELSE silentWire
  /\ misheard' = IF edge = "own" /\ ~pulse_active THEN 0 ELSE misheard
  /\ event' = <<>>
  /\ UNCHANGED <<ms_counter, last_pulse_ms, last_cu_uart_ms, pulse_active, cu_present, low,
                 stage, now, unpolled, beat, held, silentUart>>

(* presence_record_uart_active: comm_protocol_tick has found a valid frame. *)
RecordUartActive ==
  /\ stage = "top"
  /\ last_cu_uart_ms' = ms_counter /\ silentUart' = 0
  /\ event' = <<>>
  /\ UNCHANGED <<ms_counter, last_pulse_ms, last_cu_seen_ms, pulse_active, cu_present, low,
                 edge, stage, now, unpolled, beat, held, silentWire, misheard>>

(* Somebody else pulls the line low while it is high. *)
ForeignPulse ==
  /\ ~low /\ edge = "none" /\ edge' = "foreign"
  /\ event' = <<>>
  /\ UNCHANGED <<ms_counter, stamps, pulse_active, cu_present, low, stage, now, presenceObservers>>

Age(n) == IF n < CLOCK THEN n + 1 ELSE n

(* An edge gets its interrupt within the millisecond. *)
Millisecond ==
  /\ unpolled < MaxPoll /\ edge = "none"
  /\ ms_counter' = Following(ms_counter)
  /\ unpolled' = unpolled + 1
  /\ beat' = Age(beat) /\ held' = IF low THEN Age(held) ELSE held
  /\ silentWire' = Age(silentWire) /\ misheard' = Age(misheard)
  /\ silentUart' = Age(silentUart)
  /\ event' = <<>>
  /\ UNCHANGED <<stamps, pulse_active, cu_present, low, edge, stage, now>>

PresenceNext == PresenceTick \/ EdgeInterrupt \/ RecordUartActive \/ ForeignPulse \/ Millisecond

PresenceSpec == PresenceInit /\ [][PresenceNext]_presenceVars

-----------------------------------------------------------------------------
(***************************************************************************)
(* Properties.                                                             *)
(***************************************************************************)

PresenceTypeOK ==
  /\ {ms_counter, last_pulse_ms, last_cu_seen_ms, last_cu_uart_ms, now} \subseteq Instant
  /\ {pulse_active, cu_present, low} \subseteq BOOLEAN
  /\ edge \in {"none", "own", "foreign"}
  /\ stage \in {"top", "store", "evaluate"}
  /\ unpolled \in 0 .. MaxPoll
  /\ {beat, held, silentWire, misheard, silentUart} \subseteq 0 .. CLOCK

(* The Control Unit, which looks for an edge in the last 500 ms, always    *)
(* finds one: the heartbeat is never late by more than a superloop round,  *)
(* whatever edges, frames and wraps of ms_counter come between.            *)
HeartbeatBound == PULSE_PERIOD - 1 + MaxPoll
HeartbeatKept == beat <= HeartbeatBound

(* A pulse lasts its nominal width, and at most one superloop round more.  *)
PulseBound == PULSE_WIDTH - 1 + MaxPoll
PulseShaped == held <= PulseBound /\ (stage = "evaluate" /\ ~low /\ beat < PULSE_PERIOD /\ held > 0
                                       => held >= PULSE_WIDTH)

(* A Control Unit that has been silent on both ways is absent, unless our  *)
(* own pulse was taken for its own meanwhile, until ms_counter has gone    *)
(* all the way round; a frame in the millisecond 0 leaves no trace.        *)
WireLimit == CU_TIMEOUT + 2 * MaxPoll
Recorded == IF misheard < silentWire THEN misheard ELSE silentWire
AbsentInTime ==
  /\ WireLimit <= Recorded /\ Recorded < CLOCK
  /\ last_cu_uart_ms = 0 \/ (UART_TIMEOUT <= silentUart /\ silentUart < CLOCK)
  => ~Present

(* A pulse of the Control Unit that was recorded in the last 500 ms is     *)
(* believed once a tick has begun after it, also when our own was recorded *)
(* between: the tick that an edge interrupts may take its time stamp for   *)
(* the future, the next one does not.                                      *)
PresentIfPulse ==
  stage = "top" /\ MaxPoll < Recorded /\ silentWire < CU_TIMEOUT => Present

(* The types, and a heartbeat that is neither late nor misshapen           *)
(* (HeartbeatKept, PulseShaped).                                           *)
HeartbeatInv == PresenceTypeOK /\ HeartbeatKept /\ PulseShaped

(* The peer is believed present or absent in time (AbsentInTime,           *)
(* PresentIfPulse), whichever interrupt fell between which statements.     *)
PresenceInv == AbsentInTime /\ PresentIfPulse
=============================================================================
