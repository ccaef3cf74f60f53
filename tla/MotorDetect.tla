----------------------------- MODULE MotorDetect -----------------------------
(***************************************************************************)
(* The debounced motor feedback of the Switching Unit (motor_detect.c).    *)
(* The optoisolator on PD4 is sampled every DEBOUNCE_INTERVAL ms; a level  *)
(* is believed after DEBOUNCE_THRESHOLD equal samples in a row, and the    *)
(* change is reported with a source deduced from the relay state.          *)
(***************************************************************************)
EXTENDS Integers, Millis

CONSTANTS
  DEBOUNCE_INTERVAL,   \* ms between two samples                 (10)
  DEBOUNCE_THRESHOLD,  \* equal samples before a level counts     (3)
  MaxPoll              \* ms between two calls of motor_detect_tick, at most

VARIABLES
  ms_counter,
  pin,               \* the level of PD4: TRUE = AC on the motor
  current_state,     \* what motor_is_running() returns
  last_sample,
  sample_count,
  last_sample_ms,
  rstate,            \* relay_get_state()
  report             \* the event the last step sent

(* Observers. *)
VARIABLES
  unpolled,          \* ms since motor_detect_tick last ran
  held,              \* ms since the pin last changed, up to Settled
  span               \* ms since the first of the equal samples, up to Settled

debounceVars == <<current_state, last_sample, sample_count, last_sample_ms>>
vars == <<ms_counter, pin, debounceVars, rstate, report, unpolled, held, span>>

Settled == DEBOUNCE_THRESHOLD * (DEBOUNCE_INTERVAL + MaxPoll - 1) + 1
Age(n) == IF n < Settled THEN n + 1 ELSE n

(* motor_detect_init: the level found at boot is believed at once. *)
Init ==
  /\ ms_counter = 0
  /\ pin \in BOOLEAN
  /\ current_state = pin /\ last_sample = pin
  /\ sample_count = DEBOUNCE_THRESHOLD
  /\ last_sample_ms = 0
  /\ rstate = "IDLE" /\ report = <<>>
  /\ unpolled = 0 /\ held = Settled /\ span = Settled

(* The definitions named ...Bug are the next one with a mistake in it: the *)
(* properties below have been seen to catch them.                          *)
SampleDueBug == ms_counter >= last_sample_ms + DEBOUNCE_INTERVAL
SampleDue == Since(ms_counter, last_sample_ms) >= DEBOUNCE_INTERVAL

AgreeingBug == IF sample_count < DEBOUNCE_THRESHOLD THEN sample_count + 1
               ELSE sample_count

(* The count of equal samples after this one. *)
Agreeing == IF pin # last_sample THEN 1
            ELSE IF sample_count < DEBOUNCE_THRESHOLD THEN sample_count + 1
            ELSE sample_count

StartSource == IF rstate \in {"STARTING", "RUNNING"} THEN "COMMAND" ELSE "MANUAL"
StopSource  == CASE rstate = "STOPPING" -> "COMMAND"
                 [] rstate \in {"STARTING", "RUNNING"} -> "FAULT"
                 [] OTHER -> "MANUAL"

Sample ==
  /\ SampleDue
  /\ last_sample_ms' = ms_counter
  /\ last_sample' = pin
  /\ sample_count' = Agreeing
  /\ span' = IF pin # last_sample THEN 0 ELSE span
  /\ IF Agreeing >= DEBOUNCE_THRESHOLD /\ pin # current_state
     THEN /\ current_state' = pin
          /\ report' = IF pin THEN <<"PUMP_STARTED", StartSource>>
                              ELSE <<"PUMP_STOPPED", StopSource>>
     ELSE report' = <<>> /\ UNCHANGED current_state

NoSample == ~SampleDue /\ report' = <<>> /\ UNCHANGED <<debounceVars, span>>

MotorDetectTick ==
  /\ Sample \/ NoSample
  /\ unpolled' = 0
  /\ UNCHANGED <<ms_counter, pin, rstate, held>>

Millisecond ==
  /\ unpolled < MaxPoll
  /\ ms_counter' = Following(ms_counter)
  /\ unpolled' = unpolled + 1 /\ held' = Age(held) /\ span' = Age(span)
  /\ report' = <<>>
  /\ UNCHANGED <<pin, debounceVars, rstate>>

PinChanges ==
  /\ pin' = ~pin
  /\ held' = 0
  /\ report' = <<>>
  /\ UNCHANGED <<ms_counter, debounceVars, rstate, unpolled, span>>

(* Reset: motor_detect_init.  The level found is believed without any      *)
(* debouncing, so it counts as settled.                                    *)
PowerCycle ==
  /\ ms_counter' = 0 /\ last_sample_ms' = 0
  /\ current_state' = pin /\ last_sample' = pin
  /\ sample_count' = DEBOUNCE_THRESHOLD
  /\ rstate' = "IDLE" /\ report' = <<>>
  /\ unpolled' = 0 /\ span' = Settled
  /\ UNCHANGED <<pin, held>>

-----------------------------------------------------------------------------
TypeOK ==
  /\ ms_counter \in Instant /\ last_sample_ms \in Instant
  /\ pin \in BOOLEAN /\ current_state \in BOOLEAN /\ last_sample \in BOOLEAN
  /\ sample_count \in 1 .. DEBOUNCE_THRESHOLD
  /\ unpolled \in 0 .. MaxPoll /\ held \in 0 .. Settled /\ span \in 0 .. Settled

(* A glitch is never believed: every change of the debounced level rests   *)
(* on samples that span the whole debounce window, also across the wrap of *)
(* ms_counter and when the superloop polls late; only the boot, which      *)
(* believes its first reading, is exempt.                                  *)
GlitchFree ==
  [][current_state' # current_state =>
       PowerCycle \/ span' >= (DEBOUNCE_THRESHOLD - 1) * DEBOUNCE_INTERVAL]_vars

(* A level that holds for three late samples is believed: relay_tick never *)
(* works for longer than that with a feedback that is out of date.         *)
DetectedInTime == held = Settled => current_state = pin
=============================================================================
