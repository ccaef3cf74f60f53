------------------------------- MODULE RateLimit -------------------------------
(***************************************************************************)
(* The rate limits of MqttCommandProcessor.cc: a token bucket for requests *)
(* and a minimum interval for commands, both read only when a message is   *)
(* there.  Tokens are added lazily, and lastRefillTimeUs moves on by whole *)
(* refill intervals only, so that no fraction of one is lost.              *)
(***************************************************************************)
EXTENDS Integers

CONSTANTS
  REQUEST_BUCKET_CAPACITY,   \* (8)
  REQUEST_REFILL_INTERVAL,   \* (200 ms)
  COMMAND_RATE_LIMIT,        \* (500 ms)
  RATE_LIMIT_TOLERANCE       \* (5 ms)

ASSUME LimitAssumption ==
  /\ REQUEST_BUCKET_CAPACITY \in Nat \ {0} /\ REQUEST_REFILL_INTERVAL \in Nat \ {0}
  /\ COMMAND_RATE_LIMIT \in Nat /\ RATE_LIMIT_TOLERANCE \in 0 .. COMMAND_RATE_LIMIT

VARIABLES
  now,                       \* esp_timer_get_time()
  tokens, lastRefillTime,    \* s_requestBucket
  lastCommandTime            \* 0: no command since the start

(* Observer: the requests admitted in a window that starts at any instant. *)
VARIABLES windowStart, admitted

limits == <<tokens, lastRefillTime, lastCommandTime>>
window == <<windowStart, admitted>>
limitVars == <<now, limits, window>>

NoWindow == -1

LimitInit ==
  /\ now = 1 /\ tokens = REQUEST_BUCKET_CAPACITY /\ lastRefillTime = 1
  /\ lastCommandTime = 0 /\ windowStart = NoWindow /\ admitted = 0

Tick == now' = now + 1 /\ UNCHANGED <<limits, window>>

OpenWindow ==
  /\ windowStart = NoWindow /\ windowStart' = now /\ UNCHANGED <<now, limits, admitted>>

tokensToAdd == (now - lastRefillTime) \div REQUEST_REFILL_INTERVAL

Refilled ==
  IF tokens + tokensToAdd > REQUEST_BUCKET_CAPACITY
  THEN REQUEST_BUCKET_CAPACITY ELSE tokens + tokensToAdd

(* Mutant: the bucket is refilled, and the time of it forgotten. *)
RefillBug == UNCHANGED lastRefillTime
Refill == lastRefillTime' = lastRefillTime + tokensToAdd * REQUEST_REFILL_INTERVAL

RequestAllowed == Refilled > 0

checkRequestRateLimit ==
  /\ Refill
  /\ tokens' = IF RequestAllowed THEN Refilled - 1 ELSE Refilled
  /\ admitted' = IF RequestAllowed /\ windowStart # NoWindow THEN admitted + 1 ELSE admitted
  /\ UNCHANGED <<now, lastCommandTime, windowStart>>

CommandAllowed ==
  lastCommandTime = 0 \/ now - lastCommandTime >= COMMAND_RATE_LIMIT - RATE_LIMIT_TOLERANCE

checkCommandRateLimit ==
  /\ lastCommandTime' = IF CommandAllowed THEN now ELSE lastCommandTime
  /\ UNCHANGED <<now, tokens, lastRefillTime, window>>

LimitTypeOK ==
  /\ now \in Nat /\ tokens \in 0 .. REQUEST_BUCKET_CAPACITY
  /\ lastRefillTime \in Nat /\ lastCommandTime \in Nat
  /\ windowStart \in Nat \cup {NoWindow} /\ admitted \in Nat

(* In no stretch of time, whenever it begins and however the requests      *)
(* arrive, are more requests admitted than a full bucket, what the elapsed *)
(* time refills, and one refill that was under way.                        *)
BurstBounded ==
  windowStart # NoWindow =>
    admitted <= REQUEST_BUCKET_CAPACITY + (now - windowStart) \div REQUEST_REFILL_INTERVAL + 1
=============================================================================
