SPECIFICATION FairSpec
CONSTANTS
  REQUEST_BUCKET_CAPACITY = 1
  REQUEST_REFILL_INTERVAL = 2
  COMMAND_RATE_LIMIT = 3
  RATE_LIMIT_TOLERANCE = 1
  Message = {"m1", "m2"}
  CMD_QUEUE_DEPTH = 1
  RESP_QUEUE_DEPTH = 1
  MaxTime = 4
INVARIANTS
  CommandsInv
  BurstBounded
PROPERTIES
  Settled
CHECK_DEADLOCK FALSE
