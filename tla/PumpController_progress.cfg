SPECIFICATION FairSpec
CONSTANTS
  Caller = {}
  MaxTimers = 2
  MaxRestarts = 1
PROPERTIES
  PumpProgress
