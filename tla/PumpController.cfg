SPECIFICATION Spec
CONSTANTS
  Caller = {"caller"}
  MaxTimers = 1
  MaxRestarts = 0
VIEW Told
INVARIANTS
  LockoutInv
  OneStarter
  Watched
