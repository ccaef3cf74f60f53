SPECIFICATION NetworkFairSpec
CONSTANTS
  SSID = {"a", "b"}
  Waiter = {"main", "task"}
  MaxEvents = 2
  MaxFaults = 2
  Saved = {{}, {"a"}, {"a", "b"}}
  Client = {"c1", "c2"}
INVARIANTS
  ClientInv
  StateFollowsLink
PROPERTIES
  Recovers
  ConfigModeReached
CHECK_DEADLOCK FALSE
