SPECIFICATION FairSpec
CONSTANTS
  Version = {1, 2, 3}
  Unread = {2}
  Chunks = 2
  MaxFaults = 2
INVARIANTS
  AttemptInv
  BootWhole
PROPERTIES
  NoReinstall
  OtaProgress
