SPECIFICATION Spec
CONSTANTS
  MaxLevel = 4
  SPIKE_THRESHOLD = 2
  HEARTBEAT = 3
INVARIANTS
  ReportInv
  ChangeReported
PROPERTIES
  NoDuplicates
