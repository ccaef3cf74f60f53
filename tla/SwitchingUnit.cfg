SPECIFICATION UnitSpec
CONSTANTS
  CLOCK = 7
  STARTER_MAX = 5
  STOP_PULSE = 1
  COOLDOWN = 2
  MOTOR_GRACE = 1
  SECOND = 2
  MaxLag = 1
  DEBOUNCE_INTERVAL = 1
  DEBOUNCE_THRESHOLD = 2
  MaxPoll = 2
INVARIANTS
  DebounceInv
  OpenCoilReleased
  StoppedUnlessHeld
PROPERTIES
  GlitchFree
