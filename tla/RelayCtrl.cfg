SPECIFICATION Spec
CONSTANTS
  CLOCK = 9
  STARTER_MAX = 3
  STOP_PULSE = 1
  COOLDOWN = 6
  MOTOR_GRACE = 2
  SECOND = 2
  MaxLag = 2
INVARIANTS
  WindingInv
  DryRunBounded
PROPERTIES
  RestBeforeStart
  ActuatorSafety
  ActuatorLiveness
