SPECIFICATION PresenceSpec
CONSTANTS
  CLOCK = 12
  PULSE_PERIOD = 3
  PULSE_WIDTH = 1
  CU_TIMEOUT = 6
  UART_TIMEOUT = 7
  MaxPoll = 2
INVARIANTS
  HeartbeatInv
  PresenceInv
